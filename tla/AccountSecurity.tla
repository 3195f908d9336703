--------------------------- MODULE AccountSecurity ---------------------------
(***************************************************************************)
(* The security page of the signed-in account: AccountSecurityPage.tsx for *)
(* staff, PersonalSecurityPage for customers, with the in-place enrolment  *)
(* (InlineTotpEnroll.tsx) and as much of selfservice_handlers.go as        *)
(* answers their calls.  Nothing but the two Save buttons waits for a call *)
(* in flight: lists, panels and forms change while answers are under way.  *)
(***************************************************************************)
EXTENDS Naturals

CONSTANTS
    Methods,    \* factor rows the account can have
    MaxSets,    \* bounds how many sets of recovery codes are generated
    MaxCalls,   \* bounds how many calls overlap
    None

VARIABLES
    account,   \* server: factor rows, set of codes in force, sets made, other sessions
    screen,    \* the state of the page and of the enrolment in it
    call,      \* calls in flight
    seen,      \* history: sets of codes that were on screen, or whose answer was
               \* lost or came when nobody waited for it any more
    crossed,   \* history: two writers of codes overlapped, or codes came to a
               \* page that had an enrolment open
    untold     \* history: the page cannot know the account, see Untold

vars == <<account, screen, call, seen, crossed, untold>>

Calls == 1..MaxCalls
Sets == 1..MaxSets
CodeOps == {"verify", "regenerate"}
ListOps == {"remove", "regenerate", "revoke", "revokeOthers"}
Ops == CodeOps \cup ListOps \cup {"load", "refresh", "start", "password"}
Answers == {"ok", "failed", "refused"}

Bounds ==
    /\ MaxSets \in Nat /\ MaxCalls \in Nat \ {0}
    /\ None \notin Methods /\ (\A S \in SUBSET Methods : S # None) /\ None \notin Sets
    /\ None \notin BOOLEAN /\ None \notin Ops /\ None \notin Answers

\* got: a method, a set of codes, or the two halves of a list.
Free == [op |-> None, arg |-> None, mine |-> FALSE, tail |-> FALSE,
         answer |-> None, factors |-> None, others |-> None, got |-> None]

\* tail: refresh() is called next.  mine: the component that waits is still there.
Request(op, arg, tail) == [Free EXCEPT !.op = op, !.arg = arg, !.mine = TRUE, !.tail = tail]

Blank == [page |-> "closed", shown |-> None, panel |-> None, newCodes |-> None, saving |-> FALSE,
          enrol |-> "closed", method |-> None, enrolCodes |-> None, busy |-> FALSE]

Verified == {m \in Methods : account.factor[m] = "verified"}
InFlight(c) == call[c].op # None
Quiet == \A c \in Calls : ~InFlight(c)
CodesAwaited == \E c \in Calls : call[c].op \in CodeOps

\* The sets of codes a user can read.
EnrolmentCodes(s) == IF s.enrol = "codes" THEN {s.enrolCodes} ELSE {}
RegeneratedCodes(s) == IF s.enrol = "closed" /\ s.newCodes # None THEN {s.newCodes} ELSE {}
Visible(s) == EnrolmentCodes(s) \cup RegeneratedCodes(s)

Send(c, op, arg, tail) ==
    /\ ~InFlight(c) /\ \A d \in 1..(c - 1) : InFlight(d)
    /\ call' = [call EXCEPT ![c] = Request(op, arg, tail)]
    /\ crossed' = (crossed \/ (op \in CodeOps /\ CodesAwaited))

\* What a component awaits goes on without it.
Orphaned(ops) == [c \in Calls |-> [call[c] EXCEPT !.mine = @ /\ call[c].op \notin ops]]

-----------------------------------------------------------------------------
(* The page *)

\* useEffect(() => { void load() }): on opening, whatever the last visit has in flight.
Open(c, p) ==
    /\ screen.page = "closed"
    /\ screen' = [Blank EXCEPT !.page = p]
    /\ Send(c, "load", None, FALSE)
    /\ untold' = FALSE
    /\ UNCHANGED account

Away ==
    /\ screen.page # "closed"
    /\ screen' = Blank
    /\ call' = Orphaned(Ops)
    /\ UNCHANGED <<account, crossed, untold>>

Press(c, op, arg, tail) == Send(c, op, arg, tail) /\ UNCHANGED <<account, screen, untold>>

\* SessionsSection and its counterpart: the buttons of the other devices.
OthersListed == screen.shown # None /\ screen.shown.others
PersonalOthersListed == screen.page = "security" /\ OthersListed

revokeSession(c) == screen.page = "account" /\ OthersListed /\ Press(c, "revoke", None, FALSE)
revokeOthers(c) == screen.page = "account" /\ OthersListed /\ Press(c, "revokeOthers", None, FALSE)
PersonalRevoke(c) == PersonalOthersListed /\ Press(c, "revoke", None, FALSE)
PersonalRevokeOthers(c) == PersonalOthersListed /\ Press(c, "revokeOthers", None, TRUE)

ChangePassword(c, p) ==
    /\ screen.page = p /\ ~screen.saving
    /\ screen' = [screen EXCEPT !.saving = TRUE]
    /\ Send(c, "password", None, FALSE)
    /\ UNCHANGED <<account, untold>>

PasswordSection(c) == ChangePassword(c, "account")
PasswordCard(c) == ChangePassword(c, "security")

-----------------------------------------------------------------------------
(* TwoFactorSection *)

Show(s) == screen' = s /\ UNCHANGED <<account, call, crossed, untold>>

\* The list of methods, and "Regenerate" beside it.
MethodsListed ==
    screen.page = "account" /\ screen.enrol = "closed" /\ screen.shown # None

AskPassword(what) ==
    /\ MethodsListed /\ screen.panel # what
    /\ IF what = "recovery" THEN screen.shown.factors # {} ELSE what \in screen.shown.factors
    /\ Show([screen EXCEPT !.panel = what])

\* The panel that asks for the password stays while its call is in flight.
PanelShown == screen.enrol = "closed" /\ screen.panel # None /\ screen.newCodes = None

removeMethod(c) == PanelShown /\ screen.panel \in Methods /\ Press(c, "remove", screen.panel, TRUE)
regenerateCodes(c) == PanelShown /\ screen.panel = "recovery" /\ Press(c, "regenerate", None, TRUE)
CancelPanel == PanelShown /\ Show([screen EXCEPT !.panel = None])

CodesSaved ==
    /\ RegeneratedCodes(screen) # {}
    /\ Show([screen EXCEPT !.panel = None, !.newCodes = None])

-----------------------------------------------------------------------------
(* InlineTotpEnroll *)

\* startEnrol clears the rest of the section.
EnrolmentOpened == [screen EXCEPT !.enrol = "loading", !.panel = None, !.newCodes = None]

OpenEnrolment(c, p) ==
    /\ screen.page = p /\ screen.enrol = "closed"
    /\ screen' = EnrolmentOpened
    /\ Send(c, "start", None, FALSE)
    /\ UNCHANGED <<account, untold>>

startEnrol(c) == OpenEnrolment(c, "account")
PersonalEnable(c) == OpenEnrolment(c, "security")

onVerify(c) ==
    /\ screen.enrol = "scan" /\ ~screen.busy
    /\ screen' = [screen EXCEPT !.busy = TRUE]
    /\ Send(c, "verify", screen.method, FALSE)
    /\ UNCHANGED <<account, untold>>

EnrolmentClosed ==
    [screen EXCEPT !.enrol = "closed", !.method = None, !.enrolCodes = None, !.busy = FALSE]

\* The X and Cancel: also while the code is being verified.
CancelEnrolment ==
    /\ screen.enrol \in {"loading", "scan", "error"}
    /\ screen' = EnrolmentClosed
    /\ call' = Orphaned({"start", "verify"})
    /\ UNCHANGED <<account, crossed, untold>>

\* "I've saved them": onChanged(), that is load() and refresh().
CompleteEnrolment(c) ==
    /\ screen.enrol = "codes"
    /\ screen' = EnrolmentClosed
    /\ Send(c, "load", None, TRUE)
    /\ UNCHANGED <<account, untold>>

-----------------------------------------------------------------------------
(* Answers *)

Settled(c, ops, answer) == call[c].op \in ops /\ call[c].answer = answer

\* Any 401 signs out on this screen, a wrong password or code too, and so does
\* a refresh() that fails: the page goes away.
SignedOut(c) ==
    /\ Settled(c, Ops, "refused") \/ Settled(c, {"refresh"}, "failed")
    /\ screen' = Blank
    /\ call' = [Orphaned(Ops) EXCEPT ![c] = Free]
    /\ UNCHANGED <<account, seen, crossed, untold>>

\* Mutant: a removal leaves the list as it was.
ThenUnlessRemoval(c) == IF call[c].op = "remove" THEN Free ELSE [Request("load", None, call[c].tail) EXCEPT !.mine = call[c].mine]

\* await load() ends each change of a list.
Then(c) == [Request("load", None, call[c].tail) EXCEPT !.mine = call[c].mine]

\* Mutant: the new codes are for the panel that asked for them.
CodesForPanel(c) == IF screen.panel = "recovery" THEN [screen EXCEPT !.newCodes = call[c].got] ELSE screen

\* setNewCodes: whether or not anything of the section is on screen.
CodesKept(c) == [screen EXCEPT !.newCodes = call[c].got]

SettleChange(c) ==
    /\ Settled(c, ListOps, "ok")
    /\ LET regenerated == call[c].op = "regenerate"
       IN /\ screen' = IF ~call[c].mine THEN screen
                       ELSE IF regenerated THEN CodesKept(c)
                       ELSE IF call[c].op = "remove" THEN [screen EXCEPT !.panel = None] ELSE screen
          /\ crossed' = (crossed \/ (call[c].mine /\ regenerated /\ screen.enrol # "closed"))
          /\ seen' = seen \cup Visible(screen')
                          \cup IF regenerated /\ ~call[c].mine THEN {call[c].got} ELSE {}
    /\ call' = [call EXCEPT ![c] = Then(c)]
    /\ untold' = (untold \/ ~call[c].mine)
    /\ UNCHANGED account

SettleEnrolment(c) ==
    /\ Settled(c, {"start", "verify"}, "ok")
    /\ screen' = IF ~call[c].mine THEN screen
                 ELSE IF call[c].op = "start"
                 THEN [screen EXCEPT !.enrol = "scan", !.method = call[c].got]
                 ELSE [screen EXCEPT !.enrol = "codes", !.enrolCodes = call[c].got, !.busy = FALSE]
    /\ seen' = seen \cup Visible(screen')
                    \cup IF call[c].op = "verify" /\ ~call[c].mine THEN {call[c].got} ELSE {}
    /\ call' = [call EXCEPT ![c] = Free]
    /\ untold' = (untold \/ (call[c].op = "verify" /\ ~call[c].mine))
    /\ UNCHANGED <<account, crossed>>

\* The list on screen is not, or not surely, the last one: another load is under
\* way or failed, or a password change signed the other devices out.
Untold(c) ==
    \/ call[c].op = "password"
    \/ call[c].mine /\ (call[c].answer = "failed" \/ \E d \in Calls \ {c} : call[d].mine /\ call[d].op = "load")

SettleLoad(c) ==
    /\ call[c].op = "load" /\ call[c].answer \in {"ok", "failed"}
    /\ screen' = IF call[c].mine /\ call[c].answer = "ok"
                 THEN [screen EXCEPT !.shown = [factors |-> call[c].factors, others |-> call[c].others]]
                 ELSE screen
    /\ call' = [call EXCEPT ![c] = IF call[c].tail THEN Request("refresh", None, FALSE) ELSE Free]
    /\ untold' = (untold \/ Untold(c))
    /\ UNCHANGED <<account, seen, crossed>>

SettlePassword(c) ==
    /\ call[c].op = "password" /\ call[c].answer \in {"ok", "failed"}
    /\ screen' = IF call[c].mine THEN [screen EXCEPT !.saving = FALSE] ELSE screen
    /\ call' = [call EXCEPT ![c] = Free]
    /\ untold' = (untold \/ Untold(c))
    /\ UNCHANGED <<account, seen, crossed>>

SettleFailure(c) ==
    /\ Settled(c, ListOps \cup {"start", "verify"}, "failed")
    /\ screen' = IF ~call[c].mine THEN screen
                 ELSE IF call[c].op = "start" THEN [screen EXCEPT !.enrol = "error"]
                 ELSE IF call[c].op = "verify" THEN [screen EXCEPT !.busy = FALSE] ELSE screen
    /\ call' = [call EXCEPT ![c] = Free]
    /\ UNCHANGED <<account, seen, crossed, untold>>

SettleRefresh(c) ==
    /\ Settled(c, {"refresh"}, "ok")
    /\ call' = [call EXCEPT ![c] = Free]
    /\ UNCHANGED <<account, screen, seen, crossed, untold>>

\* No answer, or an error status; what was done stays done.
Lose(c) ==
    /\ InFlight(c) /\ call[c].answer \in {None, "ok"}
    /\ call' = [call EXCEPT ![c].answer = "failed"]
    /\ seen' = IF call[c].op \in CodeOps THEN seen \cup ({call[c].got} \ {None}) ELSE seen
    /\ untold' = (untold \/ call[c].answer = "ok")
    /\ UNCHANGED <<account, screen, crossed>>

-----------------------------------------------------------------------------
(* The API *)

Answer(c, answer, got) ==
    /\ call' = [call EXCEPT ![c].answer = answer, ![c].got = got]
    /\ UNCHANGED <<screen, seen, crossed, untold>>

Received(c, ops) == call[c].op \in ops /\ call[c].answer = None
Refuse(c, answer) == Answer(c, answer, None) /\ UNCHANGED account
NewSet == account.made + 1

\* Mutant: codes are stored for an account that has none yet, else kept.
StoredOnce == IF account.inForce = None THEN NewSet ELSE account.inForce

\* ReplaceRecoveryCodes
Stored == NewSet

\* The two GETs of load() are answered each in its own time.
ServeLoad(c) ==
    /\ Received(c, {"load"})
    /\ \/ /\ call[c].factors = None
          /\ call' = [call EXCEPT ![c].factors = Verified,
                                   ![c].answer = IF call[c].others = None THEN None ELSE "ok"]
       \/ /\ call[c].others = None
          /\ call' = [call EXCEPT ![c].others = account.others,
                                   ![c].answer = IF call[c].factors = None THEN None ELSE "ok"]
    /\ UNCHANGED <<account, screen, seen, crossed, untold>>

StartTOTPEnrollment(c) ==
    /\ Received(c, {"start"})
    /\ \/ \E m \in Methods :
            /\ account.factor[m] = "absent"
            /\ account' = [account EXCEPT !.factor[m] = "pending"]
            /\ Answer(c, "ok", m)
       \/ Refuse(c, "failed")

\* A verified method verifies again; each time the codes are replaced.
VerifyTOTPEnrollment(c) ==
    /\ Received(c, {"verify"})
    /\ \/ /\ account.factor[call[c].arg] # "revoked" /\ account.made < MaxSets
          /\ account' = [account EXCEPT !.factor[call[c].arg] = "verified",
                                        !.made = NewSet, !.inForce = Stored]
          /\ Answer(c, "ok", NewSet)
       \/ Refuse(c, IF account.factor[call[c].arg] = "revoked" THEN "failed" ELSE "refused")

DeleteMFA(c) ==
    /\ Received(c, {"remove"})
    /\ \/ /\ account' = [account EXCEPT !.factor[call[c].arg] = "revoked"]
          /\ Answer(c, "ok", None)
       \/ Refuse(c, "refused")
       \/ Verified = {call[c].arg} /\ Refuse(c, "failed")

RegenerateRecoveryCodes(c) ==
    /\ Received(c, {"regenerate"})
    /\ \/ /\ account.made < MaxSets
          /\ account' = [account EXCEPT !.made = NewSet, !.inForce = Stored]
          /\ Answer(c, "ok", NewSet)
       \/ Refuse(c, "refused")

\* RevokeSession, RevokeOtherSessions, ChangePassword.
SignOutOthers(c) ==
    /\ Received(c, {"revoke", "revokeOthers", "password"})
    /\ \/ account' = [account EXCEPT !.others = FALSE] /\ Answer(c, "ok", None)
       \/ call[c].op = "password" /\ Refuse(c, "refused")
       \/ call[c].op = "revoke" /\ ~account.others /\ Refuse(c, "failed")

ServeMe(c) == Received(c, {"refresh"}) /\ Refuse(c, "ok")

-----------------------------------------------------------------------------
Init ==
    /\ account = [factor |-> [m \in Methods |-> "absent"], inForce |-> None, made |-> 0, others |-> TRUE]
    /\ screen = Blank /\ call = [c \in Calls |-> Free]
    /\ seen = {} /\ crossed = FALSE /\ untold = FALSE

Event(c) ==
    \/ \E p \in {"account", "security"} : Open(c, p)
    \/ revokeSession(c) \/ revokeOthers(c) \/ PersonalRevoke(c) \/ PersonalRevokeOthers(c)
    \/ PasswordSection(c) \/ PasswordCard(c) \/ removeMethod(c) \/ regenerateCodes(c)
    \/ startEnrol(c) \/ PersonalEnable(c) \/ onVerify(c) \/ CompleteEnrolment(c)

\* A panel or form that closes may uncover codes that were hidden behind it.
Click ==
    \/ Away \/ CancelPanel \/ CodesSaved \/ CancelEnrolment
    \/ \E what \in Methods \cup {"recovery"} : AskPassword(what)

Settle(c) ==
    \/ SignedOut(c) \/ SettleChange(c) \/ SettleEnrolment(c) \/ SettleLoad(c)
    \/ SettlePassword(c) \/ SettleFailure(c) \/ SettleRefresh(c)

Serve(c) ==
    \/ ServeLoad(c) \/ StartTOTPEnrollment(c) \/ VerifyTOTPEnrollment(c) \/ DeleteMFA(c)
    \/ RegenerateRecoveryCodes(c) \/ SignOutOthers(c) \/ ServeMe(c)

Next ==
    \/ (Click \/ \E c \in Calls : Event(c)) /\ seen' = seen \cup Visible(screen')
    \/ \E c \in Calls : Settle(c) \/ Serve(c) \/ Lose(c)

Spec == Init /\ [][Next]_vars

-----------------------------------------------------------------------------
TypeOK ==
    /\ account.factor \in [Methods -> {"absent", "pending", "verified", "revoked"}]
    /\ account.inForce \in Sets \cup {None} /\ account.made \in 0..MaxSets
    /\ account.others \in BOOLEAN
    /\ screen.page \in {"closed", "account", "security"}
    /\ screen.panel \in Methods \cup {"recovery", None}
    /\ screen.newCodes \in Sets \cup {None} /\ screen.enrolCodes \in Sets \cup {None}
    /\ screen.enrol \in {"closed", "loading", "scan", "codes", "error"}
    /\ screen.method \in Methods \cup {None}
    /\ {screen.saving, screen.busy} \subseteq BOOLEAN
    /\ \A c \in Calls : call[c].op \in Ops \cup {None}
    /\ seen \subseteq Sets

\* Recovery codes on screen are the ones that work, as the page says of them
\* ("every previous code has been invalidated"), while writers do not overlap.
CodesShownAreCurrent == crossed \/ Visible(screen) \subseteq {account.inForce}

\* Codes that replaced the old ones reach the screen: they were on it, or are on
\* their way to it, or their answer was lost or abandoned.
CodesNotForgotten ==
    \/ crossed \/ account.inForce \in seen \cup {None}
    \/ \E c \in Calls : call[c].op \in CodeOps /\ call[c].got = account.inForce

\* With nothing in flight the lists on screen are those of the account, unless
\* the page was not told of a change.
ListsAreCurrent ==
    (Quiet /\ screen.shown # None /\ screen.enrol = "closed" /\ ~untold)
       => screen.shown = [factors |-> Verified, others |-> account.others]
=============================================================================
