----------------------------- MODULE AccountLinks -----------------------------
(***************************************************************************)
(* Sign-up, confirmation of the address and password recovery of one       *)
(* customer address: the pages (SignupPage.tsx, CustomerAuthPages.tsx) in  *)
(* several tabs, the links that are mailed, and the handlers behind them   *)
(* (signup_handlers.go).  A reset is one transaction of several            *)
(* statements: it takes its own link, the password row, then every other   *)
(* link of the account, so that two resets can wait for each other.        *)
(***************************************************************************)
EXTENDS Naturals

CONSTANTS
    Tabs,
    MaxLinks,   \* bounds how many links are made
    None

Bounds == MaxLinks \in Nat /\ None \notin 1..MaxLinks

VARIABLES
    owner,    \* the account of the address: "none", "unverified", "verified"
    link,     \* the token rows
    made,     \* how many there are
    mailed,   \* links that arrived in the mailbox
    tab       \* the page of each tab, with the call it makes

vars == <<owner, link, made, mailed, tab>>

Links == 1..MaxLinks
Unmade == [kind |-> None, state |-> "unmade"]
Closed == [page |-> "closed", link |-> None, status |-> "form", step |-> "none", swept |-> 0]

\* What the call of a tab holds locked until its transaction ends.
InTx(x) == tab[x].step \in {"claimed", "set", "sweeping"}
HoldsLink(x, t) == InTx(x) /\ tab[x].link = t
HoldsPassword(x) == tab[x].step \in {"set", "sweeping"}

-----------------------------------------------------------------------------
(* The pages *)

Show(x, t) == tab' = [tab EXCEPT ![x] = t] /\ UNCHANGED <<owner, link, made, mailed>>
Idle(x) == tab[x].step = "none"
Opened(p, t) == [Closed EXCEPT !.page = p, !.link = t]

SignupPage(x) == Idle(x) /\ Show(x, Opened("signup", None))
ForgotPage(x) == Idle(x) /\ Show(x, Opened("forgot", None))
ResetPage(x, t) == Idle(x) /\ t \in mailed /\ link[t].kind = "reset" /\ Show(x, Opened("reset", t))

\* The confirmation page sends its token as soon as it is open.
VerifyEmailPage(x, t) ==
    /\ Idle(x) /\ t \in mailed /\ link[t].kind = "verify"
    /\ Show(x, [Opened("verify", t) EXCEPT !.status = "busy", !.step = "sent"])

\* isSubmitting keeps the button disabled while the call is under way.
Submit(x, p) ==
    /\ tab[x].page = p /\ tab[x].status \in {"form", "failed"}
    /\ Show(x, [tab[x] EXCEPT !.status = "busy", !.step = "sent"])

SignupForm(x) == Submit(x, "signup")
ForgotForm(x) == Submit(x, "forgot")
ResetForm(x) == Submit(x, "reset")

\* Mutant: the button is enabled again only by a success.
StatusOnSuccess(x) == IF tab[x].step = "ok" THEN "done" ELSE tab[x].status

\* ForgotPasswordPage says "Check your email" whatever came back; the others
\* tell an answer from a failure.
StatusAfter(x) == IF tab[x].step = "ok" \/ tab[x].page = "forgot" THEN "done" ELSE "failed"

Settle(x) ==
    /\ tab[x].step \in {"ok", "no"}
    /\ Show(x, [tab[x] EXCEPT !.status = StatusAfter(x), !.step = "none"])

\* The request or its answer is lost.
Lose(x) ==
    /\ tab[x].step \in {"sent", "ok"}
    /\ Show(x, [tab[x] EXCEPT !.step = "no"])

-----------------------------------------------------------------------------
(* The API *)

Received(x, p) == tab[x].page = p /\ tab[x].step = "sent"
Step(x, step) == tab' = [tab EXCEPT ![x].step = step]

\* A new row, and the mail: SendAsync may fail for good.  An INSERT that failed
\* is not noticed, the link is mailed all the same.
Mail(kind, state) ==
    /\ made < MaxLinks
    /\ made' = made + 1
    /\ link' = [link EXCEPT ![made + 1] = [kind |-> kind, state |-> state]]
    /\ mailed' \in {mailed, mailed \cup {made + 1}}

\* createAccount.  A taken address gets another mail and the same answer.
Signup(x) ==
    /\ Received(x, "signup")
    /\ \/ owner = "none" /\ owner' = "unverified" /\ Mail("verify", "live") /\ Step(x, "ok")
       \/ owner # "none" /\ Step(x, "ok") /\ UNCHANGED <<owner, link, made, mailed>>
       \/ Step(x, "no") /\ UNCHANGED <<owner, link, made, mailed>>   \* 400, 500

ForgotPassword(x) ==
    /\ Received(x, "forgot")
    /\ \/ owner # "none" /\ \E state \in {"live", "unusable"} : Mail("reset", state)
       \/ UNCHANGED <<link, made, mailed>>
    /\ Step(x, "ok")
    /\ UNCHANGED owner

\* Mutant: the statement does not look at consumed_at.
UsableAgain(t) == link[t].state \in {"live", "consumed"}

\* consumed_at IS NULL AND expires_at > now()
Usable(t) == link[t].state = "live"

VerifyEmail(x) ==
    /\ Received(x, "verify")
    /\ IF Usable(tab[x].link)
       THEN /\ link' = [link EXCEPT ![tab[x].link].state = "consumed"]
            /\ owner' = "verified"
            /\ Step(x, "ok")
       ELSE Step(x, "no") /\ UNCHANGED <<owner, link>>
    /\ UNCHANGED <<made, mailed>>

\* ResetPassword: the first UPDATE waits for whoever has the row, then looks again.
ClaimLink(x) ==
    /\ Received(x, "reset")
    /\ \A y \in Tabs : ~HoldsLink(y, tab[x].link)
    /\ Step(x, IF Usable(tab[x].link) THEN "claimed" ELSE "no")
    /\ UNCHANGED <<owner, link, made, mailed>>

SetPassword(x) ==
    /\ tab[x].step = "claimed"
    /\ \A y \in Tabs : ~HoldsPassword(y)
    /\ Step(x, "set")
    /\ UNCHANGED <<owner, link, made, mailed>>

\* "Any other outstanding reset links are dead too": those there when the
\* statement starts ...
SweepLinks(x) ==
    /\ tab[x].step = "set"
    /\ tab' = [tab EXCEPT ![x].step = "sweeping", ![x].swept = made]
    /\ UNCHANGED <<owner, link, made, mailed>>

\* Mutant: links another reset holds are passed over.
MaySweepLocked(x) == TRUE

\* ... once nobody else holds one of them ...
MaySweep(x) == \A y \in Tabs \ {x}, t \in 1..tab[x].swept : ~HoldsLink(y, t)

\* ... and the commit.
Commit(x) ==
    /\ tab[x].step = "sweeping" /\ MaySweep(x)
    /\ link' = [t \in Links |->
          IF t = tab[x].link \/ (t <= tab[x].swept /\ link[t] = [kind |-> "reset", state |-> "live"]
                                 /\ \A y \in Tabs \ {x} : ~HoldsLink(y, t))
          THEN [link[t] EXCEPT !.state = "consumed"] ELSE link[t]]
    /\ Step(x, "ok")
    /\ UNCHANGED <<owner, made, mailed>>

\* An error of the transaction, a deadlock's victim among them: rolled back, 500.
Abort(x) ==
    /\ InTx(x)
    /\ Step(x, "no")
    /\ UNCHANGED <<owner, link, made, mailed>>

\* 24 hours, one hour.
Expire(t) ==
    /\ link[t].state = "live" /\ \A x \in Tabs : ~HoldsLink(x, t)
    /\ link' = [link EXCEPT ![t].state = "unusable"]
    /\ UNCHANGED <<owner, made, mailed, tab>>

-----------------------------------------------------------------------------
Init ==
    /\ owner \in {"none", "verified"} /\ made = 0 /\ mailed = {}
    /\ link = [t \in Links |-> Unmade]
    /\ tab = [x \in Tabs |-> Closed]

Serve(x) ==
    \/ Signup(x) \/ ForgotPassword(x) \/ VerifyEmail(x) \/ ClaimLink(x)
    \/ SetPassword(x) \/ SweepLinks(x) \/ Commit(x) \/ Abort(x)

Next ==
    \/ \E x \in Tabs :
         \/ SignupPage(x) \/ ForgotPage(x) \/ SignupForm(x) \/ ForgotForm(x) \/ ResetForm(x)
         \/ Settle(x) \/ Lose(x) \/ Serve(x)
         \/ \E t \in Links : ResetPage(x, t) \/ VerifyEmailPage(x, t)
    \/ \E t \in Links : Expire(t)

\* Handlers run, those that wait for a row get it in turn, deadlocks are broken,
\* answers are handled.
Spec == Init /\ [][Next]_vars /\ \A x \in Tabs : WF_vars(Settle(x)) /\ SF_vars(Serve(x))

-----------------------------------------------------------------------------
TypeOK ==
    /\ owner \in {"none", "unverified", "verified"} /\ made \in 0..MaxLinks
    /\ link \in [Links -> [kind : {"verify", "reset", None},
                           state : {"unmade", "live", "unusable", "consumed"}]]
    /\ mailed \subseteq Links
    /\ tab \in [Tabs -> [page : {"closed", "signup", "forgot", "reset", "verify"},
                         link : Links \cup {None}, status : {"form", "busy", "done", "failed"},
                         step : {"none", "sent", "claimed", "set", "sweeping", "ok", "no"},
                         swept : 0..MaxLinks]]

\* Two tabs never both report that the same link worked ("can only be used once").
LinksWorkOnce ==
    \A x, y \in Tabs :
        (x # y /\ tab[x].status = "done" /\ tab[y].status = "done")
           => tab[x].link = None \/ tab[x].link # tab[y].link

\* Where "Password updated" is shown, no link that was out when the reset got
\* to them can change the password again, not even one whose own reset was under
\* way and failed.
OldLinksAreDead ==
    \A x \in Tabs, t \in Links :
        (tab[x].status = "done" /\ tab[x].page = "reset" /\ t <= tab[x].swept)
           => link[t].state # "live" \/ link[t].kind # "reset"

\* "Any other outstanding reset links are dead too": once a reset has committed no
\* reset link is usable.  Violated: the INSERT of a link may commit between the
\* start of the statement that sweeps and the commit of the reset.
OutstandingLinksDie ==
    [][\A x \in Tabs : (tab[x].step = "sweeping" /\ tab'[x].step = "ok") =>
          \A t \in Links : link'[t] # [kind |-> "reset", state |-> "live"]]_vars

\* A form that was submitted has neither its button nor an answer.
Waiting(x) == tab[x].status = "busy"

\* Every submitted form gets its button or its answer back, also when two resets
\* wait for each other's rows.
FormsAnswer == \A x \in Tabs : Waiting(x) ~> ~Waiting(x)
=============================================================================
