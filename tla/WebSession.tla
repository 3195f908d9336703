----------------------------- MODULE WebSession -----------------------------
(***************************************************************************)
(* The session as the browser sees it: AuthProvider's state, the calls of  *)
(* apiClient that are in flight, the route that is shown, the cookie jar,  *)
(* and as much of the API as answers those calls.  One page of one plane   *)
(* (web/src/auth, web/src/lib/apiClient.ts, the sign-in pages).            *)
(*                                                                         *)
(* A call is sent with the cookie of that moment, served at any later one, *)
(* and its reply handled later still; either half may be lost.  Replies    *)
(* are handled in any order.  A reload forgets everything but the jar.     *)
(***************************************************************************)
EXTENDS Naturals, FiniteSets

CONSTANTS
    MaxCalls,     \* bounds how many calls overlap
    MaxSessions,  \* bounds the session rows the server issues
    InitRetries,  \* INIT_RETRIES
    Endings,      \* how a session may end, other than by signing out
    None

Calls == 1..MaxCalls
Sessions == 1..MaxSessions
Reasons == {"idle_timeout", "expired", "account_disabled", "no_session"}

ASSUME Bounds == MaxCalls \in Nat \ {0} /\ MaxSessions \in Nat /\ InitRetries \in Nat
ASSUME EndingsKnown == Endings \subseteq Reasons

VARIABLES
    plane,          \* "admin" or "customer"
    cookie,         \* session cookie of the jar
    challenge,      \* the sign-in challenge the browser holds
    rows,           \* server: what has become of each session
    hasAdmin,       \* server: first-run setup is over
    user, userRef,  \* AuthProvider: the caller shown, and the ref the 401 handler reads
    initState, attempt, setupRequired, endedReason,
    page,           \* what the router shows
    call,           \* calls in flight
    late            \* history: an answer came too late, see Overtaken

vars == <<plane, cookie, challenge, rows, hasAdmin, user, userRef, initState,
          attempt, setupRequired, endedReason, page, call, late>>
jar == <<cookie, challenge>>
server == <<rows, hasAdmin>>
startup == <<initState, attempt, setupRequired>>

MeOps == {"me_boot", "me_enter", "me_ping"}
CookieOps == MeOps \cup {"console", "logout", "enrol"}
Ops == CookieOps \cup {"status", "status_after", "login", "mfa", "setup"}
Forms == {"login", "mfa", "enrol", "setup"}

\* What api.request can come back with: a body, a 401's reason, a 401 without
\* one ("refused"), a 410, and NetworkError or an error status treated like it
\* ("unreachable"); only getSetupStatus tells the two apart ("failed").
Answers == Reasons \cup {"ok", "needed", "done", "authenticated", "mfa_required",
    "mfa_enrollment_required", "refused", "gone", "failed", "unreachable"}

ASSUME NoneApart ==
    /\ None \notin Sessions /\ None \notin Ops
    /\ None \notin Forms /\ None \notin Answers

Free == [op |-> None, sent |-> None, form |-> None, answer |-> None, got |-> None]

\* The staff sign-in keeps its three screens in one component; the customer's are routes.
SuperLoginScreens == {"login", "mfa", "enrol", "codes"}
Pages == SuperLoginScreens \cup {"mfaPage", "enrolPage", "codesPage", "setup", "console"}
Component(p) ==
    IF p \in SuperLoginScreens THEN "SuperLoginForm"
    ELSE IF p \in {"enrolPage", "codesPage"} THEN "MfaEnrollPage" ELSE p

ConsoleShown == page = "console" /\ initState = "ready" /\ ~setupRequired /\ user # None
Busy(f) == \E c \in Calls : call[c].form = f
Answered(c, ops) == call[c].op \in ops /\ call[c].answer # None
Is(c, answers) == call[c].answer \in answers

-----------------------------------------------------------------------------
(* apiClient.request *)

\* The browser attaches the cookie it holds now; the handlers of the other
\* calls do not look at it.
Request(op, form, jarCookie) ==
    [op |-> op, sent |-> IF op \in CookieOps THEN jarCookie ELSE None,
     form |-> form, answer |-> None, got |-> None]

Send(c, op, form) ==
    /\ call[c] = Free /\ \A d \in 1..(c - 1) : call[d] # Free
    /\ call' = [call EXCEPT ![c] = Request(op, form, cookie)]

\* finally { setIsSubmitting(false) }
\* Mutant: no finally around the await.
DoneOnAnswer(c) == IF Is(c, {"unreachable"}) THEN [Free EXCEPT !.form = call[c].form] ELSE Free
Done(c) == Free

\* The reply of c is handled and the page shown next is q: a component that
\* goes away takes its forms along, and what it awaits sets no state any more.
Handled(c, next, q) ==
    /\ page' = q
    /\ call' = [d \in Calls |->
                  LET r == IF d = c THEN next ELSE call[d]
                  IN IF Component(q) = Component(page) THEN r ELSE [r EXCEPT !.form = None]]

\* A 401 from RequireSession clears the session cookie, whichever it is by now.
JarAfter(c) == IF Is(c, Reasons) THEN None ELSE cookie

\* The reply was given to another cookie than the one now held.  Also late, for
\* this module: a 401 that comes before userRef knows the caller on screen, a
\* reply to a form since left that still moves the page, a ping that brings a
\* caller back to the screen, and a session issued behind the back of one there.
Overtaken(c) == ~Is(c, {"unreachable"}) /\ call[c].sent # cookie

\* The one handler for 401s: believes any of them while somebody is shown.
OnUnauthorized(c) ==
    IF Is(c, Reasons \cup {"refused"}) /\ userRef # None
    THEN /\ user' = None
         /\ endedReason' = IF Is(c, Reasons) THEN call[c].answer ELSE "no_session"
    ELSE UNCHANGED <<user, endedReason>>

\* No answer, an unreadable one, or an error status.
Lose(c) ==
    /\ call[c] # Free /\ call[c].answer # "unreachable"
    /\ call' = [call EXCEPT ![c].answer = "unreachable", ![c].got = None]
    /\ UNCHANGED <<plane, jar, server, user, userRef, startup, endedReason, page, late>>

-----------------------------------------------------------------------------
(* AuthProvider: startup *)

StartAttempt(c) ==
    /\ initState = "loading"
    /\ \A d \in Calls : call[d].op \notin {"status", "me_boot"}
    /\ \/ plane = "admin" /\ Send(c, "status", None) /\ UNCHANGED setupRequired
       \/ plane = "customer" /\ Send(c, "me_boot", None) /\ setupRequired' = FALSE
    /\ UNCHANGED <<plane, jar, server, user, userRef, initState, attempt, endedReason, page, late>>

\* Mutant: one retry more than INIT_RETRIES.
MayRetryOnceMore == attempt <= InitRetries
MayRetry == attempt < InitRetries

SettleStatus(c) ==
    /\ Answered(c, {"status"})
    /\ \/ /\ Is(c, {"needed"})
          /\ setupRequired' = TRUE /\ initState' = "ready"
          /\ UNCHANGED attempt
          /\ Handled(c, Free, page)
       \/ /\ Is(c, {"done"})
          /\ setupRequired' = FALSE
          /\ UNCHANGED <<initState, attempt>>
          /\ Handled(c, Request("me_boot", None, cookie), page)
       \/ /\ Is(c, {"failed"}) \/ (Is(c, {"unreachable"}) /\ ~MayRetry)
          /\ initState' = "error"
          /\ UNCHANGED <<setupRequired, attempt>>
          /\ Handled(c, Free, page)
       \/ /\ Is(c, {"unreachable"}) /\ MayRetry
          /\ attempt' = attempt + 1
          /\ UNCHANGED <<setupRequired, initState>>
          /\ Handled(c, Free, page)
    /\ UNCHANGED <<plane, jar, server, user, userRef, endedReason, late>>

\* AuthBoundary's "Try again".
RetryInit ==
    /\ initState = "error"
    /\ initState' = "loading" /\ attempt' = 0
    /\ UNCHANGED <<plane, jar, server, user, userRef, setupRequired, endedReason, page, call, late>>

\* refresh(): any error at all reads as "not signed in".
\* Mutant: a 401 leaves the caller on screen.
RefreshedUnlessRefused(c) == IF Is(c, {"ok"}) THEN call[c].got ELSE IF Is(c, Reasons) THEN user ELSE None
Refreshed(c) == IF Is(c, {"ok"}) THEN call[c].got ELSE None

\* Mutant: the splash waits for a good answer.
InitAfterSuccess(c) == IF call[c].op = "me_boot" /\ Is(c, {"ok"}) THEN "ready" ELSE initState
InitAfter(c) == IF call[c].op = "me_boot" THEN "ready" ELSE initState

\* Whoever asked for it: startup, a sign-in, the idle ping, "Stay signed in".
SettleMe(c) ==
    /\ Answered(c, MeOps)
    /\ user' = Refreshed(c)
    /\ initState' = InitAfter(c)
    /\ cookie' = JarAfter(c)
    /\ late' = (late \/ Overtaken(c) \/ (call[c].op = "me_ping" /\ user = None))
    /\ Handled(c, Free, IF call[c].op = "me_enter" THEN "console" ELSE page)
    /\ UNCHANGED <<plane, challenge, server, userRef, attempt, setupRequired, endedReason>>

-----------------------------------------------------------------------------
(* React's effects: they run after the render, as a task of their own *)

\* RequireAuth, the sign-in pages' "already signed in", SuperSetupPage's Navigate.
Routed ==
    IF page = "mfaPage" THEN (IF user # None THEN "console" ELSE page)
    ELSE IF initState # "ready" \/ page \in {"enrolPage", "codesPage"} THEN page
    ELSE IF page = "setup" THEN (IF setupRequired THEN page ELSE "login")
    ELSE IF setupRequired THEN "setup"
    ELSE IF page = "console" THEN (IF user = None THEN "login" ELSE page)
    ELSE IF user # None THEN "console" ELSE page

RunEffects ==
    /\ userRef # user \/ Routed # page
    /\ userRef' = user
    /\ page' = Routed
    /\ call' = IF Component(Routed) = Component(page) THEN call
               ELSE [d \in Calls |-> [call[d] EXCEPT !.form = None]]
    /\ UNCHANGED <<plane, jar, server, user, startup, endedReason, late>>

-----------------------------------------------------------------------------
(* Signing in *)

Submit(c, op, form) ==
    /\ ~Busy(form)
    /\ Send(c, op, form)
    /\ UNCHANGED <<plane, jar, server, user, userRef, startup, page, late>>

\* LoginPage: the customer's form.
LoginForm(c) ==
    /\ plane = "customer" /\ page = "login" /\ initState = "ready"
    /\ Submit(c, "login", "login")
    /\ endedReason' = None

\* SuperLoginPage: the staff form.
SuperLoginForm(c) ==
    /\ plane = "admin" /\ page = "login" /\ initState = "ready" /\ ~setupRequired
    /\ Submit(c, "login", "login")
    /\ endedReason' = None

\* login() and verifyMfa(): only "authenticated" carries a session, and only then is /me asked.
SettleSignedIn(c) ==
    /\ Answered(c, {"login", "mfa"}) /\ Is(c, {"authenticated"})
    /\ cookie' = call[c].got
    /\ endedReason' = None
    /\ Handled(c, Request("me_enter", call[c].form, call[c].got), page)
    /\ UNCHANGED <<plane, challenge, server, user, userRef, startup, late>>

\* LoginPage moves to the route of the next step; its own state goes away with it.
LoginContinues(c) ==
    /\ plane = "customer"
    /\ Answered(c, {"login"}) /\ Is(c, {"mfa_required", "mfa_enrollment_required"})
    /\ challenge' = IF Is(c, {"mfa_required"}) THEN "verify" ELSE "enrol"
    /\ Handled(c, Free, IF Is(c, {"mfa_required"}) THEN "mfaPage" ELSE "enrolPage")
    /\ late' = (late \/ call[c].form = None)
    /\ UNCHANGED <<plane, cookie, server, user, userRef, startup, endedReason>>

\* SuperLoginPage shows the next step in place, if it is still there to show it.
SuperLoginContinues(c) ==
    /\ plane = "admin"
    /\ Answered(c, {"login"}) /\ Is(c, {"mfa_required", "mfa_enrollment_required"})
    /\ challenge' = IF Is(c, {"mfa_required"}) THEN "verify" ELSE "enrol"
    /\ Handled(c, Free, IF call[c].form = None THEN page
                        ELSE IF Is(c, {"mfa_required"}) THEN "mfa" ELSE "enrol")
    /\ UNCHANGED <<plane, cookie, server, user, userRef, startup, endedReason, late>>

LoginFails(c) ==
    /\ Answered(c, {"login"})
    /\ Is(c, {"refused", "unreachable"})
    /\ OnUnauthorized(c)
    /\ Handled(c, Done(c), page)
    /\ UNCHANGED <<plane, jar, server, userRef, startup, late>>

VerifyForm(c) == Submit(c, "mfa", "mfa") /\ UNCHANGED endedReason
SuperMfaForm(c) == page = "mfa" /\ initState = "ready" /\ VerifyForm(c)
SuperMfaChallengePage(c) == page = "mfaPage" /\ plane = "admin" /\ VerifyForm(c)
CustomerMfaChallengePage(c) == page = "mfaPage" /\ plane = "customer" /\ VerifyForm(c)

\* 410: nothing to retry, back to the sign-in form; any other failure stays.
VerifyFails(c) ==
    /\ Answered(c, {"mfa"}) /\ Is(c, {"refused", "gone", "unreachable"})
    /\ OnUnauthorized(c)
    /\ late' = (late \/ (Is(c, {"gone"}) /\ call[c].form = None))
    /\ Handled(c, Done(c),
          IF ~Is(c, {"gone"}) \/ (page \in SuperLoginScreens /\ page # "mfa") THEN page
          ELSE "login")
    /\ UNCHANGED <<plane, jar, server, userRef, startup>>

BackToSignIn ==
    /\ page \in {"mfa", "enrol", "mfaPage"}
    /\ page' = "login"
    /\ call' = IF page = "mfaPage" THEN [d \in Calls |-> [call[d] EXCEPT !.form = None]] ELSE call
    /\ UNCHANGED <<plane, jar, server, user, userRef, startup, endedReason, late>>

EnrolForm(c) == Submit(c, "enrol", "enrol") /\ UNCHANGED endedReason
SuperEnrolForm(c) == page = "enrol" /\ initState = "ready" /\ EnrolForm(c)
SuperMfaEnrollPage(c) == page = "enrolPage" /\ plane = "admin" /\ EnrolForm(c)
CustomerMfaEnrollPage(c) == page = "enrolPage" /\ plane = "customer" /\ EnrolForm(c)

\* Mutant: the new session is entered at once.
AfterEnrolEntering(c) == IF Is(c, {"ok"}) THEN Request("me_enter", call[c].form, cookie') ELSE Free
AfterEnrol(c) == Done(c)

\* The verified enrolment may have issued the session; the codes come first.
SettleEnrol(c) ==
    /\ Answered(c, {"enrol"})
    /\ cookie' = IF call[c].got # None THEN call[c].got ELSE cookie
    /\ late' = (late \/ (user # None /\ call[c].got # None))
    /\ Handled(c, AfterEnrol(c),
          IF ~Is(c, {"ok"}) \/ call[c].form = None THEN page
          ELSE CASE page = "enrol" -> "codes" [] page = "enrolPage" -> "codesPage" [] OTHER -> page)
    /\ UNCHANGED <<plane, challenge, server, user, userRef, startup, endedReason>>

\* "I've saved them, continue".
FinishEnrol(c) ==
    /\ page \in {"codes", "codesPage"}
    /\ Send(c, "me_enter", None)
    /\ UNCHANGED <<plane, jar, server, user, userRef, startup, endedReason, page, late>>

-----------------------------------------------------------------------------
(* First-run setup *)

SuperSetupForm(c) ==
    /\ page = "setup" /\ initState = "ready" /\ setupRequired
    /\ Submit(c, "setup", "setup")
    /\ UNCHANGED endedReason

SettleSetup(c) ==
    /\ Answered(c, {"setup"})
    /\ Handled(c, IF Is(c, {"ok"}) THEN Request("status_after", call[c].form, cookie)
                  ELSE Free, page)
    /\ UNCHANGED <<plane, jar, server, user, userRef, startup, endedReason, late>>

\* refreshSetupStatus keeps the last known value when it fails.
SettleStatusAfter(c) ==
    /\ Answered(c, {"status_after"})
    /\ setupRequired' = IF Is(c, {"needed", "done"}) THEN call[c].answer = "needed" ELSE setupRequired
    /\ Handled(c, Free, "login")
    /\ UNCHANGED <<plane, jar, server, user, userRef, initState, attempt, endedReason, late>>

-----------------------------------------------------------------------------
(* In the console or the portal *)

InConsole(c, op) ==
    /\ ConsoleShown
    /\ Send(c, op, None)
    /\ UNCHANGED <<plane, jar, server, user, userRef, startup, endedReason, page, late>>

UseConsole(c) == InConsole(c, "console")      \* any call of a page, none of them suppressed
ActivityPing(c) == InConsole(c, "me_ping")    \* useIdleTimeout
StaySignedIn(c) == InConsole(c, "me_ping")    \* IdleTimeoutWarning
SuperSignOut(c) == plane = "admin" /\ InConsole(c, "logout")
PersonalSignOut(c) == plane = "customer" /\ InConsole(c, "logout")

SettleConsole(c) ==
    /\ Answered(c, {"console"})
    /\ OnUnauthorized(c)
    /\ cookie' = JarAfter(c)
    /\ late' = (late \/ (Is(c, Reasons \cup {"refused"}) /\ (Overtaken(c) \/ userRef # user)))
    /\ Handled(c, Free, page)
    /\ UNCHANGED <<plane, challenge, server, userRef, startup>>

\* logout(): the screen forgets the caller whatever came back; only an answer
\* (204, or the 401 of a dead session) clears the jar and moves to sign-in.
SettleLogout(c) ==
    /\ Answered(c, {"logout"})
    /\ user' = None /\ endedReason' = None
    /\ late' = (late \/ (Overtaken(c) /\ Is(c, Reasons \cup {"ok"})))
    /\ IF Is(c, Reasons \cup {"ok"})
       THEN cookie' = None /\ Handled(c, Free, "login")
       ELSE UNCHANGED cookie /\ Handled(c, Free, page)
    /\ challenge' = IF Is(c, {"ok"}) THEN "none" ELSE challenge
    /\ UNCHANGED <<plane, server, userRef, startup>>

-----------------------------------------------------------------------------
(* The API, as far as its answers to these calls go *)

Answer(c, a, s) ==
    /\ call[c] # Free /\ call[c].answer = None
    /\ call' = [call EXCEPT ![c].answer = a, ![c].got = s]
    /\ UNCHANGED <<plane, cookie, user, userRef, startup, endedReason, page, late>>

Live(s) == s # None /\ rows[s] = "live"
WhyNot(s) == IF s = None THEN "no_session" ELSE rows[s]

NextSession(s) == rows[s] = "unused" /\ \A t \in 1..(s - 1) : rows[t] # "unused"

Issue(c, a) ==
    \E s \in Sessions :
        /\ NextSession(s)
        /\ rows' = [rows EXCEPT ![s] = "live"]
        /\ Answer(c, a, s)
        /\ UNCHANGED hasAdmin

ServeGuarded(c) ==
    /\ call[c].op \in MeOps \cup {"console", "logout"}
    /\ IF ~Live(call[c].sent) THEN Answer(c, WhyNot(call[c].sent), None) /\ UNCHANGED rows
       ELSE \/ Answer(c, "ok", IF call[c].op \in MeOps THEN call[c].sent ELSE None)
               /\ \/ UNCHANGED rows
                  \/ call[c].op = "logout" /\ rows' = [rows EXCEPT ![call[c].sent] = "no_session"]
            \/ call[c].op = "console" /\ Answer(c, "refused", None) /\ UNCHANGED rows
    /\ UNCHANGED <<hasAdmin, challenge>>

ServeLogin(c) ==
    /\ call[c].op = "login"
    /\ UNCHANGED challenge
    /\ \/ Issue(c, "authenticated")
       \/ /\ \E a \in {"mfa_required", "mfa_enrollment_required", "refused"} :
               Answer(c, a, None)
          /\ UNCHANGED server

ServeMfa(c) ==
    /\ call[c].op = "mfa"
    /\ \/ challenge = "verify" /\ Issue(c, "authenticated") /\ challenge' = "none"
       \/ /\ Answer(c, "gone", None)
          /\ UNCHANGED <<server, challenge>>
       \/ /\ challenge = "verify" /\ Answer(c, "refused", None)
          /\ UNCHANGED <<server, challenge>>

ServeEnrol(c) ==
    /\ call[c].op = "enrol"
    /\ \/ /\ ~Live(call[c].sent) /\ challenge = "enrol"
          /\ Issue(c, "ok") /\ challenge' = "none"
       \/ /\ Live(call[c].sent)
          /\ Answer(c, "ok", None) /\ UNCHANGED <<server, challenge>>
       \/ /\ Answer(c, "refused", None)
          /\ UNCHANGED <<server, challenge>>

ServeSetup(c) ==
    /\ call[c].op \in {"status", "status_after", "setup"}
    /\ UNCHANGED <<rows, challenge>>
    /\ \/ call[c].op = "setup" /\ Answer(c, "ok", None) /\ hasAdmin' = TRUE   \* or 409, handled alike
       \/ call[c].op # "setup" /\ Answer(c, IF hasAdmin THEN "done" ELSE "needed", None) /\ UNCHANGED hasAdmin
       \/ call[c].op = "status" /\ Answer(c, "failed", None) /\ UNCHANGED hasAdmin

Serve(c) == ServeGuarded(c) \/ ServeLogin(c) \/ ServeMfa(c) \/ ServeEnrol(c) \/ ServeSetup(c)

\* Idle or absolute expiry, a disabled account, a revocation from elsewhere.
EndSession(s, why) ==
    /\ rows[s] = "live"
    /\ rows' = [rows EXCEPT ![s] = why]
    /\ UNCHANGED <<plane, jar, hasAdmin, user, userRef, startup, endedReason, page, call, late>>

-----------------------------------------------------------------------------
(* Loading the page *)

Load(q) ==
    /\ user' = None /\ userRef' = None /\ endedReason' = None
    /\ initState' = "loading" /\ attempt' = 0 /\ setupRequired' = FALSE
    /\ call' = [c \in Calls |-> Free]
    /\ page' = q /\ late' = FALSE

\* Routes of App.tsx with the state of this module.
Routes == {"login", "mfaPage", "enrolPage", "console"} \cup (IF plane = "admin" THEN {"setup"} ELSE {})

\* A reload, or an address typed in.  During startup it changes nothing.
Visit(q) ==
    /\ initState # "loading" /\ q \in Routes
    /\ Load(q)
    /\ UNCHANGED <<plane, jar, server>>

\* SSOButtons leaves for the provider and comes back with a session cookie.
ProviderSignIn(s) ==
    /\ plane = "customer" /\ page = "login" /\ initState = "ready"
    /\ NextSession(s)
    /\ rows' = [rows EXCEPT ![s] = "live"]
    /\ cookie' = s
    /\ Load("console")
    /\ UNCHANGED <<plane, challenge, hasAdmin>>

Init ==
    /\ plane \in {"admin", "customer"}
    /\ hasAdmin \in (IF plane = "admin" THEN BOOLEAN ELSE {TRUE})
    /\ cookie = None /\ challenge = "none"
    /\ rows = [s \in Sessions |-> "unused"]
    /\ user = None /\ userRef = None /\ endedReason = None
    /\ initState = "loading" /\ attempt = 0 /\ setupRequired = FALSE
    /\ page \in Routes
    /\ call = [c \in Calls |-> Free]
    /\ late = FALSE

Settle(c) ==
    \/ SettleStatus(c) \/ SettleMe(c) \/ SettleSignedIn(c) \/ LoginContinues(c)
    \/ SuperLoginContinues(c) \/ LoginFails(c) \/ VerifyFails(c) \/ SettleEnrol(c)
    \/ SettleSetup(c) \/ SettleStatusAfter(c) \/ SettleConsole(c) \/ SettleLogout(c)

Event(c) ==
    \/ LoginForm(c) \/ SuperLoginForm(c) \/ SuperMfaForm(c) \/ SuperMfaChallengePage(c)
    \/ CustomerMfaChallengePage(c) \/ SuperEnrolForm(c) \/ SuperMfaEnrollPage(c)
    \/ CustomerMfaEnrollPage(c) \/ FinishEnrol(c) \/ SuperSetupForm(c) \/ UseConsole(c)
    \/ ActivityPing(c) \/ StaySignedIn(c) \/ SuperSignOut(c) \/ PersonalSignOut(c)

\* React flushes pending effects before it handles an event.
EffectsRan == userRef = user /\ Routed = page

Next ==
    \/ \E c \in Calls : StartAttempt(c) \/ Settle(c) \/ Serve(c) \/ Lose(c)
    \/ RunEffects
    \/ EffectsRan /\ (RetryInit \/ BackToSignIn \/ \E c \in Calls : Event(c))
    \/ \E s \in Sessions : ProviderSignIn(s) \/ \E why \in Endings : EndSession(s, why)
    \/ \E q \in Pages : Visit(q)

\* The browser runs its tasks, the API answers or the call gives up; nobody has to click.
Spec ==
    /\ Init /\ [][Next]_vars
    /\ WF_vars(RunEffects) /\ WF_vars(\E c \in Calls : StartAttempt(c))
    /\ \A c \in Calls : WF_vars(Settle(c)) /\ WF_vars(Serve(c))

-----------------------------------------------------------------------------
TypeOK ==
    /\ plane \in {"admin", "customer"}
    /\ cookie \in Sessions \cup {None}
    /\ challenge \in {"none", "verify", "enrol"}
    /\ rows \in [Sessions -> {"unused", "live"} \cup Reasons]
    /\ hasAdmin \in BOOLEAN /\ late \in BOOLEAN /\ setupRequired \in BOOLEAN
    /\ user \in Sessions \cup {None} /\ userRef \in Sessions \cup {None}
    /\ initState \in {"loading", "ready", "error"} /\ attempt \in 0..InitRetries
    /\ endedReason \in Reasons \cup {None}
    /\ page \in Pages
    /\ call \in [Calls -> [op : Ops \cup {None}, sent : Sessions \cup {None},
                           form : Forms \cup {None}, answer : Answers \cup {None},
                           got : Sessions \cup {None}]]

\* Whoever the screen shows is whoever the cookie would act as, until the first
\* time a reply given to an earlier cookie is believed (AuthProvider.refresh and
\* the 401 handler look at no cookie and at no order).
ScreenMatchesCookie ==
    late \/ user \in {None, cookie} \/ \E c \in Calls : call[c].op = "me_enter" /\ call[c].sent = cookie

CodesPages == {"codes", "codesPage"}

\* A late answer, a reload, the continue button, another sign-in completing, a sign-out.
LeftOnPurpose ==
    \/ late' \/ initState' = "loading"
    \/ \E c \in Calls : \/ call[c].op = "logout"
                        \/ call[c].op = "me_enter" /\ call[c].form # "enrol"

\* The recovery codes of a sign-in enrolment leave the screen when the user says
\* so (or reloads), never because something else brought the session up first.
CodesLeftOnPurpose ==
    [][(page \in CodesPages /\ page' \notin CodesPages) => LeftOnPurpose]_vars

\* The splash of AuthBoundary is never for ever, and a submit button that was
\* disabled by its own call comes back.
NothingHangs ==
    /\ initState = "loading" ~> initState # "loading"
    /\ \A f \in Forms : Busy(f) ~> ~Busy(f)
=============================================================================
