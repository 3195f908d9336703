---------------------------- MODULE SessionProofs ----------------------------
(***************************************************************************)
(* The web session, for any number of calls and sessions: what the screen  *)
(* shows is what the cookie would act as until a reply to another cookie   *)
(* is believed, and recovery codes leave the screen on purpose only.       *)
(***************************************************************************)
EXTENDS WebSession, TLAPS

CallRec == [op : Ops \cup {None}, sent : Sessions \cup {None}, form : Forms \cup {None},
            answer : Answers \cup {None}, got : Sessions \cup {None}]

Same(r, x) == r.op = x.op /\ r.sent = x.sent /\ r.answer = x.answer /\ r.got = x.got

\* What is left of x when the page becomes q.
Moved(r, x, q) ==
    Same(r, x) /\ r.form = IF Component(q) = Component(page) THEN x.form ELSE None

-----------------------------------------------------------------------------
(* The helpers of the model *)

LEMMA RequestType ==
  ASSUME NEW o \in Ops, NEW f \in Forms \cup {None}, NEW j \in Sessions \cup {None}
  PROVE  /\ Request(o, f, j) \in CallRec /\ Request(o, f, j).op = o
         /\ Request(o, f, j).form = f /\ Request(o, f, j).answer = None
         /\ Request(o, f, j).got = None
         /\ Request(o, f, j).sent = IF o \in CookieOps THEN j ELSE None
  BY DEF Request, CallRec

LEMMA FreeType ==
  /\ Free \in CallRec /\ Free.op = None /\ Free.sent = None /\ Free.form = None
  /\ Free.answer = None /\ Free.got = None
  BY DEF Free, CallRec

\* A form left behind by a call that is gone.
LEMMA DoneType == \A c \in Calls : Done(c) = Free
  BY DEF Done

\* A call of a form that is no longer there.
LEMMA DroppedType ==
  ASSUME NEW r \in CallRec
  PROVE  /\ [r EXCEPT !.form = None] \in CallRec /\ Same([r EXCEPT !.form = None], r)
         /\ [r EXCEPT !.form = None].form = None
  BY DEF CallRec, Same

\* An answered call.
WithAnswer(r, a, s) == [r EXCEPT !.answer = a, !.got = s]

LEMMA AnsweredType ==
  ASSUME NEW r \in CallRec, NEW a \in Answers, NEW s \in Sessions \cup {None}
  PROVE  \E x \in CallRec : /\ x = WithAnswer(r, a, s)
                            /\ x.op = r.op /\ x.sent = r.sent /\ x.form = r.form
                            /\ x.answer = a /\ x.got = s
<1> DEFINE x == WithAnswer(r, a, s)
<1>1. x \in CallRec
  BY DEF CallRec, WithAnswer
<1>2. x.op = r.op /\ x.sent = r.sent /\ x.form = r.form /\ x.answer = a /\ x.got = s
  BY DEF CallRec, WithAnswer
<1>3. QED
  BY <1>1, <1>2

CallsType == call \in [Calls -> CallRec]

LEMMA HandledMoves ==
  ASSUME CallsType, NEW c \in Calls, NEW next \in CallRec, NEW q, Handled(c, next, q)
  PROVE  /\ CallsType' /\ page' = q
         /\ Moved(call'[c], next, q)
         /\ \A d \in Calls \ {c} : Moved(call'[d], call[d], q)
<1>1. /\ page' = q
      /\ call' = [d \in Calls |->
                    IF Component(q) = Component(page) THEN (IF d = c THEN next ELSE call[d])
                    ELSE [(IF d = c THEN next ELSE call[d]) EXCEPT !.form = None]]
  BY DEF Handled
<1>2. ASSUME NEW d \in Calls, NEW x \in CallRec, x = IF d = c THEN next ELSE call[d]
      PROVE  call'[d] \in CallRec /\ Moved(call'[d], x, q)
  <2>1. CASE Component(q) = Component(page)
    <3>1. call'[d] = x
      BY <1>1, <1>2, <2>1
    <3>2. QED
      BY <2>1, <3>1 DEF Moved, Same
  <2>2. CASE Component(q) # Component(page)
    <3>1. call'[d] = [x EXCEPT !.form = None]
      BY <1>1, <1>2, <2>2
    <3>2. QED
      BY <2>2, <3>1, DroppedType DEF Moved
  <2>3. QED
    BY <2>1, <2>2
<1>3. call'[c] \in CallRec /\ Moved(call'[c], next, q)
  BY <1>2
<1>4. ASSUME NEW d \in Calls \ {c}
      PROVE  call'[d] \in CallRec /\ Moved(call'[d], call[d], q)
  BY <1>2 DEF CallsType
<1>5. call' \in [Calls -> CallRec]
  BY <1>1, <1>3, <1>4
<1>6. QED
  BY <1>1, <1>3, <1>4, <1>5 DEF CallsType

\* The effects, and the pages left without a reply: every form of another component goes.
LEMMA LeftMoves ==
  ASSUME CallsType, NEW q,
         call' = IF Component(q) = Component(page) THEN call
                 ELSE [d \in Calls |-> [call[d] EXCEPT !.form = None]]
  PROVE  CallsType' /\ \A d \in Calls : Moved(call'[d], call[d], q)
<1>1. ASSUME NEW d \in Calls, NEW x \in CallRec, x = call[d]
      PROVE  call'[d] \in CallRec /\ Moved(call'[d], x, q)
  <2>1. CASE Component(q) = Component(page)
    BY <1>1, <2>1 DEF Moved, Same
  <2>2. CASE Component(q) # Component(page)
    <3>1. call'[d] = [x EXCEPT !.form = None]
      BY <1>1, <2>2
    <3>2. QED
      BY <2>2, <3>1, DroppedType DEF Moved
  <2>3. QED
    BY <2>1, <2>2
<1>2. ASSUME NEW d \in Calls
      PROVE  call'[d] \in CallRec /\ Moved(call'[d], call[d], q)
  BY <1>1 DEF CallsType
<1>3. call' \in [Calls -> CallRec]
  BY <1>2 DEF CallsType
<1>4. QED
  BY <1>2, <1>3 DEF CallsType

LEMMA SendMoves ==
  ASSUME CallsType, cookie \in Sessions \cup {None}, NEW c \in Calls, NEW o \in Ops,
         NEW f \in Forms \cup {None}, Send(c, o, f)
  PROVE  /\ CallsType' /\ call[c].op = None /\ call[c].form = None
         /\ call'[c].op = o /\ call'[c].form = f
         /\ call'[c].sent = (IF o \in CookieOps THEN cookie ELSE None)
         /\ call'[c].answer = None /\ call'[c].got = None
         /\ \A d \in Calls \ {c} : call'[d] = call[d]
<1>1. call[c] = Free /\ call' = [call EXCEPT ![c] = Request(o, f, cookie)]
  BY DEF Send
<1>2. QED
  BY <1>1, RequestType, FreeType DEF CallsType

LEMMA AnswerMoves ==
  ASSUME CallsType, NEW c \in Calls, NEW a \in Answers, NEW s \in Sessions \cup {None},
         call' = [call EXCEPT ![c].answer = a, ![c].got = s]
  PROVE  /\ CallsType' /\ call'[c].op = call[c].op /\ call'[c].form = call[c].form
         /\ call'[c].sent = call[c].sent /\ call'[c].answer = a /\ call'[c].got = s
         /\ \A d \in Calls \ {c} : call'[d] = call[d]
<1>1. call[c] \in CallRec
  BY DEF CallsType
<1>2. PICK x \in CallRec : /\ x = WithAnswer(call[c], a, s)
                           /\ x.op = call[c].op /\ x.sent = call[c].sent
                           /\ x.form = call[c].form /\ x.answer = a /\ x.got = s
  BY <1>1, AnsweredType
<1>3. call' = [call EXCEPT ![c] = WithAnswer(call[c], a, s)]
  BY DEF CallsType, WithAnswer
<1>4. call' = [call EXCEPT ![c] = x]
  BY <1>2, <1>3
<1>5. QED
  BY <1>2, <1>4 DEF CallsType

-----------------------------------------------------------------------------
(* The inductive invariant *)

SuperSteps == {"mfa", "enrol", "codes"}
BootOps == {"status", "me_boot"}
SetupOps == {"setup", "status_after"}

\* First-run setup is not over, as the server or this page knows it.
Early == plane = "admin" /\ (~hasAdmin \/ setupRequired)

Issued(s) == s # None => rows[s] # "unused"

FormOn(f, q) ==
    /\ f = "login" => Component(q) = "SuperLoginForm"
    /\ f = "mfa" => Component(q) \in {"SuperLoginForm", "mfaPage"}
    /\ f = "enrol" => Component(q) \in {"SuperLoginForm", "MfaEnrollPage"}
    /\ f = "setup" => Component(q) = "setup"

\* What a call asked for, and by which form.
Asked(r) ==
    /\ Issued(r.sent) /\ Issued(r.got)
    /\ (r.op \in MeOps /\ r.answer = "ok") => r.got = r.sent
    /\ r.op = "login" => r.form \in {None, "login"}
    /\ r.op = "mfa" => r.form \in {None, "mfa"}
    /\ r.op = "enrol" => r.form \in {None, "enrol"}
    /\ r.op = "me_enter" => r.form # "enrol"

\* The calls of the startup, and of first-run setup.
Starts(r) ==
    /\ r.op \in {"status"} \cup SetupOps => plane = "admin"
    /\ r.op \in BootOps => initState = "loading"
    /\ r.op \in SetupOps => initState = "ready"
    /\ (r.op = "me_boot" /\ plane = "admin") => hasAdmin
    /\ r.op = "status_after" => hasAdmin /\ r.answer # "needed"
    /\ (r.op = "setup" /\ r.answer = "ok") => hasAdmin
    /\ (r.op = "status" /\ r.answer = "done") => hasAdmin
    /\ (r.op = "status" /\ r.answer = "needed") => ~hasAdmin

\* Before there is an administrator nobody signs in.
Quiet(r) ==
    /\ r.op \notin {"login", "me_enter", "me_ping", "console", "logout"}
    /\ r.sent = None /\ r.got = None /\ r.answer # "authenticated"
    /\ r.op = "enrol" => r.answer # "ok"

\* A call of the setup screen, or of a sign-in form still there, finds the page it was sent from.
StaysPut(r) ==
    /\ (~late /\ r.op \in SetupOps) => page = "setup" /\ setupRequired /\ r.form = "setup"
    /\ (~late /\ r.op = "login" /\ r.form # None) => user = None
    /\ (r.op = "login" /\ r.form # None) => initState = "ready" /\ page \notin SuperSteps

CallFits(r) == Asked(r) /\ FormOn(r.form, page) /\ Starts(r) /\ (Early => Quiet(r)) /\ StaysPut(r)

\* One call per form, one call of the startup.
Unique ==
    \A c, d \in Calls :
        c # d => /\ call[c].form # None => call[c].form # call[d].form
                 /\ ~(call[c].op \in BootOps /\ call[d].op \in BootOps)

\* The page and the jar.
PageFits ==
    /\ Issued(cookie)
    /\ setupRequired => plane = "admin"
    /\ Early => /\ cookie = None /\ challenge = "none" /\ user = None
                /\ page \notin SuperSteps \cup {"codesPage"}
    /\ (plane = "admin" /\ initState = "ready" /\ ~hasAdmin) => setupRequired
    /\ page \in SuperSteps => plane = "admin" /\ initState = "ready" /\ (late \/ user = None)

StateTypes ==
    /\ plane \in {"admin", "customer"}
    /\ cookie \in Sessions \cup {None}
    /\ challenge \in {"none", "verify", "enrol"}
    /\ rows \in [Sessions -> {"unused", "live"} \cup Reasons]
    /\ hasAdmin \in BOOLEAN /\ late \in BOOLEAN /\ setupRequired \in BOOLEAN
    /\ user \in Sessions \cup {None} /\ userRef \in Sessions \cup {None}
    /\ initState \in {"loading", "ready", "error"} /\ attempt \in 0..InitRetries
    /\ endedReason \in Reasons \cup {None}
    /\ page \in Pages

SessionInv ==
    /\ StateTypes /\ CallsType
    /\ \A c \in Calls : CallFits(call[c])
    /\ Unique /\ PageFits /\ ScreenMatchesCookie

-----------------------------------------------------------------------------
(* What every step keeps, unless it says otherwise *)

LEMMA FormMoves ==
  ASSUME NEW r, NEW x, NEW q, Moved(r, x, q), FormOn(x.form, page)
  PROVE  FormOn(r.form, q)
<1>1. CASE Component(q) = Component(page)
  BY <1>1 DEF Moved, FormOn
<1>2. CASE Component(q) # Component(page)
  <2>1. r.form \notin Forms
    BY <1>2, NoneApart DEF Moved
  <2>2. QED
    BY <2>1 DEF FormOn, Forms
<1>3. QED
  BY <1>1, <1>2

\* What a step that moves the page to q must leave to a call it does not handle.
Undisturbed(d, q) ==
    /\ call[d].op \in BootOps \cup SetupOps => initState' = initState
    /\ (~late' /\ call[d].op \in SetupOps) => q = page /\ setupRequired'
    /\ (call[d].op = "login" /\ call[d].form # None /\ Component(q) = Component(page))
         => /\ initState' = initState /\ q \notin SuperSteps
            /\ ~late' => user' = None

\* A call whose reply is not the one handled.
LEMMA OthersFit ==
  ASSUME SessionInv, NEW d \in Calls, Moved(call'[d], call[d], page'), Undisturbed(d, page'),
         UNCHANGED <<plane, hasAdmin>>, Early' => Early, ~late' => ~late,
         \A s \in Sessions : rows'[s] = "unused" => rows[s] = "unused"
  PROVE  CallFits(call[d])'
<1> DEFINE r == call'[d]  x == call[d]
<1>t. x \in CallRec /\ CallFits(x)
  BY DEF SessionInv, CallsType
<1>m. Same(r, x) /\ r.form = IF Component(page') = Component(page) THEN x.form ELSE None
  BY DEF Moved
<1>1. Asked(call[d])'
  <2>1. /\ Issued(x.sent) /\ Issued(x.got) /\ x.sent \in Sessions \cup {None}
        /\ x.got \in Sessions \cup {None}
    BY <1>t DEF CallFits, Asked, CallRec
  <2>2. Issued(call[d].sent)' /\ Issued(call[d].got)'
    BY <1>m, <2>1 DEF Issued, Same
  <2>3. r.form \in {x.form, None} /\ None # "enrol"
    BY <1>m, NoneApart DEF Forms
  <2>4. QED
    BY <1>t, <1>m, <2>2, <2>3 DEF CallFits, Asked, Same
<1>2. FormOn(call[d].form, page)'
  BY <1>t, FormMoves DEF CallFits
<1>3. Starts(call[d])'
  BY <1>t, <1>m DEF CallFits, Starts, Same, Undisturbed
<1>4. (Early => Quiet(call[d]))'
  BY <1>t, <1>m DEF CallFits, Quiet, Same
<1>5. StaysPut(call[d])'
  BY <1>t, <1>m DEF CallFits, StaysPut, Same, Undisturbed
<1>6. QED
  BY <1>1, <1>2, <1>3, <1>4, <1>5 DEF CallFits

\* A call that is over.
LEMMA FreedFits ==
  ASSUME NEW c \in Calls, call'[c].op = None, call'[c].sent = None,
         call'[c].form = None, call'[c].answer = None, call'[c].got = None
  PROVE  CallFits(call[c])'
<1>1. /\ None \notin Ops /\ None \notin Forms /\ None \notin Answers
  BY NoneApart
<1>2. Asked(call[c])'
  BY <1>1 DEF Asked, Issued, Ops, CookieOps, MeOps, Forms
<1>3. FormOn(call[c].form, page)'
  BY <1>1 DEF FormOn, Forms
<1>4. Starts(call[c])'
  BY <1>1 DEF Starts, Ops, CookieOps, MeOps, BootOps, SetupOps
<1>5. Quiet(call[c])'
  BY <1>1 DEF Quiet, Ops, CookieOps, MeOps, Answers
<1>6. StaysPut(call[c])'
  BY <1>1 DEF StaysPut, SetupOps, Ops
<1>7. QED
  BY <1>2, <1>3, <1>4, <1>5, <1>6 DEF CallFits

\* No step but a request adds to the forms awaited or to the calls of the startup.
LEMMA UniqueStays ==
  ASSUME Unique,
         \A d \in Calls : call'[d].form \in {call[d].form, None},
         \A d \in Calls : call'[d].op \in BootOps => call[d].op \in BootOps
  PROVE  Unique'
<1> SUFFICES ASSUME NEW c \in Calls, NEW d \in Calls, c # d
             PROVE  /\ call'[c].form # None => call'[c].form # call'[d].form
                    /\ ~(call'[c].op \in BootOps /\ call'[d].op \in BootOps)
  BY DEF Unique
<1>1. /\ call[c].form # None => call[c].form # call[d].form
      /\ ~(call[c].op \in BootOps /\ call[d].op \in BootOps)
  BY DEF Unique
<1>2. /\ call'[c].form \in {call[c].form, None} /\ call'[d].form \in {call[d].form, None}
      /\ call'[c].op \in BootOps => call[c].op \in BootOps
      /\ call'[d].op \in BootOps => call[d].op \in BootOps
  OBVIOUS
<1>3. QED
  BY <1>1, <1>2

\* The screen still matches the cookie when neither it nor the sign-ins on their way change.
LEMMA ScreenStays ==
  ASSUME ScreenMatchesCookie, cookie' = cookie, ~late' => ~late, user' \in {user, None},
         \A e \in Calls : (call[e].op = "me_enter" /\ call[e].sent = cookie)
                            => call'[e].op = "me_enter" /\ call'[e].sent = cookie
  PROVE  ScreenMatchesCookie'
  BY DEF ScreenMatchesCookie

-----------------------------------------------------------------------------
(* Requests *)

\* What a request must find, for the invariant to go on.
MaySend(c, o, f) ==
    /\ o \in Ops /\ f \in Forms \cup {None} /\ FormOn(f, page)
    /\ o = "login" => f \in {None, "login"}
    /\ o = "mfa" => f \in {None, "mfa"}
    /\ o = "enrol" => f \in {None, "enrol"}
    /\ o = "me_enter" => f # "enrol"
    /\ o # "status_after"
    /\ o \in {"status", "setup"} => plane = "admin"
    /\ o = "me_boot" => plane = "customer"
    /\ o \in BootOps => /\ initState = "loading"
                       /\ \A d \in Calls : call[d].op \notin BootOps
    /\ o = "setup" => initState = "ready" /\ page = "setup" /\ setupRequired /\ f = "setup"
    /\ o = "login" => initState = "ready" /\ page = "login" /\ user = None
    /\ Early => o \notin {"login", "me_enter", "me_ping", "console", "logout"}
    /\ f # None => \A d \in Calls : call[d].form # f

LEMMA SentFits ==
  ASSUME SessionInv, NEW c \in Calls, NEW o, NEW f, Send(c, o, f), MaySend(c, o, f),
         UNCHANGED <<plane, jar, server, user, userRef, startup, page, late>>,
         endedReason' \in Reasons \cup {None}
  PROVE  SessionInv'
<1>i. /\ StateTypes /\ CallsType /\ Unique /\ PageFits /\ ScreenMatchesCookie
      /\ \A d \in Calls : CallFits(call[d])
  BY DEF SessionInv
<1>o. o \in Ops /\ f \in Forms \cup {None} /\ cookie \in Sessions \cup {None}
  BY <1>i DEF MaySend, StateTypes
<1>s. /\ CallsType' /\ call[c].op = None /\ call[c].form = None
      /\ call'[c].op = o /\ call'[c].form = f
      /\ call'[c].sent = (IF o \in CookieOps THEN cookie ELSE None)
      /\ call'[c].answer = None /\ call'[c].got = None
      /\ \A d \in Calls \ {c} : call'[d] = call[d]
  BY <1>i, <1>o, SendMoves
<1>u. UNCHANGED <<plane, cookie, challenge, rows, hasAdmin, user, userRef, initState,
                  attempt, setupRequired, page, late>>
  BY DEF jar, server, startup
<1>n. /\ None \notin Sessions /\ None \notin Ops /\ None \notin Forms /\ None \notin Answers
  BY NoneApart
<1>1. StateTypes'
  BY <1>i, <1>u DEF StateTypes
<1>2. CallFits(call[c])'
  <2>1. Asked(call[c])'
    <3>1. Issued(call[c].sent)' /\ Issued(call[c].got)'
      BY <1>i, <1>s, <1>u DEF PageFits, Issued
    <3>2. QED
      BY <1>s, <1>n, <3>1 DEF MaySend, Asked, Answers
  <2>2. FormOn(call[c].form, page)'
    BY <1>s, <1>u DEF MaySend, FormOn
  <2>3. Starts(call[c])'
    BY <1>s, <1>u, <1>n DEF MaySend, Starts, SetupOps, BootOps, Answers
  <2>4. (Early => Quiet(call[c]))'
    BY <1>i, <1>s, <1>u, <1>n DEF MaySend, Early, Quiet, PageFits, Answers
  <2>5. StaysPut(call[c])'
    BY <1>s, <1>u DEF MaySend, StaysPut, SetupOps, SuperSteps
  <2>6. QED
    BY <2>1, <2>2, <2>3, <2>4, <2>5 DEF CallFits
<1>3. ASSUME NEW d \in Calls \ {c}
      PROVE  CallFits(call[d])'
  <2>1. CallFits(call[d]) /\ call'[d] = call[d]
    BY <1>i, <1>s
  <2>2. Asked(call[d])'
    BY <1>u, <2>1 DEF CallFits, Asked, Issued
  <2>3. FormOn(call[d].form, page)' /\ Starts(call[d])'
    BY <1>u, <2>1 DEF CallFits, FormOn, Starts
  <2>4. (Early => Quiet(call[d]))' /\ StaysPut(call[d])'
    BY <1>u, <2>1 DEF CallFits, Early, Quiet, StaysPut
  <2>5. QED
    BY <2>2, <2>3, <2>4 DEF CallFits
<1>4. Unique'
  <2> SUFFICES ASSUME NEW d \in Calls, NEW e \in Calls, d # e
               PROVE  /\ call'[d].form # None => call'[d].form # call'[e].form
                      /\ ~(call'[d].op \in BootOps /\ call'[e].op \in BootOps)
    BY DEF Unique
  <2>1. /\ call[d].form # None => call[d].form # call[e].form
        /\ ~(call[d].op \in BootOps /\ call[e].op \in BootOps)
    BY <1>i DEF Unique
  <2>2. /\ f # None => call[d].form # f /\ call[e].form # f
        /\ o \in BootOps => call[d].op \notin BootOps /\ call[e].op \notin BootOps
    BY DEF MaySend
  <2>3. QED
    BY <1>s, <2>1, <2>2
<1>5. PageFits'
  BY <1>i, <1>u DEF PageFits, Issued, Early
<1>6. ScreenMatchesCookie'
  <2>1. ASSUME NEW e \in Calls, call[e].op = "me_enter", call[e].sent = cookie
        PROVE  call'[e].op = "me_enter" /\ call'[e].sent = cookie
    BY <1>s, <1>n, <2>1 DEF Ops, CookieOps, MeOps
  <2>2. QED
    BY <1>i, <1>u, <2>1, ScreenStays
<1>7. ASSUME NEW d \in Calls
      PROVE  CallFits(call[d])'
  BY <1>2, <1>3
<1>8. QED
  BY <1>1, <1>4, <1>5, <1>6, <1>7, <1>s DEF SessionInv

LEMMA StartSends ==
  ASSUME SessionInv, NEW c \in Calls, StartAttempt(c)
  PROVE  SessionInv'
<1>i. StateTypes /\ PageFits
  BY DEF SessionInv
<1>u. /\ UNCHANGED <<plane, jar, server, user, userRef, initState, attempt, page, late>>
      /\ endedReason' \in Reasons \cup {None}
  BY <1>i DEF StartAttempt, StateTypes
<1>s. initState = "loading" /\ \A d \in Calls : call[d].op \notin BootOps
  BY DEF StartAttempt, BootOps
<1>n. None \notin Forms
  BY NoneApart
<1>1. CASE plane = "admin" /\ Send(c, "status", None) /\ UNCHANGED setupRequired
  <2>1. MaySend(c, "status", None)
    BY <1>1, <1>s, <1>n DEF MaySend, FormOn, Ops, Forms, BootOps
  <2>2. UNCHANGED <<plane, jar, server, user, userRef, startup, page, late>>
    BY <1>u, <1>1 DEF startup
  <2>3. QED
    BY <1>u, <1>1, <2>1, <2>2, SentFits
<1>2. CASE plane = "customer" /\ Send(c, "me_boot", None) /\ setupRequired' = FALSE
  <2>1. MaySend(c, "me_boot", None)
    BY <1>2, <1>s, <1>n DEF MaySend, FormOn, Ops, CookieOps, MeOps, Forms, BootOps, Early
  <2>2. setupRequired' = setupRequired
    BY <1>i, <1>2 DEF StateTypes, PageFits
  <2>3. UNCHANGED <<plane, jar, server, user, userRef, startup, page, late>>
    BY <1>u, <2>2 DEF startup
  <2>4. QED
    BY <1>u, <1>2, <2>1, <2>3, SentFits
<1>3. QED
  BY <1>1, <1>2 DEF StartAttempt

\* A sign-in form that shows finds nobody signed in, and setup over.
LEMMA SignInShows ==
  ASSUME SessionInv, EffectsRan, page = "login", initState = "ready"
  PROVE  user = None /\ ~setupRequired /\ ~Early
<1>1. user = None /\ ~setupRequired
  BY DEF EffectsRan, Routed
<1>2. QED
  BY <1>1 DEF SessionInv, PageFits, Early

LEMMA SubmitSends ==
  ASSUME SessionInv, NEW c \in Calls, NEW o \in Ops, NEW f \in Forms, Submit(c, o, f),
         endedReason' \in Reasons \cup {None}, FormOn(f, page),
         \/ o = "login" /\ f = "login" /\ initState = "ready" /\ page = "login" /\ EffectsRan
         \/ o = "mfa" /\ f = "mfa"
         \/ o = "enrol" /\ f = "enrol"
         \/ /\ o = "setup" /\ f = "setup" /\ page = "setup"
            /\ initState = "ready" /\ setupRequired
  PROVE  SessionInv'
<1>1. /\ Send(c, o, f) /\ \A d \in Calls : call[d].form # f
      /\ UNCHANGED <<plane, jar, server, user, userRef, startup, page, late>>
  BY DEF Submit, Busy
<1>2. o = "setup" => plane = "admin"
  BY DEF SessionInv, PageFits
<1>3. o = "login" => user = None /\ ~Early
  BY SignInShows
<1>4. MaySend(c, o, f)
  BY <1>1, <1>2, <1>3 DEF MaySend, BootOps
<1>5. QED
  BY <1>1, <1>4, SentFits

LEMMA FormSends ==
  ASSUME SessionInv, EffectsRan, NEW c \in Calls,
         \/ LoginForm(c) \/ SuperLoginForm(c) \/ SuperMfaForm(c) \/ SuperMfaChallengePage(c)
         \/ CustomerMfaChallengePage(c) \/ SuperEnrolForm(c) \/ SuperMfaEnrollPage(c)
         \/ CustomerMfaEnrollPage(c) \/ SuperSetupForm(c)
  PROVE  SessionInv'
<1>n. /\ endedReason \in Reasons \cup {None}
      /\ {"login", "mfa", "enrol", "setup"} \subseteq Ops /\ Forms = {"login", "mfa", "enrol", "setup"}
  BY DEF SessionInv, StateTypes, Ops, CookieOps, Forms
<1>1. CASE LoginForm(c) \/ SuperLoginForm(c)
  <2>1. /\ Submit(c, "login", "login") /\ page = "login" /\ initState = "ready"
        /\ endedReason' \in Reasons \cup {None}
    BY <1>1 DEF LoginForm, SuperLoginForm
  <2>2. FormOn("login", page)
    BY <2>1 DEF FormOn, Component, SuperLoginScreens
  <2>3. QED
    BY <1>n, <2>1, <2>2, SubmitSends
<1>2. CASE SuperMfaForm(c) \/ SuperMfaChallengePage(c) \/ CustomerMfaChallengePage(c)
  <2>1. /\ Submit(c, "mfa", "mfa") /\ page \in {"mfa", "mfaPage"}
        /\ endedReason' \in Reasons \cup {None}
    BY <1>n, <1>2 DEF SuperMfaForm, SuperMfaChallengePage, CustomerMfaChallengePage, VerifyForm
  <2>2. FormOn("mfa", page)
    BY <2>1 DEF FormOn, Component, SuperLoginScreens
  <2>3. QED
    BY <1>n, <2>1, <2>2, SubmitSends
<1>3. CASE SuperEnrolForm(c) \/ SuperMfaEnrollPage(c) \/ CustomerMfaEnrollPage(c)
  <2>1. /\ Submit(c, "enrol", "enrol") /\ page \in {"enrol", "enrolPage"}
        /\ endedReason' \in Reasons \cup {None}
    BY <1>n, <1>3 DEF SuperEnrolForm, SuperMfaEnrollPage, CustomerMfaEnrollPage, EnrolForm
  <2>2. FormOn("enrol", page)
    BY <2>1 DEF FormOn, Component, SuperLoginScreens
  <2>3. QED
    BY <1>n, <2>1, <2>2, SubmitSends
<1>4. CASE SuperSetupForm(c)
  <2>1. /\ Submit(c, "setup", "setup") /\ page = "setup" /\ initState = "ready"
        /\ setupRequired /\ endedReason' \in Reasons \cup {None}
    BY <1>n, <1>4 DEF SuperSetupForm
  <2>2. FormOn("setup", page)
    BY <2>1 DEF FormOn, Component, SuperLoginScreens
  <2>3. QED
    BY <1>n, <2>1, <2>2, SubmitSends
<1>5. QED
  BY <1>1, <1>2, <1>3, <1>4

LEMMA PlainSends ==
  ASSUME SessionInv, NEW c \in Calls,
         \/ FinishEnrol(c) \/ UseConsole(c) \/ ActivityPing(c) \/ StaySignedIn(c)
         \/ SuperSignOut(c) \/ PersonalSignOut(c)
  PROVE  SessionInv'
<1>n. None \notin Forms
  BY NoneApart
<1>1. PICK o \in {"me_enter", "console", "me_ping", "logout"} :
        /\ Send(c, o, None)
        /\ UNCHANGED <<plane, jar, server, user, userRef, startup, endedReason, page, late>>
        /\ user # None \/ page \in {"codes", "codesPage"}
  <2>1. CASE FinishEnrol(c)
    BY <2>1 DEF FinishEnrol
  <2>2. CASE UseConsole(c)
    BY <2>2 DEF UseConsole, InConsole, ConsoleShown
  <2>3. CASE ActivityPing(c) \/ StaySignedIn(c)
    BY <2>3 DEF ActivityPing, StaySignedIn, InConsole, ConsoleShown
  <2>4. CASE SuperSignOut(c) \/ PersonalSignOut(c)
    BY <2>4 DEF SuperSignOut, PersonalSignOut, InConsole, ConsoleShown
  <2>5. QED
    BY <2>1, <2>2, <2>3, <2>4
<1>2. ~Early
  BY <1>1 DEF SessionInv, PageFits, SuperSteps
<1>3. o \in Ops /\ o \notin {"login", "mfa", "enrol", "setup", "status", "status_after", "me_boot"}
  BY DEF Ops, CookieOps, MeOps
<1>4. MaySend(c, o, None)
  BY <1>n, <1>2, <1>3 DEF MaySend, FormOn, Forms, BootOps
<1>5. UNCHANGED <<plane, jar, server, user, userRef, startup, page, late>>
  BY <1>1
<1>6. endedReason' \in Reasons \cup {None}
  BY <1>1 DEF SessionInv, StateTypes
<1>7. QED
  BY <1>1, <1>4, <1>5, <1>6, SentFits

-----------------------------------------------------------------------------
(* Answers *)

\* What the answer a, with the session s, must be, for the invariant to go on.
MayAnswer(c, a, s) ==
    /\ a \in Answers /\ s \in Sessions \cup {None}
    /\ (call[c].op \in MeOps /\ a = "ok") => s = call[c].sent
    /\ call[c].op = "status_after" => a # "needed"
    /\ (call[c].op = "status" /\ a = "needed") => ~hasAdmin
    /\ (call[c].op = "status" /\ a = "done") => hasAdmin
    /\ Early => s = None /\ a # "authenticated" /\ (call[c].op = "enrol" => a # "ok")

LEMMA AnsweredFits ==
  ASSUME SessionInv, NEW c \in Calls, NEW a, NEW s, MayAnswer(c, a, s),
         call' = [call EXCEPT ![c].answer = a, ![c].got = s],
         UNCHANGED <<plane, cookie, user, userRef, startup, endedReason, page, late>>,
         challenge' \in {challenge, "none"}, hasAdmin' \in BOOLEAN,
         hasAdmin => hasAdmin', (hasAdmin' /\ ~hasAdmin) => call[c].op = "setup",
         (call[c].op = "setup" /\ a = "ok") => hasAdmin',
         rows' \in [Sessions -> {"unused", "live"} \cup Reasons],
         \A t \in Sessions : rows'[t] = "unused" => rows[t] = "unused",
         s # None => rows'[s] # "unused"
  PROVE  SessionInv'
<1>i. /\ StateTypes /\ CallsType /\ Unique /\ PageFits /\ ScreenMatchesCookie
      /\ \A d \in Calls : CallFits(call[d])
  BY DEF SessionInv
<1>s. /\ CallsType' /\ call'[c].op = call[c].op /\ call'[c].form = call[c].form
      /\ call'[c].sent = call[c].sent /\ call'[c].answer = a /\ call'[c].got = s
      /\ \A d \in Calls \ {c} : call'[d] = call[d]
  <2>1. a \in Answers /\ s \in Sessions \cup {None} /\ CallsType
    BY <1>i DEF MayAnswer
  <2>2. QED
    BY <2>1, AnswerMoves
<1>u. UNCHANGED <<plane, cookie, user, userRef, initState, attempt, setupRequired,
                  endedReason, page, late>>
  BY DEF startup
<1>r. ASSUME NEW t \in Sessions \cup {None}, Issued(t)
      PROVE  Issued(t)'
  BY <1>r DEF Issued
<1>e. Early' => Early
  BY <1>u DEF Early
<1>1. StateTypes'
  BY <1>i, <1>u DEF StateTypes
<1>2. CallFits(call[c])'
  <2>1. CallFits(call[c]) /\ call[c] \in CallRec
    BY <1>i DEF CallsType
  <2>2. Issued(call[c].sent)' /\ Issued(call[c].got)'
    <3>1. call[c].sent \in Sessions \cup {None} /\ Issued(call[c].sent)
      BY <2>1 DEF CallRec, CallFits, Asked
    <3>2. QED
      BY <1>s, <1>r, <3>1 DEF Issued
  <2>3. Asked(call[c])'
    BY <1>s, <2>1, <2>2 DEF CallFits, Asked, MayAnswer
  <2>4. FormOn(call[c].form, page)'
    BY <1>s, <1>u, <2>1 DEF CallFits, FormOn
  <2>5. Starts(call[c])'
    BY <1>s, <1>u, <2>1 DEF CallFits, Starts, MayAnswer
  <2>6. (Early => Quiet(call[c]))'
    BY <1>s, <1>e, <2>1 DEF CallFits, Quiet, MayAnswer
  <2>7. StaysPut(call[c])'
    BY <1>s, <1>u, <2>1 DEF CallFits, StaysPut
  <2>8. QED
    BY <2>3, <2>4, <2>5, <2>6, <2>7 DEF CallFits
<1>3. ASSUME NEW d \in Calls \ {c}
      PROVE  CallFits(call[d])'
  <2>1. CallFits(call[d]) /\ call'[d] = call[d] /\ call[d] \in CallRec
    BY <1>i, <1>s DEF CallsType
  <2>2. Asked(call[d])'
    <3>1. /\ call[d].sent \in Sessions \cup {None} /\ Issued(call[d].sent)
          /\ call[d].got \in Sessions \cup {None} /\ Issued(call[d].got)
      BY <2>1 DEF CallRec, CallFits, Asked
    <3>2. Issued(call[d].sent)' /\ Issued(call[d].got)'
      BY <1>r, <2>1, <3>1 DEF Issued
    <3>3. QED
      BY <2>1, <3>2 DEF CallFits, Asked
  <2>3. Starts(call[d])'
    <3>1. call[c].op = "setup" => initState = "ready"
      BY <1>i DEF CallFits, Starts, SetupOps
    <3>2. call[d].op = "status" => initState = "loading"
      BY <2>1 DEF CallFits, Starts, BootOps
    <3>3. QED
      BY <1>u, <2>1, <3>1, <3>2 DEF CallFits, Starts
  <2>4. FormOn(call[d].form, page)' /\ StaysPut(call[d])'
    BY <1>u, <2>1 DEF CallFits, FormOn, StaysPut
  <2>5. (Early => Quiet(call[d]))'
    BY <1>e, <2>1 DEF CallFits, Quiet
  <2>6. QED
    BY <2>2, <2>3, <2>4, <2>5 DEF CallFits
<1>4. Unique'
  <2>1. ASSUME NEW d \in Calls
        PROVE  call'[d].form = call[d].form /\ call'[d].op = call[d].op
    BY <1>s
  <2>2. QED
    BY <1>i, <2>1, UniqueStays
<1>5. PageFits'
  <2>1. Issued(cookie)'
    BY <1>i, <1>u, <1>r DEF PageFits, StateTypes, Issued
  <2>2. QED
    BY <1>i, <1>u, <1>e, <2>1 DEF PageFits, StateTypes
<1>6. ScreenMatchesCookie'
  <2>1. ASSUME NEW e \in Calls, call[e].op = "me_enter", call[e].sent = cookie
        PROVE  call'[e].op = "me_enter" /\ call'[e].sent = cookie
    BY <1>s, <2>1
  <2>2. ScreenMatchesCookie /\ cookie' = cookie /\ (~late' => ~late) /\ user' \in {user, None}
    BY <1>i, <1>u
  <2>3. \A e \in Calls : (call[e].op = "me_enter" /\ call[e].sent = cookie)
                         => call'[e].op = "me_enter" /\ call'[e].sent = cookie
    BY <2>1
  <2>4. QED
    BY <2>2, <2>3, ScreenStays
<1>7. ASSUME NEW d \in Calls
      PROVE  CallFits(call[d])'
  BY <1>2, <1>3
<1>8. QED
  BY <1>1, <1>4, <1>5, <1>6, <1>7, <1>s DEF SessionInv

\* No answer from the API changes the page; the replies that issue a session do so at once.
LEMMA AnswerSteps ==
  ASSUME SessionInv, NEW c \in Calls, Serve(c) \/ Lose(c)
  PROVE  SessionInv'
<1>i. /\ StateTypes /\ CallsType /\ PageFits /\ CallFits(call[c]) /\ call[c] \in CallRec
  BY DEF SessionInv, CallsType
<1>h. hasAdmin \in BOOLEAN /\ rows \in [Sessions -> {"unused", "live"} \cup Reasons]
  BY <1>i DEF StateTypes
<1>n. None \notin Sessions /\ None \notin Ops /\ None \notin Answers
  BY NoneApart
<1>q. /\ call[c].sent \in Sessions \cup {None} /\ Issued(call[c].sent)
      /\ Early => Quiet(call[c]) /\ challenge = "none" /\ call[c].sent = None
  BY <1>i DEF CallFits, Asked, CallRec, Quiet, PageFits
<1>1. CASE Lose(c)
  <2>1. MayAnswer(c, "unreachable", None)
    BY <1>n DEF MayAnswer, Answers
  <2>2. /\ call' = [call EXCEPT ![c].answer = "unreachable", ![c].got = None]
        /\ UNCHANGED <<plane, cookie, challenge, rows, hasAdmin, user, userRef, startup,
                       endedReason, page, late>>
    BY <1>1 DEF Lose, jar, server
  <2>3. QED
    BY <1>h, <2>1, <2>2, AnsweredFits
<1>2. CASE ServeGuarded(c)
  <2>1. ASSUME ~Live(call[c].sent), Answer(c, WhyNot(call[c].sent), None), UNCHANGED rows
        PROVE  SessionInv'
    <3>1. WhyNot(call[c].sent) \in Reasons
      BY <1>h, <1>q, <2>1 DEF WhyNot, Live, Issued, Reasons
    <3>2. MayAnswer(c, WhyNot(call[c].sent), None)
      BY <1>2, <3>1 DEF MayAnswer, Answers, Reasons, ServeGuarded, MeOps
    <3>3. /\ call' = [call EXCEPT ![c].answer = WhyNot(call[c].sent), ![c].got = None]
          /\ UNCHANGED <<plane, cookie, challenge, rows, hasAdmin, user, userRef, startup,
                         endedReason, page, late>>
      BY <1>2, <2>1 DEF ServeGuarded, Answer
    <3>4. ~(call[c].op = "setup")
      BY <1>2 DEF ServeGuarded, MeOps
    <3>5. QED
      BY <1>h, <3>2, <3>3, <3>4, AnsweredFits
  <2>2. ASSUME Live(call[c].sent),
               Answer(c, "ok", IF call[c].op \in MeOps THEN call[c].sent ELSE None),
               \/ UNCHANGED rows
               \/ call[c].op = "logout" /\ rows' = [rows EXCEPT ![call[c].sent] = "no_session"]
        PROVE  SessionInv'
    <3>1. ~Early /\ call[c].sent \in Sessions /\ rows[call[c].sent] # "unused"
      BY <1>q, <2>2 DEF Live
    <3>2. PICK s \in Sessions \cup {None} :
             s = IF call[c].op \in MeOps THEN call[c].sent ELSE None
      BY <1>q
    <3>3. MayAnswer(c, "ok", s)
      BY <1>2, <3>1, <3>2 DEF MayAnswer, Answers, ServeGuarded
    <3>4. /\ call' = [call EXCEPT ![c].answer = "ok", ![c].got = s]
          /\ UNCHANGED <<plane, cookie, challenge, hasAdmin, user, userRef, startup,
                         endedReason, page, late>>
      BY <1>2, <2>2, <3>2 DEF ServeGuarded, Answer
    <3>5. /\ rows' \in [Sessions -> {"unused", "live"} \cup Reasons]
          /\ \A t \in Sessions : rows'[t] = "unused" => rows[t] = "unused"
          /\ s # None => rows'[s] # "unused"
      BY <1>h, <2>2, <3>1, <3>2 DEF Reasons
    <3>6. ~(call[c].op = "setup")
      BY <1>2 DEF ServeGuarded, MeOps
    <3>7. QED
      BY <1>h, <3>3, <3>4, <3>5, <3>6, AnsweredFits
  <2>3. ASSUME call[c].op = "console", Answer(c, "refused", None), UNCHANGED rows
        PROVE  SessionInv'
    <3>1. MayAnswer(c, "refused", None)
      BY <2>3 DEF MayAnswer, Answers, MeOps
    <3>2. /\ call' = [call EXCEPT ![c].answer = "refused", ![c].got = None]
          /\ UNCHANGED <<plane, cookie, challenge, rows, hasAdmin, user, userRef, startup,
                         endedReason, page, late>>
      BY <1>2, <2>3 DEF ServeGuarded, Answer
    <3>3. QED
      BY <1>h, <2>3, <3>1, <3>2, AnsweredFits
  <2>4. QED
    BY <1>2, <2>1, <2>2, <2>3 DEF ServeGuarded
<1>3. ASSUME NEW a \in {"authenticated", "ok"}, Issue(c, a), ~Early, UNCHANGED plane,
             challenge' \in {challenge, "none"}, call[c].op \in {"login", "mfa", "enrol"}
      PROVE  SessionInv'
  <2>1. PICK s \in Sessions : /\ rows[s] = "unused" /\ rows' = [rows EXCEPT ![s] = "live"]
                             /\ Answer(c, a, s) /\ UNCHANGED hasAdmin
    BY <1>3 DEF Issue, NextSession
  <2>2. MayAnswer(c, a, s)
    BY <1>3 DEF MayAnswer, Answers, MeOps
  <2>3. /\ call' = [call EXCEPT ![c].answer = a, ![c].got = s]
        /\ UNCHANGED <<plane, cookie, hasAdmin, user, userRef, startup, endedReason, page, late>>
    BY <2>1 DEF Answer
  <2>4. /\ rows' \in [Sessions -> {"unused", "live"} \cup Reasons]
        /\ \A t \in Sessions : rows'[t] = "unused" => rows[t] = "unused"
        /\ rows'[s] # "unused"
    BY <1>h, <2>1
  <2>5. QED
    BY <1>h, <1>3, <2>2, <2>3, <2>4, AnsweredFits
<1>4. ASSUME NEW a \in Answers, Answer(c, a, None), MayAnswer(c, a, None),
             UNCHANGED <<server, challenge>>, call[c].op # "setup"
      PROVE  SessionInv'
  <2>1. /\ call' = [call EXCEPT ![c].answer = a, ![c].got = None]
        /\ UNCHANGED <<plane, cookie, challenge, rows, hasAdmin, user, userRef, startup,
                       endedReason, page, late>>
    BY <1>4 DEF Answer, server
  <2>2. QED
    BY <1>h, <1>4, <2>1, AnsweredFits
<1>5. CASE ServeLogin(c)
  <2>1. ~Early /\ call[c].op = "login"
    BY <1>5, <1>q DEF ServeLogin, Quiet
  <2>2. CASE Issue(c, "authenticated")
    <3>1. UNCHANGED <<plane, challenge>>
      BY <1>5, <2>2 DEF ServeLogin, Issue, Answer
    <3>2. QED
      BY <1>3, <2>1, <2>2, <3>1
  <2>3. ASSUME NEW a \in {"mfa_required", "mfa_enrollment_required", "refused"},
               Answer(c, a, None), UNCHANGED server
        PROVE  SessionInv'
    <3>1. MayAnswer(c, a, None) /\ a \in Answers
      BY <2>1 DEF MayAnswer, Answers, MeOps
    <3>2. QED
      BY <1>4, <1>5, <2>1, <2>3, <3>1 DEF ServeLogin
  <2>4. QED
    BY <1>5, <2>2, <2>3 DEF ServeLogin
<1>6. CASE ServeMfa(c)
  <2>1. call[c].op = "mfa"
    BY <1>6 DEF ServeMfa
  <2>2. CASE challenge = "verify" /\ Issue(c, "authenticated") /\ challenge' = "none"
    <3>1. UNCHANGED plane
      BY <2>2 DEF Issue, Answer
    <3>2. QED
      BY <1>3, <1>q, <2>1, <2>2, <3>1
  <2>3. ASSUME NEW a \in {"gone", "refused"}, Answer(c, a, None), UNCHANGED <<server, challenge>>
        PROVE  SessionInv'
    <3>1. MayAnswer(c, a, None) /\ a \in Answers
      BY <2>1 DEF MayAnswer, Answers, MeOps
    <3>2. QED
      BY <1>4, <2>1, <2>3, <3>1
  <2>4. QED
    BY <1>6, <2>2, <2>3 DEF ServeMfa
<1>7. CASE ServeEnrol(c)
  <2>1. call[c].op = "enrol"
    BY <1>7 DEF ServeEnrol
  <2>2. CASE ~Live(call[c].sent) /\ challenge = "enrol" /\ Issue(c, "ok") /\ challenge' = "none"
    <3>1. UNCHANGED plane
      BY <2>2 DEF Issue, Answer
    <3>2. QED
      BY <1>3, <1>q, <2>1, <2>2, <3>1
  <2>3. CASE Live(call[c].sent) /\ Answer(c, "ok", None) /\ UNCHANGED <<server, challenge>>
    <3>1. ~Early
      BY <1>q, <2>3 DEF Live
    <3>2. MayAnswer(c, "ok", None) /\ "ok" \in Answers
      BY <2>1, <3>1 DEF MayAnswer, Answers, MeOps
    <3>3. QED
      BY <1>4, <2>1, <2>3, <3>2
  <2>4. CASE Answer(c, "refused", None) /\ UNCHANGED <<server, challenge>>
    <3>1. MayAnswer(c, "refused", None) /\ "refused" \in Answers
      BY <2>1 DEF MayAnswer, Answers, MeOps
    <3>2. QED
      BY <1>4, <2>1, <2>4, <3>1
  <2>5. QED
    BY <1>7, <2>2, <2>3, <2>4 DEF ServeEnrol
<1>8. CASE ServeSetup(c)
  <2>1. UNCHANGED <<rows, challenge>> /\ call[c].op \in {"status", "status_after", "setup"}
    BY <1>8 DEF ServeSetup
  <2>2. CASE call[c].op = "setup" /\ Answer(c, "ok", None) /\ hasAdmin' = TRUE
    <3>1. MayAnswer(c, "ok", None)
      BY <2>2 DEF MayAnswer, Answers, MeOps
    <3>2. /\ call' = [call EXCEPT ![c].answer = "ok", ![c].got = None]
          /\ UNCHANGED <<plane, cookie, user, userRef, startup, endedReason, page, late>>
      BY <2>2 DEF Answer
    <3>3. QED
      BY <1>h, <2>1, <2>2, <3>1, <3>2, AnsweredFits
  <2>3. CASE /\ call[c].op # "setup" /\ UNCHANGED hasAdmin
             /\ Answer(c, IF hasAdmin THEN "done" ELSE "needed", None)
    <3>1. call[c].op = "status_after" => hasAdmin
      BY <1>i DEF CallFits, Starts
    <3>2. PICK a \in {"done", "needed"} : a = IF hasAdmin THEN "done" ELSE "needed"
      OBVIOUS
    <3>3. MayAnswer(c, a, None) /\ a \in Answers
      BY <2>1, <2>3, <3>1, <3>2 DEF MayAnswer, Answers, MeOps
    <3>4. QED
      BY <1>4, <2>1, <2>3, <3>2, <3>3 DEF server
  <2>4. CASE call[c].op = "status" /\ Answer(c, "failed", None) /\ UNCHANGED hasAdmin
    <3>1. MayAnswer(c, "failed", None) /\ "failed" \in Answers
      BY <2>4 DEF MayAnswer, Answers, MeOps
    <3>2. QED
      BY <1>4, <2>1, <2>4, <3>1 DEF server
  <2>5. QED
    BY <1>8, <2>2, <2>3, <2>4 DEF ServeSetup
<1>9. QED
  BY <1>1, <1>2, <1>5, <1>6, <1>7, <1>8 DEF Serve

-----------------------------------------------------------------------------
(* Replies *)

\* What is left to show once the reply of c has been handled.
LEMMA HandledFits ==
  ASSUME SessionInv, NEW c \in Calls, NEW next \in CallRec, NEW q, Handled(c, next, q),
         next.form \in {call[c].form, None}, next.op \in BootOps => call[c].op \in BootOps,
         next = Free \/ (Moved(call'[c], next, q) => CallFits(call[c])'),
         \A d \in Calls \ {c} : Undisturbed(d, q),
         UNCHANGED <<plane, server>>, Early' => Early, ~late' => ~late,
         StateTypes', PageFits', ScreenMatchesCookie'
  PROVE  SessionInv'
<1>i. CallsType /\ Unique
  BY DEF SessionInv
<1>m. /\ CallsType' /\ page' = q /\ Moved(call'[c], next, q)
      /\ \A d \in Calls \ {c} : Moved(call'[d], call[d], q)
  BY <1>i, HandledMoves
<1>1. CallFits(call[c])'
  <2>1. CASE next = Free
    <3>1. /\ call'[c].op = None /\ call'[c].sent = None /\ call'[c].form = None
          /\ call'[c].answer = None /\ call'[c].got = None
      BY <1>m, <2>1, FreeType DEF Moved, Same
    <3>2. QED
      BY <3>1, FreedFits
  <2>2. QED
    BY <1>m, <2>1
<1>2. ASSUME NEW d \in Calls \ {c}
      PROVE  CallFits(call[d])'
  <2>1. Moved(call'[d], call[d], page') /\ Undisturbed(d, page')
    BY <1>m
  <2>2. UNCHANGED <<plane, hasAdmin>> /\ \A s \in Sessions : rows'[s] = "unused" => rows[s] = "unused"
    BY DEF server
  <2>3. QED
    BY <2>1, <2>2, OthersFit
<1>3. Unique'
  <2>1. \A d \in Calls : call'[d].form \in {call[d].form, None}
    BY <1>m DEF Moved
  <2>2. \A d \in Calls : call'[d].op \in BootOps => call[d].op \in BootOps
    BY <1>m DEF Moved, Same
  <2>3. QED
    BY <1>i, <2>1, <2>2, UniqueStays
<1>4. \A d \in Calls : CallFits(call[d])'
  BY <1>1, <1>2
<1>5. QED
  BY <1>m, <1>3, <1>4 DEF SessionInv

LEMMA HandledFree ==
  ASSUME SessionInv, NEW c \in Calls, NEW q, Handled(c, Free, q),
         \A d \in Calls \ {c} : Undisturbed(d, q),
         UNCHANGED <<plane, server>>, Early' => Early, ~late' => ~late,
         StateTypes', PageFits', ScreenMatchesCookie'
  PROVE  SessionInv'
<1>1. Free \in CallRec /\ Free.form \in {call[c].form, None}
  BY FreeType
<1>2. Free.op \in BootOps => call[c].op \in BootOps
  BY FreeType, NoneApart DEF BootOps, Ops, CookieOps, MeOps
<1>3. PICK n \in CallRec : n = Free
  BY <1>1
<1>4. QED
  BY <1>1, <1>2, <1>3, HandledFits

\* The sign-ins on their way, while the cookie stays.
LEMMA HandledScreen ==
  ASSUME SessionInv, NEW c \in Calls, NEW next \in CallRec, NEW q, Handled(c, next, q),
         call[c].op # "me_enter", cookie' = cookie, ~late' => ~late, user' \in {user, None}
  PROVE  ScreenMatchesCookie'
<1>1. \A d \in Calls \ {c} : Moved(call'[d], call[d], q)
  BY HandledMoves DEF SessionInv
<1>2. \A e \in Calls : (call[e].op = "me_enter" /\ call[e].sent = cookie)
                       => call'[e].op = "me_enter" /\ call'[e].sent = cookie
  BY <1>1 DEF Moved, Same
<1>3. ScreenMatchesCookie
  BY DEF SessionInv
<1>4. QED
  BY <1>2, <1>3, ScreenStays

\* A reply after which the page stays where it is, and the caller too, or nobody is shown.
LEMMA PageStays ==
  ASSUME SessionInv, UNCHANGED <<initState, setupRequired>>, user' \in {user, None},
         NEW d \in Calls, ~late' => ~late
  PROVE  Undisturbed(d, page)
<1>1. StaysPut(call[d])
  BY DEF SessionInv, CallFits
<1>2. QED
  BY <1>1 DEF StaysPut, Undisturbed

LEMMA LoginFailsFits ==
  ASSUME SessionInv, NEW c \in Calls, LoginFails(c)
  PROVE  SessionInv'
<1>i. StateTypes /\ CallsType /\ PageFits /\ ScreenMatchesCookie
  BY DEF SessionInv
<1>u. /\ UNCHANGED <<plane, cookie, challenge, rows, hasAdmin, userRef, initState, attempt,
                     setupRequired, late>>
      /\ call[c].op = "login"
  BY DEF LoginFails, jar, server, startup, Answered
<1>h. Handled(c, Free, page)
  BY DoneType DEF LoginFails
<1>1. user' \in {user, None} /\ endedReason' \in Reasons \cup {None}
  BY <1>i DEF LoginFails, OnUnauthorized, StateTypes, Is, Reasons
<1>2. StateTypes'
  BY <1>h, <1>i, <1>u, <1>1 DEF StateTypes, Handled
<1>3. PageFits'
  BY <1>h, <1>i, <1>u, <1>1 DEF PageFits, Handled, Early, Issued
<1>4. ScreenMatchesCookie'
  BY <1>h, <1>u, <1>1, FreeType, HandledScreen
<1>5. \A d \in Calls \ {c} : Undisturbed(d, page)
  BY <1>u, <1>1, PageStays
<1>6. (Early' => Early) /\ (~late' => ~late) /\ UNCHANGED <<plane, server>>
  BY <1>u DEF Early, server
<1>7. QED
  BY <1>h, <1>2, <1>3, <1>4, <1>5, <1>6, HandledFree

\* login() and verifyMfa() that carry a session.
LEMMA SignedInFits ==
  ASSUME SessionInv, NEW c \in Calls, SettleSignedIn(c)
  PROVE  SessionInv'
<1>i. /\ StateTypes /\ CallsType /\ PageFits /\ CallFits(call[c]) /\ call[c] \in CallRec
      /\ call[c].form \in Forms \cup {None} /\ call[c].got \in Sessions \cup {None}
  BY DEF SessionInv, CallsType, CallRec
<1>u. /\ UNCHANGED <<plane, challenge, rows, hasAdmin, user, userRef, initState, attempt,
                     setupRequired, late>>
      /\ cookie' = call[c].got /\ endedReason' = None
      /\ call[c].op \in {"login", "mfa"} /\ call[c].answer = "authenticated"
  BY DEF SettleSignedIn, server, startup, Answered, Is
<1>e. ~Early /\ ~Early'
  BY <1>i, <1>u DEF CallFits, Quiet, Early
<1>o. "me_enter" \in Ops /\ "me_enter" \in CookieOps
  BY DEF Ops, CookieOps, MeOps
<1>q. PICK n \in CallRec :
        /\ n = Request("me_enter", call[c].form, call[c].got) /\ n.op = "me_enter"
        /\ n.form = call[c].form /\ n.answer = None /\ n.got = None /\ n.sent = call[c].got
  BY <1>i, <1>o, RequestType
<1>h. Handled(c, n, page)
  BY <1>q DEF SettleSignedIn
<1>m. page' = page /\ Moved(call'[c], n, page)
  BY <1>h, <1>i, HandledMoves
<1>n. None \notin Answers /\ None \notin Forms /\ Issued(call[c].got)
  BY <1>i, NoneApart DEF CallFits, Asked
<1>1. StateTypes'
  BY <1>i, <1>u, <1>m DEF StateTypes
<1>2. PageFits'
  BY <1>i, <1>u, <1>m, <1>n, <1>e DEF PageFits, Issued
<1>3. ScreenMatchesCookie'
  BY <1>m, <1>q, <1>u DEF ScreenMatchesCookie, Moved, Same
<1>4. CallFits(call[c])'
  <2>1. call[c].form \in {None, "login", "mfa"}
    BY <1>i, <1>u DEF CallFits, Asked
  <2>2. Issued(call[c].sent)' /\ Issued(call[c].got)'
    BY <1>m, <1>q, <1>n, <1>u DEF Moved, Same, Issued
  <2>3. Asked(call[c])'
    BY <1>m, <1>q, <1>n, <2>1, <2>2 DEF Moved, Same, Asked, Answers, Forms
  <2>4. FormOn(call[c].form, page)'
    <3>1. FormOn(n.form, page)
      BY <1>i, <1>q DEF CallFits
    <3>2. QED
      BY <1>m, <3>1, FormMoves
  <2>5. Starts(call[c])' /\ StaysPut(call[c])'
    BY <1>m, <1>q DEF Moved, Same, Starts, StaysPut, SetupOps, BootOps
  <2>6. QED
    BY <1>e, <2>3, <2>4, <2>5 DEF CallFits
<1>5. \A d \in Calls \ {c} : Undisturbed(d, page)
  BY <1>u, PageStays
<1>6. (Early' => Early) /\ (~late' => ~late) /\ UNCHANGED <<plane, server>>
  BY <1>u, <1>e DEF server
<1>7. n.form \in {call[c].form, None} /\ (n.op \in BootOps => call[c].op \in BootOps)
  BY <1>q DEF BootOps
<1>8. QED
  BY <1>h, <1>1, <1>2, <1>3, <1>4, <1>5, <1>6, <1>7, HandledFits

\* LoginPage and SuperLoginPage go on to the second factor or to the enrolment.
LEMMA ContinuesFits ==
  ASSUME SessionInv, NEW c \in Calls, LoginContinues(c) \/ SuperLoginContinues(c)
  PROVE  SessionInv'
<1>i. /\ StateTypes /\ CallsType /\ PageFits /\ Unique /\ CallFits(call[c])
      /\ \A d \in Calls : CallFits(call[d])
  BY DEF SessionInv
<1>u. /\ UNCHANGED <<plane, cookie, rows, hasAdmin, user, userRef, initState, attempt,
                     setupRequired, endedReason>>
      /\ challenge' \in {"verify", "enrol"} /\ call[c].op = "login"
      /\ late' \in BOOLEAN /\ (~late' => ~late) /\ (late => late')
  BY <1>i DEF LoginContinues, SuperLoginContinues, server, startup, Answered, StateTypes
<1>e. ~Early /\ ~Early' /\ FormOn(call[c].form, page) /\ call[c].form \in {None, "login"}
  BY <1>i, <1>u DEF CallFits, Quiet, Early, Asked
<1>p. PICK q \in Pages :
        /\ Handled(c, Free, q)
        /\ \/ plane = "customer" /\ q \in {"mfaPage", "enrolPage"}
           \/ call[c].form = None /\ q = page
           \/ call[c].form = "login" /\ plane = "admin" /\ q \in {"mfa", "enrol"}
  <2>1. CASE LoginContinues(c)
    BY <2>1 DEF LoginContinues, Pages
  <2>2. CASE SuperLoginContinues(c)
    BY <1>i, <1>e, <2>2 DEF SuperLoginContinues, Pages, SuperLoginScreens, StateTypes
  <2>3. QED
    BY <2>1, <2>2
<1>h. page' = q
  BY <1>p DEF Handled
<1>1. StateTypes'
  BY <1>i, <1>u, <1>h DEF StateTypes
<1>2. PageFits'
  <2>1. (call[c].form = "login") => initState = "ready" /\ (~late => user = None)
    BY <1>i, <1>u, NoneApart DEF CallFits, StaysPut, Forms
  <2>2. QED
    BY <1>i, <1>u, <1>e, <1>h, <1>p, <2>1 DEF PageFits, Issued, SuperSteps
<1>3. ScreenMatchesCookie'
  BY <1>p, <1>u, FreeType, HandledScreen
<1>4. ASSUME NEW d \in Calls \ {c}
      PROVE  Undisturbed(d, q)
  <2>1. CallFits(call[d])
    BY <1>i
  <2>2. CASE q = page
    BY <1>u, <2>2, PageStays
  <2>3. CASE plane = "customer" /\ q \in {"mfaPage", "enrolPage"}
    <3>1. call[d].op \notin SetupOps
      BY <2>1, <2>3 DEF CallFits, Starts
    <3>2. call[d].op = "login" /\ call[d].form # None => Component(page) = "SuperLoginForm"
      BY <2>1 DEF CallFits, Asked, FormOn
    <3>3. Component(q) # "SuperLoginForm"
      BY <2>3 DEF Component, SuperLoginScreens
    <3>4. QED
      BY <1>u, <3>1, <3>2, <3>3 DEF Undisturbed
  <2>4. CASE call[c].form = "login" /\ plane = "admin" /\ q \in {"mfa", "enrol"}
    <3>1. Component(page) = "SuperLoginForm"
      BY <1>e, <2>4 DEF FormOn
    <3>2. call[d].form # "login"
      BY <1>i, <2>4, NoneApart DEF Unique, Forms
    <3>3. call[d].op = "login" => call[d].form = None
      BY <2>1, <3>2 DEF CallFits, Asked
    <3>4. Component("setup") # "SuperLoginForm"
      BY DEF Component, SuperLoginScreens
    <3>5. ~(~late /\ call[d].op \in SetupOps)
      BY <2>1, <3>1, <3>4 DEF CallFits, StaysPut
    <3>6. QED
      BY <1>u, <3>3, <3>5 DEF Undisturbed
  <2>5. QED
    BY <1>p, <2>2, <2>3, <2>4
<1>5. UNCHANGED <<plane, server>>
  BY <1>u DEF server
<1>6. QED
  BY <1>p, <1>u, <1>e, <1>1, <1>2, <1>3, <1>4, <1>5, HandledFree

\* A code refused, an expired challenge, no answer.
LEMMA VerifyFailsFits ==
  ASSUME SessionInv, NEW c \in Calls, VerifyFails(c)
  PROVE  SessionInv'
<1>i. /\ StateTypes /\ CallsType /\ PageFits /\ CallFits(call[c])
      /\ \A d \in Calls : CallFits(call[d])
  BY DEF SessionInv
<1>u. /\ UNCHANGED <<plane, cookie, challenge, rows, hasAdmin, userRef, initState, attempt,
                     setupRequired>>
      /\ call[c].op = "mfa"
      /\ late' \in BOOLEAN /\ (~late' => ~late) /\ (late => late')
  BY <1>i DEF VerifyFails, jar, server, startup, Answered, StateTypes
<1>v. user' \in {user, None} /\ endedReason' \in Reasons \cup {None}
  BY <1>i DEF VerifyFails, OnUnauthorized, StateTypes, Is, Reasons
<1>f. call[c].form \in {None, "mfa"} /\ FormOn(call[c].form, page)
  BY <1>i, <1>u DEF CallFits, Asked
<1>p. PICK q \in Pages :
        /\ Handled(c, Free, q)
        /\ q = page \/ (q = "login" /\ (~late' => call[c].form = "mfa"))
  <2>1. "login" \in Pages /\ page \in Pages
    BY <1>i DEF Pages, SuperLoginScreens, StateTypes
  <2>2. QED
    BY <1>f, <2>1, DoneType DEF VerifyFails
<1>h. page' = q
  BY <1>p DEF Handled
<1>1. StateTypes'
  BY <1>i, <1>u, <1>v, <1>h DEF StateTypes
<1>2. PageFits'
  BY <1>i, <1>u, <1>v, <1>h, <1>p DEF PageFits, Issued, SuperSteps, Early
<1>3. ScreenMatchesCookie'
  BY <1>p, <1>u, <1>v, FreeType, HandledScreen
<1>4. ASSUME NEW d \in Calls \ {c}
      PROVE  Undisturbed(d, q)
  <2>1. CASE q = page
    BY <1>u, <1>v, <2>1, PageStays
  <2>2. CASE q = "login" /\ (~late' => call[c].form = "mfa")
    <3>1. StaysPut(call[d])
      BY <1>i DEF CallFits
    <3>2. Component("setup") \notin {"SuperLoginForm", "mfaPage"}
      BY DEF Component, SuperLoginScreens
    <3>3. ~(~late' /\ call[d].op \in SetupOps)
      BY <1>f, <1>u, <2>2, <3>1, <3>2 DEF StaysPut, FormOn
    <3>4. QED
      BY <1>u, <1>v, <2>2, <3>1, <3>3 DEF Undisturbed, StaysPut, SuperSteps
  <2>3. QED
    BY <1>p, <2>1, <2>2
<1>5. UNCHANGED <<plane, server>> /\ (Early' => Early)
  BY <1>u DEF server, Early
<1>6. QED
  BY <1>p, <1>u, <1>1, <1>2, <1>3, <1>4, <1>5, HandledFree

\* The enrolment verified, or refused.
LEMMA EnrolFits ==
  ASSUME SessionInv, NEW c \in Calls, SettleEnrol(c)
  PROVE  SessionInv'
<1>i. /\ StateTypes /\ CallsType /\ PageFits /\ ScreenMatchesCookie /\ CallFits(call[c])
      /\ call[c].got \in Sessions \cup {None} /\ \A d \in Calls : CallFits(call[d])
  BY DEF SessionInv, CallsType, CallRec
<1>u. /\ UNCHANGED <<plane, challenge, rows, hasAdmin, user, userRef, initState, attempt,
                     setupRequired, endedReason>>
      /\ call[c].op = "enrol"
      /\ cookie' = IF call[c].got # None THEN call[c].got ELSE cookie
      /\ late' \in BOOLEAN /\ (~late' => ~late) /\ (late => late')
      /\ (user # None /\ call[c].got # None) => late'
  BY <1>i DEF SettleEnrol, server, startup, Answered, StateTypes
<1>p. PICK q \in Pages :
        /\ Handled(c, Free, q)
        /\ \/ q = page
           \/ call[c].answer = "ok" /\ page = "enrol" /\ q = "codes"
           \/ call[c].answer = "ok" /\ page = "enrolPage" /\ q = "codesPage"
  <2>1. /\ "codes" \in Pages /\ "codesPage" \in Pages /\ page \in Pages
        /\ AfterEnrol(c) = Free
    BY <1>i, DoneType DEF Pages, SuperLoginScreens, StateTypes, AfterEnrol
  <2>2. CASE ~Is(c, {"ok"}) \/ call[c].form = None
    BY <2>1, <2>2 DEF SettleEnrol
  <2>3. CASE Is(c, {"ok"}) /\ call[c].form # None /\ page = "enrol"
    BY <2>1, <2>3 DEF SettleEnrol, Is
  <2>4. CASE Is(c, {"ok"}) /\ call[c].form # None /\ page = "enrolPage"
    BY <2>1, <2>4 DEF SettleEnrol, Is
  <2>5. CASE /\ Is(c, {"ok"}) /\ call[c].form # None /\ page # "enrol" /\ page # "enrolPage"
    BY <2>1, <2>5 DEF SettleEnrol
  <2>6. QED
    BY <2>2, <2>3, <2>4, <2>5
<1>h. page' = q
  BY <1>p DEF Handled
<1>1. StateTypes'
  BY <1>i, <1>u, <1>h DEF StateTypes
<1>2. PageFits'
  <2>1. Issued(cookie)'
    BY <1>i, <1>u DEF PageFits, CallFits, Asked, Issued
  <2>2. (Early => /\ cookie = None /\ challenge = "none" /\ user = None
                  /\ page \notin SuperSteps \cup {"codesPage"})'
    BY <1>i, <1>u, <1>h, <1>p DEF PageFits, CallFits, Quiet, Early
  <2>3. QED
    BY <1>i, <1>u, <1>h, <1>p, <2>1, <2>2 DEF PageFits, SuperSteps
<1>3. ScreenMatchesCookie'
  <2>1. CASE cookie' = cookie
    BY <1>p, <1>u, <2>1, FreeType, HandledScreen
  <2>2. CASE cookie' # cookie
    BY <1>u, <2>2 DEF ScreenMatchesCookie
  <2>3. QED
    BY <2>1, <2>2
<1>4. ASSUME NEW d \in Calls \ {c}
      PROVE  Undisturbed(d, q)
  <2>1. CASE q = page
    BY <1>u, <2>1, PageStays
  <2>2. CASE \/ page = "enrol" /\ q = "codes"
             \/ page = "enrolPage" /\ q = "codesPage"
    <3>1. StaysPut(call[d]) /\ FormOn(call[d].form, page)
          /\ (call[d].op = "login" => call[d].form \in {None, "login"})
      BY <1>i DEF CallFits, Asked
    <3>2. Component("enrolPage") # "SuperLoginForm"
      BY DEF Component, SuperLoginScreens
    <3>3. ~(call[d].op = "login" /\ call[d].form # None)
      BY <2>2, <3>1, <3>2 DEF StaysPut, FormOn, SuperSteps
    <3>4. ~(~late /\ call[d].op \in SetupOps)
      BY <2>2, <3>1 DEF StaysPut
    <3>5. QED
      BY <1>u, <3>3, <3>4 DEF Undisturbed
  <2>3. QED
    BY <1>p, <2>1, <2>2
<1>5. UNCHANGED <<plane, server>> /\ (Early' => Early)
  BY <1>u DEF server, Early
<1>6. QED
  BY <1>p, <1>u, <1>1, <1>2, <1>3, <1>4, <1>5, HandledFree

\* First-run setup answered: the status is asked again.
LEMMA SetupFits ==
  ASSUME SessionInv, NEW c \in Calls, SettleSetup(c)
  PROVE  SessionInv'
<1>i. /\ StateTypes /\ CallsType /\ PageFits /\ CallFits(call[c]) /\ call[c] \in CallRec
      /\ call[c].form \in Forms \cup {None} /\ cookie \in Sessions \cup {None}
  BY DEF SessionInv, StateTypes, CallsType, CallRec
<1>u. /\ UNCHANGED <<plane, cookie, challenge, rows, hasAdmin, user, userRef, initState,
                     attempt, setupRequired, endedReason, late>>
      /\ call[c].op = "setup"
  BY DEF SettleSetup, jar, server, startup, Answered
<1>s. UNCHANGED <<plane, server>> /\ (Early' => Early) /\ (~late' => ~late)
  BY <1>u DEF server, Early
<1>5. \A d \in Calls \ {c} : Undisturbed(d, page)
  BY <1>u, PageStays
<1>t. ASSUME page' = page
      PROVE  StateTypes' /\ PageFits'
  BY <1>i, <1>u, <1>t DEF StateTypes, PageFits, Issued, Early
<1>1. CASE ~Is(c, {"ok"})
  <2>1. Handled(c, Free, page)
    BY <1>1 DEF SettleSetup
  <2>2. ScreenMatchesCookie'
    BY <1>u, <2>1, FreeType, HandledScreen
  <2>3. page' = page
    BY <2>1 DEF Handled
  <2>4. QED
    BY <1>s, <1>5, <1>t, <2>1, <2>2, <2>3, HandledFree
<1>2. CASE Is(c, {"ok"})
  <2>o. "status_after" \in Ops /\ "status_after" \notin CookieOps
    BY DEF Ops, CookieOps, MeOps
  <2>1. PICK n \in CallRec :
          /\ n = Request("status_after", call[c].form, cookie) /\ n.op = "status_after"
          /\ n.form = call[c].form /\ n.answer = None /\ n.got = None /\ n.sent = None
    BY <1>i, <2>o, RequestType
  <2>2. Handled(c, n, page)
    BY <1>2, <2>1 DEF SettleSetup
  <2>3. page' = page /\ Moved(call'[c], n, page)
    BY <1>i, <2>2, HandledMoves
  <2>4. ScreenMatchesCookie'
    BY <1>u, <2>2, HandledScreen
  <2>5. CallFits(call[c])'
    <3>n. None \notin Answers /\ None \notin Forms
      BY NoneApart
    <3>1. plane = "admin" /\ initState = "ready" /\ hasAdmin
      BY <1>i, <1>u, <1>2 DEF CallFits, Starts, SetupOps, Is
    <3>2. Asked(call[c])'
      BY <2>1, <2>3 DEF Moved, Same, Asked, Issued, MeOps
    <3>3. FormOn(call[c].form, page)'
      <4>1. FormOn(n.form, page)
        BY <1>i, <2>1 DEF CallFits
      <4>2. QED
        BY <2>3, <4>1, FormMoves
    <3>4. Starts(call[c])'
      BY <1>u, <2>1, <2>3, <3>n, <3>1 DEF Moved, Same, Starts, BootOps, Answers
    <3>5. Quiet(call[c])'
      BY <2>1, <2>3, <3>n DEF Moved, Same, Quiet, Answers
    <3>6. StaysPut(call[c])'
      BY <1>i, <1>u, <2>1, <2>3 DEF Moved, Same, CallFits, StaysPut, SetupOps
    <3>7. QED
      BY <3>2, <3>3, <3>4, <3>5, <3>6 DEF CallFits
  <2>6. n.form \in {call[c].form, None} /\ (n.op \in BootOps => call[c].op \in BootOps)
    BY <2>1 DEF BootOps
  <2>7. QED
    BY <1>s, <1>5, <1>t, <2>2, <2>3, <2>4, <2>5, <2>6, HandledFits
<1>3. QED
  BY <1>1, <1>2

\* The status after setup: the sign-in form, and what the API said of it.
LEMMA StatusAfterFits ==
  ASSUME SessionInv, NEW c \in Calls, SettleStatusAfter(c)
  PROVE  SessionInv'
<1>i. /\ StateTypes /\ CallsType /\ PageFits /\ Unique /\ CallFits(call[c])
      /\ \A d \in Calls : CallFits(call[d])
  BY DEF SessionInv
<1>u. /\ UNCHANGED <<plane, cookie, challenge, rows, hasAdmin, user, userRef, initState,
                     attempt, endedReason, late>>
      /\ call[c].op = "status_after" /\ Handled(c, Free, "login")
  BY DEF SettleStatusAfter, jar, server, Answered
<1>r. setupRequired' \in BOOLEAN /\ (setupRequired' => setupRequired) /\ hasAdmin
  <2>1. call[c].answer # "needed" /\ hasAdmin
    BY <1>i, <1>u DEF CallFits, Starts
  <2>2. CASE Is(c, {"needed", "done"})
    BY <2>1, <2>2 DEF SettleStatusAfter
  <2>3. CASE ~Is(c, {"needed", "done"})
    BY <1>i, <2>1, <2>3 DEF SettleStatusAfter, StateTypes
  <2>4. QED
    BY <2>2, <2>3
<1>h. page' = "login" /\ "login" \in Pages
  BY <1>u DEF Handled, Pages, SuperLoginScreens
<1>1. StateTypes'
  BY <1>i, <1>u, <1>r, <1>h DEF StateTypes
<1>2. PageFits'
  BY <1>i, <1>u, <1>r, <1>h DEF PageFits, Issued, Early, SuperSteps
<1>3. ScreenMatchesCookie'
  BY <1>u, FreeType, HandledScreen
<1>4. ASSUME NEW d \in Calls \ {c}
      PROVE  Undisturbed(d, "login")
  <2>1. StaysPut(call[c]) /\ StaysPut(call[d])
    BY <1>i DEF CallFits
  <2>2. call[c].form # None => call[c].form # call[d].form
    BY <1>i DEF Unique
  <2>3. ~(~late /\ call[d].op \in SetupOps)
    BY <1>u, <2>1, <2>2, NoneApart DEF StaysPut, SetupOps, Forms
  <2>4. call[d].op \in BootOps \cup SetupOps => initState' = initState
    BY <1>u
  <2>5. QED
    BY <1>u, <2>1, <2>3, <2>4 DEF Undisturbed, StaysPut, SuperSteps
<1>5. UNCHANGED <<plane, server>> /\ (Early' => Early) /\ (~late' => ~late)
  BY <1>u, <1>r DEF server, Early
<1>6. QED
  BY <1>u, <1>1, <1>2, <1>3, <1>4, <1>5, HandledFree

\* Any call of a page in the console.
LEMMA ConsoleFits ==
  ASSUME SessionInv, NEW c \in Calls, SettleConsole(c)
  PROVE  SessionInv'
<1>i. /\ StateTypes /\ CallsType /\ PageFits /\ ScreenMatchesCookie /\ CallFits(call[c])
  BY DEF SessionInv
<1>u. /\ UNCHANGED <<plane, challenge, rows, hasAdmin, userRef, initState, attempt,
                     setupRequired>>
      /\ call[c].op = "console" /\ Handled(c, Free, page)
      /\ late' \in BOOLEAN /\ (~late' => ~late) /\ (late => late')
      /\ cookie' = JarAfter(c)
      /\ (Is(c, Reasons) /\ userRef # user) => late'
  BY <1>i DEF SettleConsole, server, startup, Answered, StateTypes, Is
<1>v. /\ user' \in {user, None} /\ endedReason' \in Reasons \cup {None}
      /\ (Is(c, Reasons) /\ userRef # None) => user' = None
  BY <1>i DEF SettleConsole, OnUnauthorized, StateTypes, Is, Reasons
<1>e. ~Early /\ ~Early'
  BY <1>i, <1>u DEF CallFits, Quiet, Early
<1>h. page' = page
  BY <1>u DEF Handled
<1>1. StateTypes'
  BY <1>i, <1>u, <1>v, <1>h DEF StateTypes, JarAfter
<1>2. PageFits'
  <2>1. Issued(cookie)'
    BY <1>i, <1>u DEF PageFits, JarAfter, Issued
  <2>2. QED
    BY <1>i, <1>u, <1>v, <1>e, <1>h, <2>1 DEF PageFits, SuperSteps
<1>3. ScreenMatchesCookie'
  <2>1. CASE Is(c, Reasons)
    BY <1>u, <1>v, <2>1 DEF ScreenMatchesCookie
  <2>2. CASE ~Is(c, Reasons)
    <3>1. cookie' = cookie
      BY <1>u, <2>2 DEF JarAfter
    <3>2. QED
      BY <1>u, <1>v, <3>1, FreeType, HandledScreen
  <2>3. QED
    BY <2>1, <2>2
<1>4. \A d \in Calls \ {c} : Undisturbed(d, page)
  BY <1>u, <1>v, PageStays
<1>5. UNCHANGED <<plane, server>>
  BY <1>u DEF server
<1>6. QED
  BY <1>u, <1>e, <1>1, <1>2, <1>3, <1>4, <1>5, HandledFree

\* Signing out.
LEMMA LogoutFits ==
  ASSUME SessionInv, NEW c \in Calls, SettleLogout(c)
  PROVE  SessionInv'
<1>i. /\ StateTypes /\ CallsType /\ PageFits /\ CallFits(call[c])
      /\ \A d \in Calls : CallFits(call[d])
  BY DEF SessionInv
<1>u. /\ UNCHANGED <<plane, rows, hasAdmin, userRef, initState, attempt, setupRequired>>
      /\ call[c].op = "logout" /\ user' = None /\ endedReason' = None
      /\ late' \in BOOLEAN /\ (~late' => ~late) /\ (late => late')
      /\ cookie' \in {cookie, None} /\ challenge' \in {challenge, "none"}
  BY <1>i DEF SettleLogout, server, startup, Answered, StateTypes
<1>p. PICK q \in Pages : Handled(c, Free, q) /\ q \in {page, "login"}
  <2>1. "login" \in Pages /\ page \in Pages
    BY <1>i DEF Pages, SuperLoginScreens, StateTypes
  <2>2. QED
    BY <2>1 DEF SettleLogout
<1>e. ~Early /\ ~Early'
  BY <1>i, <1>u DEF CallFits, Quiet, Early
<1>h. page' = q
  BY <1>p DEF Handled
<1>1. StateTypes'
  BY <1>i, <1>u, <1>h DEF StateTypes
<1>2. PageFits'
  <2>1. Issued(cookie)'
    BY <1>i, <1>u DEF PageFits, Issued
  <2>2. QED
    BY <1>i, <1>u, <1>p, <1>e, <1>h, <2>1 DEF PageFits, SuperSteps
<1>3. ScreenMatchesCookie'
  BY <1>u DEF ScreenMatchesCookie
<1>4. ASSUME NEW d \in Calls \ {c}
      PROVE  Undisturbed(d, q)
  <2>1. StaysPut(call[d]) /\ Starts(call[d])
    BY <1>i DEF CallFits
  <2>2. ~(~late /\ call[d].op \in SetupOps)
    BY <1>e, <2>1 DEF StaysPut, Starts, Early
  <2>3. QED
    BY <1>u, <1>p, <2>1, <2>2 DEF Undisturbed, StaysPut, SuperSteps
<1>5. UNCHANGED <<plane, server>>
  BY <1>u DEF server
<1>6. QED
  BY <1>p, <1>u, <1>e, <1>1, <1>2, <1>3, <1>4, <1>5, HandledFree

\* /me, whoever asked for it.
LEMMA MeFits ==
  ASSUME SessionInv, NEW c \in Calls, SettleMe(c)
  PROVE  SessionInv'
<1>i. /\ StateTypes /\ CallsType /\ PageFits /\ Unique /\ CallFits(call[c])
      /\ call[c].got \in Sessions \cup {None} /\ \A d \in Calls : CallFits(call[d])
  BY DEF SessionInv, CallsType, CallRec
<1>u. /\ UNCHANGED <<plane, challenge, rows, hasAdmin, userRef, attempt, setupRequired,
                     endedReason>>
      /\ call[c].op \in MeOps
      /\ user' = Refreshed(c) /\ initState' = InitAfter(c) /\ cookie' = JarAfter(c)
      /\ late' \in BOOLEAN /\ (~late' => ~late) /\ (late => late')
      /\ Overtaken(c) => late'
      /\ (call[c].op = "me_ping" /\ user = None) => late'
  BY <1>i DEF SettleMe, server, Answered, StateTypes
<1>v. /\ user' = (IF call[c].answer = "ok" THEN call[c].got ELSE None)
      /\ initState' = (IF call[c].op = "me_boot" THEN "ready" ELSE initState)
      /\ cookie' = (IF call[c].answer \in Reasons THEN None ELSE cookie)
  BY <1>u DEF Refreshed, InitAfter, JarAfter, Is
<1>p. PICK q \in Pages : /\ Handled(c, Free, q)
                        /\ q = IF call[c].op = "me_enter" THEN "console" ELSE page
  BY <1>i DEF SettleMe, Pages, StateTypes
<1>h. page' = q
  BY <1>p DEF Handled
<1>b. /\ call[c].op = "me_boot" => initState = "loading" /\ (plane = "admin" => hasAdmin)
      /\ Early => call[c].op = "me_boot" /\ call[c].got = None
      /\ Early' <=> Early
  BY <1>i, <1>u DEF CallFits, Starts, Quiet, BootOps, MeOps, Early
<1>1. StateTypes'
  BY <1>i, <1>u, <1>v, <1>h DEF StateTypes
<1>2. PageFits'
  <2>1. Issued(cookie)'
    BY <1>i, <1>u, <1>v DEF PageFits, Issued
  <2>2. (Early => /\ cookie = None /\ challenge = "none" /\ user = None
                  /\ page \notin SuperSteps \cup {"codesPage"})'
    BY <1>i, <1>u, <1>v, <1>p, <1>h, <1>b DEF PageFits
  <2>3. (page \in SuperSteps => plane = "admin" /\ initState = "ready" /\ (late \/ user = None))'
    <3>1. SUFFICES ASSUME q \in SuperSteps
                   PROVE  plane = "admin" /\ initState' = "ready" /\ (late' \/ user' = None)
      BY <1>h, <1>u
    <3>2. call[c].op # "me_enter" /\ q = page
      BY <1>p, <3>1 DEF SuperSteps
    <3>3. plane = "admin" /\ initState = "ready" /\ (late \/ user = None)
      BY <1>i, <3>1, <3>2 DEF PageFits
    <3>4. call[c].op = "me_ping"
      BY <1>u, <1>b, <3>2, <3>3 DEF MeOps
    <3>5. QED
      BY <1>u, <1>v, <3>3, <3>4
  <2>4. ((plane = "admin" /\ initState = "ready" /\ ~hasAdmin) => setupRequired)'
    BY <1>i, <1>u, <1>v, <1>b DEF PageFits
  <2>5. (setupRequired => plane = "admin")'
    BY <1>i, <1>u DEF PageFits
  <2>6. QED
    BY <2>1, <2>2, <2>3, <2>4, <2>5 DEF PageFits
<1>3. ScreenMatchesCookie'
  <2>1. CASE call[c].answer = "ok" /\ ~late'
    <3>1. call[c].got = call[c].sent
      BY <1>i, <1>u, <2>1 DEF CallFits, Asked
    <3>2. call[c].sent = cookie
      BY <1>u, <2>1 DEF Overtaken, Is
    <3>3. cookie' = cookie
      BY <1>v, <2>1 DEF Reasons
    <3>4. QED
      BY <1>v, <2>1, <3>1, <3>2, <3>3 DEF ScreenMatchesCookie
  <2>2. CASE call[c].answer # "ok"
    BY <1>v, <2>2 DEF ScreenMatchesCookie
  <2>3. CASE late'
    BY <2>3 DEF ScreenMatchesCookie
  <2>4. QED
    BY <2>1, <2>2, <2>3
<1>4. ASSUME NEW d \in Calls \ {c}
      PROVE  Undisturbed(d, q)
  <2>1. StaysPut(call[d]) /\ Starts(call[d]) /\ FormOn(call[d].form, page)
        /\ (call[d].op = "login" => call[d].form \in {None, "login"})
    BY <1>i DEF CallFits, Asked
  <2>2. call[d].op \in BootOps \cup SetupOps => initState' = initState
    <3>1. ~(call[c].op \in BootOps /\ call[d].op \in BootOps)
      BY <1>i DEF Unique
    <3>2. QED
      BY <1>v, <1>b, <2>1, <3>1 DEF Starts, BootOps
  <2>3. ~(~late /\ call[d].op \in SetupOps)
    <3>1. SUFFICES ASSUME ~late, call[d].op \in SetupOps PROVE FALSE
      OBVIOUS
    <3>2. initState = "ready" /\ Early
      BY <2>1, <3>1 DEF Starts, StaysPut, Early
    <3>3. QED
      BY <1>b, <3>2
  <2>4. (call[d].op = "login" /\ call[d].form # None /\ Component(q) = Component(page))
         => /\ initState' = initState /\ q \notin SuperSteps
            /\ ~late' => user' = None
    <3>1. SUFFICES ASSUME call[d].op = "login", call[d].form # None,
                          Component(q) = Component(page)
                   PROVE  /\ initState' = initState /\ q \notin SuperSteps
                          /\ ~late' => user' = None
      OBVIOUS
    <3>2. /\ Component(page) = "SuperLoginForm" /\ initState = "ready" /\ page \notin SuperSteps
          /\ (~late => user = None)
      BY <2>1, <3>1 DEF FormOn, StaysPut
    <3>3. Component("console") # "SuperLoginForm"
      BY DEF Component, SuperLoginScreens
    <3>4. call[c].op = "me_ping"
      BY <1>u, <1>p, <1>b, <3>1, <3>2, <3>3 DEF MeOps
    <3>5. QED
      BY <1>u, <1>v, <1>p, <3>2, <3>4
  <2>5. QED
    BY <1>u, <2>2, <2>3, <2>4 DEF Undisturbed
<1>5. UNCHANGED <<plane, server>>
  BY <1>u DEF server
<1>6. QED
  BY <1>p, <1>u, <1>b, <1>1, <1>2, <1>3, <1>4, <1>5, HandledFree

\* The setup status at startup.
LEMMA StatusFits ==
  ASSUME SessionInv, NEW c \in Calls, SettleStatus(c)
  PROVE  SessionInv'
<1>i. /\ StateTypes /\ CallsType /\ PageFits /\ Unique /\ CallFits(call[c])
      /\ cookie \in Sessions \cup {None} /\ \A d \in Calls : CallFits(call[d])
  BY DEF SessionInv, StateTypes
<1>u. /\ UNCHANGED <<plane, cookie, challenge, rows, hasAdmin, user, userRef, endedReason, late>>
      /\ call[c].op = "status"
  BY DEF SettleStatus, jar, server, Answered
<1>b. /\ plane = "admin" /\ initState = "loading"
      /\ call[c].answer = "done" => hasAdmin
      /\ call[c].answer = "needed" => ~hasAdmin
  BY <1>i, <1>u DEF CallFits, Starts, BootOps
<1>c. PICK next \in CallRec :
        /\ Handled(c, next, page)
        /\ \/ next = Free
           \/ /\ next.op = "me_boot" /\ next.form = None /\ next.answer = None /\ next.got = None
              /\ next.sent = cookie /\ setupRequired' = FALSE /\ initState' = initState
              /\ hasAdmin
  <2>1. "me_boot" \in Ops /\ "me_boot" \in CookieOps
    BY DEF Ops, CookieOps, MeOps
  <2>2. CASE Is(c, {"done"}) /\ setupRequired' = FALSE /\ UNCHANGED <<initState, attempt>>
             /\ Handled(c, Request("me_boot", None, cookie), page)
    <3>1. PICK n \in CallRec :
            /\ n = Request("me_boot", None, cookie) /\ n.op = "me_boot" /\ n.form = None
            /\ n.answer = None /\ n.got = None /\ n.sent = cookie
      BY <1>i, <2>1, RequestType
    <3>2. hasAdmin
      BY <1>b, <2>2 DEF Is
    <3>3. QED
      BY <2>2, <3>1, <3>2
  <2>3. CASE Handled(c, Free, page)
    BY <2>3, FreeType
  <2>4. QED
    BY <2>2, <2>3 DEF SettleStatus
<1>p. /\ initState' \in {"loading", "ready", "error"} /\ attempt' \in 0..InitRetries
      /\ setupRequired' \in BOOLEAN
      /\ initState' = "ready" => setupRequired' /\ ~hasAdmin
      /\ setupRequired' => setupRequired \/ ~hasAdmin
  <2>1. CASE Is(c, {"needed"}) /\ setupRequired' = TRUE /\ initState' = "ready" /\ UNCHANGED attempt
    BY <1>i, <1>b, <2>1 DEF StateTypes, Is
  <2>2. CASE Is(c, {"done"}) /\ setupRequired' = FALSE /\ UNCHANGED <<initState, attempt>>
    BY <1>i, <1>b, <2>2 DEF StateTypes
  <2>3. CASE initState' = "error" /\ UNCHANGED <<setupRequired, attempt>>
    BY <1>i, <1>b, <2>3 DEF StateTypes
  <2>4. CASE MayRetry /\ attempt' = attempt + 1 /\ UNCHANGED <<setupRequired, initState>>
    BY <1>i, <1>b, <2>4, Bounds DEF StateTypes, MayRetry
  <2>5. QED
    BY <2>1, <2>2, <2>3, <2>4 DEF SettleStatus
<1>h. page' = page
  BY <1>c DEF Handled
<1>e. Early' => Early
  BY <1>u, <1>b, <1>p DEF Early
<1>q. page \notin SuperSteps
  BY <1>i, <1>b DEF PageFits
<1>1. StateTypes'
  BY <1>i, <1>u, <1>p, <1>h DEF StateTypes
<1>2. PageFits'
  <2>1. Issued(cookie)' /\ (setupRequired => plane = "admin")'
    BY <1>i, <1>u, <1>b DEF PageFits, Issued
  <2>2. (Early => /\ cookie = None /\ challenge = "none" /\ user = None
                  /\ page \notin SuperSteps \cup {"codesPage"})'
    BY <1>i, <1>u, <1>h, <1>e DEF PageFits
  <2>3. QED
    BY <1>u, <1>p, <1>h, <1>q, <2>1, <2>2 DEF PageFits
<1>3. ScreenMatchesCookie'
  BY <1>c, <1>u, HandledScreen
<1>4. ASSUME NEW d \in Calls \ {c}
      PROVE  Undisturbed(d, page)
  <2>1. StaysPut(call[d]) /\ Starts(call[d]) /\ ~(call[c].op \in BootOps /\ call[d].op \in BootOps)
    BY <1>i DEF CallFits, Unique
  <2>2. call[d].op \notin BootOps \cup SetupOps
    BY <1>u, <1>b, <2>1 DEF Starts, BootOps
  <2>3. ~(call[d].op = "login" /\ call[d].form # None)
    BY <1>b, <2>1 DEF StaysPut
  <2>4. QED
    BY <2>2, <2>3 DEF Undisturbed
<1>5. UNCHANGED <<plane, server>> /\ (~late' => ~late)
  BY <1>u DEF server
<1>6. CASE next = Free
  <2>1. Handled(c, Free, page)
    BY <1>c, <1>6
  <2>2. QED
    BY <1>e, <1>1, <1>2, <1>3, <1>4, <1>5, <2>1, HandledFree
<1>7. CASE /\ next.op = "me_boot" /\ next.form = None /\ next.answer = None /\ next.got = None
           /\ next.sent = cookie /\ setupRequired' = FALSE /\ initState' = initState
           /\ hasAdmin
  <2>n. None \notin Answers /\ None \notin Forms
    BY NoneApart
  <2>1. Moved(call'[c], next, page)
    BY <1>i, <1>c, HandledMoves
  <2>2. CallFits(call[c])'
    <3>1. Asked(call[c])'
      BY <1>i, <1>u, <1>7, <2>1, <2>n DEF Moved, Same, Asked, Issued, PageFits, Answers
    <3>2. FormOn(call[c].form, page)'
      BY <1>7, <2>1, <2>n DEF Moved, FormOn, Forms
    <3>3. Starts(call[c])'
      BY <1>u, <1>b, <1>7, <2>1 DEF Moved, Same, Starts, SetupOps
    <3>4. ~Early'
      BY <1>u, <1>7 DEF Early
    <3>5. StaysPut(call[c])'
      BY <1>7, <2>1 DEF Moved, Same, StaysPut, SetupOps
    <3>6. QED
      BY <3>1, <3>2, <3>3, <3>4, <3>5 DEF CallFits
  <2>3. next.form \in {call[c].form, None} /\ (next.op \in BootOps => call[c].op \in BootOps)
    BY <1>7, <1>u DEF BootOps
  <2>4. QED
    BY <1>c, <1>e, <1>1, <1>2, <1>3, <1>4, <1>5, <2>2, <2>3, HandledFits
<1>8. QED
  BY <1>c, <1>6, <1>7

LEMMA SettleSteps ==
  ASSUME SessionInv, NEW c \in Calls, Settle(c)
  PROVE  SessionInv'
  BY StatusFits, MeFits, SignedInFits, ContinuesFits, LoginFailsFits, VerifyFailsFits, EnrolFits,
     SetupFits, StatusAfterFits, ConsoleFits, LogoutFits DEF Settle

-----------------------------------------------------------------------------
(* The steps that handle no reply *)

LEMMA LeftFits ==
  ASSUME SessionInv, CallsType', \A d \in Calls : Moved(call'[d], call[d], page'),
         \A d \in Calls : Undisturbed(d, page'),
         UNCHANGED <<plane, cookie, hasAdmin, user, late>>, Early' => Early,
         \A s \in Sessions : rows'[s] = "unused" => rows[s] = "unused",
         StateTypes', PageFits'
  PROVE  SessionInv'
<1>i. Unique /\ ScreenMatchesCookie
  BY DEF SessionInv
<1>1. ASSUME NEW d \in Calls
      PROVE  CallFits(call[d])'
  BY OthersFit
<1>2. Unique'
  <2>1. \A d \in Calls : call'[d].form \in {call[d].form, None}
    BY DEF Moved
  <2>2. \A d \in Calls : call'[d].op \in BootOps => call[d].op \in BootOps
    BY DEF Moved, Same
  <2>3. QED
    BY <1>i, <2>1, <2>2, UniqueStays
<1>3. ScreenMatchesCookie'
  <2>1. \A e \in Calls : (call[e].op = "me_enter" /\ call[e].sent = cookie)
                         => call'[e].op = "me_enter" /\ call'[e].sent = cookie
    BY DEF Moved, Same
  <2>2. QED
    BY <1>i, <2>1, ScreenStays
<1>4. QED
  BY <1>1, <1>2, <1>3 DEF SessionInv

LEMMA EffectsFit ==
  ASSUME SessionInv, RunEffects
  PROVE  SessionInv'
<1>i. StateTypes /\ CallsType /\ PageFits /\ \A d \in Calls : CallFits(call[d])
  BY DEF SessionInv
<1>u. /\ UNCHANGED <<plane, cookie, challenge, rows, hasAdmin, user, initState, attempt,
                     setupRequired, endedReason, late>>
      /\ userRef' = user /\ page' = Routed
  BY DEF RunEffects, jar, server, startup
<1>m. CallsType' /\ \A d \in Calls : Moved(call'[d], call[d], page')
  <2>1. call' = IF Component(Routed) = Component(page) THEN call
                ELSE [d \in Calls |-> [call[d] EXCEPT !.form = None]]
    BY DEF RunEffects
  <2>2. QED
    BY <1>i, <1>u, <2>1, LeftMoves
<1>r. Routed \in {page, "login", "setup", "console"} /\ Routed \in Pages
  BY <1>i DEF Routed, StateTypes, Pages, SuperLoginScreens
<1>1. StateTypes'
  BY <1>i, <1>u, <1>r DEF StateTypes
<1>2. PageFits'
  BY <1>i, <1>u, <1>r DEF PageFits, Issued, Early, SuperSteps
<1>3. ASSUME NEW d \in Calls
      PROVE  Undisturbed(d, page')
  <2>1. StaysPut(call[d]) /\ Starts(call[d])
    BY <1>i DEF CallFits
  <2>2. (~late /\ call[d].op \in SetupOps) => Routed = page /\ setupRequired
    BY <2>1 DEF StaysPut, Starts, Routed
  <2>3. QED
    BY <1>u, <1>r, <2>1, <2>2 DEF Undisturbed, StaysPut, SuperSteps
<1>4. (Early' => Early) /\ \A s \in Sessions : rows'[s] = "unused" => rows[s] = "unused"
  BY <1>u DEF Early
<1>5. QED
  BY <1>u, <1>m, <1>1, <1>2, <1>3, <1>4, LeftFits

LEMMA BackFits ==
  ASSUME SessionInv, BackToSignIn
  PROVE  SessionInv'
<1>i. StateTypes /\ CallsType /\ PageFits /\ \A d \in Calls : CallFits(call[d])
  BY DEF SessionInv
<1>u. /\ UNCHANGED <<plane, cookie, challenge, rows, hasAdmin, user, userRef, initState, attempt,
                     setupRequired, endedReason, late>>
      /\ page' = "login" /\ page \in {"mfa", "enrol", "mfaPage"}
  BY DEF BackToSignIn, jar, server, startup
<1>m. CallsType' /\ \A d \in Calls : Moved(call'[d], call[d], page')
  <2>1. Component("login") = Component(page) <=> page # "mfaPage"
    BY <1>u DEF Component, SuperLoginScreens
  <2>2. call' = IF Component("login") = Component(page) THEN call
                ELSE [d \in Calls |-> [call[d] EXCEPT !.form = None]]
    BY <2>1 DEF BackToSignIn
  <2>3. QED
    BY <1>i, <1>u, <2>2, LeftMoves
<1>1. StateTypes'
  BY <1>i, <1>u DEF StateTypes, Pages, SuperLoginScreens
<1>2. PageFits'
  BY <1>i, <1>u DEF PageFits, Issued, Early, SuperSteps
<1>3. ASSUME NEW d \in Calls
      PROVE  Undisturbed(d, page')
  <2>1. StaysPut(call[d])
    BY <1>i DEF CallFits
  <2>2. QED
    BY <1>u, <2>1 DEF Undisturbed, StaysPut, SuperSteps
<1>4. (Early' => Early) /\ \A s \in Sessions : rows'[s] = "unused" => rows[s] = "unused"
  BY <1>u DEF Early
<1>5. QED
  BY <1>u, <1>m, <1>1, <1>2, <1>3, <1>4, LeftFits

\* "Try again", and a session that ends without the page knowing.
LEMMA RestFits ==
  ASSUME SessionInv, \/ RetryInit
                     \/ \E s \in Sessions, why \in Endings : EndSession(s, why)
  PROVE  SessionInv'
<1>i. StateTypes /\ CallsType /\ PageFits /\ \A d \in Calls : CallFits(call[d])
  BY DEF SessionInv
<1>u. /\ UNCHANGED <<plane, cookie, challenge, hasAdmin, user, userRef, setupRequired,
                     endedReason, page, call, late>>
      /\ \/ UNCHANGED <<initState, attempt>>
         \/ initState = "error" /\ initState' = "loading" /\ attempt' = 0
  BY DEF RetryInit, EndSession, jar, server, startup
<1>r. /\ rows' \in [Sessions -> {"unused", "live"} \cup Reasons]
      /\ \A s \in Sessions : rows'[s] = "unused" => rows[s] = "unused"
  <2>1. CASE RetryInit
    BY <1>i, <2>1 DEF RetryInit, server, StateTypes
  <2>2. ASSUME NEW s \in Sessions, NEW why \in Endings, EndSession(s, why)
        PROVE  /\ rows' \in [Sessions -> {"unused", "live"} \cup Reasons]
               /\ \A t \in Sessions : rows'[t] = "unused" => rows[t] = "unused"
    <3>1. why \in Reasons /\ why # "unused"
      BY EndingsKnown DEF Reasons
    <3>2. QED
      BY <1>i, <2>2, <3>1 DEF EndSession, StateTypes
  <2>3. QED
    BY <2>1, <2>2
<1>1. StateTypes'
  BY <1>i, <1>u, <1>r, Bounds DEF StateTypes
<1>2. PageFits'
  <2>1. Issued(cookie)'
    BY <1>i, <1>u, <1>r DEF PageFits, StateTypes, Issued
  <2>2. Early' <=> Early
    BY <1>u DEF Early
  <2>3. QED
    BY <1>i, <1>u, <2>1, <2>2 DEF PageFits
<1>3. CallsType' /\ \A d \in Calls : Moved(call'[d], call[d], page')
  BY <1>i, <1>u DEF CallsType, Moved, Same
<1>4. ASSUME NEW d \in Calls
      PROVE  Undisturbed(d, page')
  <2>1. StaysPut(call[d]) /\ Starts(call[d])
    BY <1>i DEF CallFits
  <2>2. QED
    BY <1>u, <2>1 DEF Undisturbed, StaysPut, Starts
<1>5. Early' => Early
  BY <1>u DEF Early
<1>6. QED
  BY <1>u, <1>r, <1>1, <1>2, <1>3, <1>4, <1>5, LeftFits

\* A page that has just been loaded, or that loads for the first time.
LEMMA AllFreed ==
  ASSUME call' = [c \in Calls |-> Free]
  PROVE  CallsType' /\ Unique' /\ \A c \in Calls : CallFits(call[c])'
<1>1. ASSUME NEW c \in Calls
      PROVE  CallFits(call[c])'
  <2>1. /\ call'[c].op = None /\ call'[c].sent = None /\ call'[c].form = None
        /\ call'[c].answer = None /\ call'[c].got = None
    BY FreeType
  <2>2. QED
    BY <2>1, FreedFits
<1>2. CallsType'
  BY FreeType DEF CallsType
<1>3. Unique'
  <2>1. \A c \in Calls : call'[c].form = None /\ call'[c].op = None
    BY FreeType
  <2>2. None \notin BootOps
    BY NoneApart DEF BootOps, Ops, CookieOps, MeOps
  <2>3. QED
    BY <2>1, <2>2 DEF Unique
<1>4. QED
  BY <1>1, <1>2, <1>3

LEMMA LoadFits ==
  ASSUME SessionInv,
         \/ \E s \in Sessions : ProviderSignIn(s)
         \/ \E q \in Pages : Visit(q)
  PROVE  SessionInv'
<1>i. StateTypes /\ PageFits
  BY DEF SessionInv
<1>l. PICK q \in Pages : Load(q) /\ q \notin SuperSteps \cup {"codesPage"}
  <2>1. "console" \in Pages /\ "console" \notin SuperSteps
    BY DEF Pages, SuperSteps
  <2>2. \A q \in Routes : q \notin SuperSteps \cup {"codesPage"}
    BY DEF Routes, SuperSteps
  <2>3. QED
    BY <2>1, <2>2 DEF ProviderSignIn, Visit
<1>u. /\ user' = None /\ userRef' = None /\ endedReason' = None
      /\ initState' = "loading" /\ attempt' = 0 /\ setupRequired' = FALSE
      /\ call' = [c \in Calls |-> Free] /\ page' = q /\ late' = FALSE
  BY <1>l DEF Load
<1>v. /\ UNCHANGED <<plane, challenge, hasAdmin>>
      /\ \/ UNCHANGED <<cookie, rows>>
         \/ /\ plane = "customer"
            /\ \E s \in Sessions : rows' = [rows EXCEPT ![s] = "live"] /\ cookie' = s
  BY DEF ProviderSignIn, Visit, jar, server
<1>1. StateTypes'
  <2>1. /\ cookie' \in Sessions \cup {None}
        /\ rows' \in [Sessions -> {"unused", "live"} \cup Reasons]
    BY <1>i, <1>v DEF StateTypes
  <2>2. attempt' \in 0..InitRetries
    BY <1>u, Bounds
  <2>3. /\ plane' \in {"admin", "customer"} /\ challenge' \in {"none", "verify", "enrol"}
        /\ hasAdmin' \in BOOLEAN
    BY <1>i, <1>v DEF StateTypes
  <2>4. QED
    BY <1>u, <2>1, <2>2, <2>3 DEF StateTypes
<1>2. PageFits'
  <2>1. Issued(cookie)'
    BY <1>i, <1>v DEF PageFits, StateTypes, Issued
  <2>2. (Early => /\ cookie = None /\ challenge = "none" /\ user = None
                  /\ page \notin SuperSteps \cup {"codesPage"})'
    BY <1>i, <1>l, <1>u, <1>v DEF PageFits, Early
  <2>3. QED
    BY <1>l, <1>u, <2>1, <2>2 DEF PageFits
<1>3. ScreenMatchesCookie'
  BY <1>u DEF ScreenMatchesCookie
<1>4. QED
  BY <1>u, <1>1, <1>2, <1>3, AllFreed DEF SessionInv

LEMMA SessionStarts == Init => SessionInv
<1> SUFFICES ASSUME Init PROVE SessionInv
  OBVIOUS
<1>r. Routes \subseteq {"login", "mfaPage", "enrolPage", "console", "setup"}
  BY DEF Routes
<1>1. /\ call = [c \in Calls |-> Free] /\ rows = [s \in Sessions |-> "unused"]
      /\ cookie = None /\ challenge = "none" /\ user = None /\ userRef = None
      /\ endedReason = None /\ initState = "loading" /\ attempt = 0
      /\ setupRequired = FALSE /\ late = FALSE /\ plane \in {"admin", "customer"}
  BY DEF Init
<1>h. hasAdmin \in BOOLEAN
  BY DEF Init
<1>p. page \in Pages /\ page \notin SuperSteps \cup {"codesPage"}
  <2>1. page \in Routes
    BY DEF Init
  <2>2. page \in {"login", "mfaPage", "enrolPage", "console", "setup"}
    BY <1>r, <2>1
  <2>3. QED
    BY <2>2 DEF Pages, SuperLoginScreens, SuperSteps
<1>2. StateTypes
  <2>1. rows \in [Sessions -> {"unused", "live"} \cup Reasons]
    BY <1>1
  <2>2. attempt \in 0..InitRetries
    BY <1>1, Bounds
  <2>3. /\ late \in BOOLEAN /\ setupRequired \in BOOLEAN
        /\ challenge \in {"none", "verify", "enrol"}
        /\ initState \in {"loading", "ready", "error"}
    BY <1>1
  <2>4. QED
    BY <1>1, <1>h, <1>p, <2>1, <2>2, <2>3 DEF StateTypes
<1>3. PageFits
  BY <1>1, <1>p DEF PageFits, Issued
<1>4. ScreenMatchesCookie
  BY <1>1 DEF ScreenMatchesCookie
<1>n. None \notin Ops /\ None \notin Forms /\ None \notin Answers
  BY NoneApart
<1>5. ASSUME NEW c \in Calls
      PROVE  CallFits(call[c])
  <2>1. /\ call[c].op = None /\ call[c].sent = None /\ call[c].form = None
        /\ call[c].answer = None /\ call[c].got = None
    BY <1>1, FreeType
  <2>2. Asked(call[c]) /\ FormOn(call[c].form, page)
    BY <1>n, <2>1 DEF Asked, Issued, FormOn, Ops, CookieOps, MeOps, Forms
  <2>3. Starts(call[c])
    BY <1>n, <2>1 DEF Starts, Ops, CookieOps, MeOps, BootOps, SetupOps
  <2>4. Quiet(call[c]) /\ StaysPut(call[c])
    BY <1>n, <2>1 DEF Quiet, StaysPut, Ops, CookieOps, MeOps, SetupOps, Answers
  <2>5. QED
    BY <2>2, <2>3, <2>4 DEF CallFits
<1>6. CallsType
  BY <1>1, FreeType DEF CallsType
<1>7. Unique
  <2>1. \A c \in Calls : call[c].form = None /\ call[c].op = None
    BY <1>1, FreeType
  <2>2. None \notin BootOps
    BY NoneApart DEF BootOps, Ops, CookieOps, MeOps
  <2>3. QED
    BY <2>1, <2>2 DEF Unique
<1>8. QED
  BY <1>2, <1>3, <1>4, <1>5, <1>6, <1>7 DEF SessionInv

LEMMA SessionStep == SessionInv /\ [Next]_vars => SessionInv'
<1> SUFFICES ASSUME SessionInv, [Next]_vars PROVE SessionInv'
  OBVIOUS
<1>1. CASE UNCHANGED vars
  <2>1. /\ StateTypes' /\ CallsType' /\ Unique' /\ PageFits' /\ ScreenMatchesCookie'
    BY <1>1 DEF vars, SessionInv, StateTypes, CallsType, Unique, PageFits, Issued, Early,
                ScreenMatchesCookie
  <2>2. ASSUME NEW c \in Calls
        PROVE  CallFits(call[c])'
    <3>1. CallFits(call[c])
      BY DEF SessionInv
    <3>2. QED
      BY <1>1, <3>1 DEF vars, CallFits, Asked, Issued, FormOn, Starts, Early, Quiet, StaysPut
  <2>3. QED
    BY <2>1, <2>2 DEF SessionInv
<1>2. ASSUME NEW c \in Calls, StartAttempt(c) \/ Settle(c) \/ Serve(c) \/ Lose(c)
      PROVE  SessionInv'
  BY <1>2, StartSends, SettleSteps, AnswerSteps
<1>3. ASSUME EffectsRan, NEW c \in Calls, Event(c)
      PROVE  SessionInv'
  BY <1>3, FormSends, PlainSends DEF Event
<1>4. QED
  BY <1>1, <1>2, <1>3, EffectsFit, BackFits, RestFits, LoadFits DEF Next

LEMMA SessionInvariant == Spec => []SessionInv
  BY SessionStarts, SessionStep, PTL DEF Spec

\* Every call, and the page, have their types.
THEOREM SessionTypeCorrect == Spec => []TypeOK
<1>1. SessionInv => TypeOK
  BY DEF SessionInv, StateTypes, CallsType, CallRec, TypeOK
<1>2. QED
  BY <1>1, SessionInvariant, PTL

\* Whoever the screen shows is whoever the cookie would act as, until a reply
\* given to an earlier cookie is believed, for any number of overlapping calls.
THEOREM ScreenFollowsCookie == Spec => []ScreenMatchesCookie
<1>1. SessionInv => ScreenMatchesCookie
  BY DEF SessionInv
<1>2. QED
  BY <1>1, SessionInvariant, PTL

-----------------------------------------------------------------------------
(* The recovery codes *)

\* The replies, the effects and the loads that can take the codes away.
LEMMA CodesStep ==
  ASSUME SessionInv, Next, page \in CodesPages, page' \notin CodesPages
  PROVE  LeftOnPurpose
<1>i. StateTypes /\ PageFits /\ \A d \in Calls : CallFits(call[d])
  BY DEF SessionInv
<1>p. /\ page \in {"codes", "codesPage"} /\ page' # page
      /\ page = "codes" => /\ page \in SuperSteps /\ plane = "admin" /\ initState = "ready"
                           /\ late \/ user = None
  BY <1>i DEF CodesPages, PageFits, SuperSteps
<1>e. ~Early
  BY <1>i, <1>p DEF PageFits
<1>s. page = "codes" => ~setupRequired
  BY <1>p, <1>e DEF Early
<1>1. ASSUME RunEffects
      PROVE  LeftOnPurpose
  <2>1. page' = Routed /\ late' = late /\ late \in BOOLEAN
    BY <1>i, <1>1 DEF RunEffects, StateTypes
  <2>2. page = "codes" => user # None
    BY <1>p, <1>s, <2>1 DEF Routed
  <2>3. page = "codes"
    BY <1>p, <2>1 DEF Routed
  <2>4. QED
    BY <1>p, <2>1, <2>2, <2>3 DEF LeftOnPurpose
<1>2. ASSUME NEW c \in Calls, Settle(c)
      PROVE  LeftOnPurpose
  <2>f. CallFits(call[c]) /\ FormOn(call[c].form, page) /\ StaysPut(call[c])
    BY <1>i DEF CallFits
  <2>l. page = "codesPage" => call[c].form \notin {"login", "mfa"}
    BY <2>f DEF FormOn, Component, SuperLoginScreens
  <2>1. CASE SettleStatus(c)
    BY <1>p, <2>1 DEF SettleStatus, Handled
  <2>2. CASE SettleMe(c)
    <3>1. call[c].op = "me_enter"
      BY <1>p, <2>2 DEF SettleMe, Handled
    <3>2. call[c].form # "enrol"
      BY <2>f, <3>1 DEF CallFits, Asked
    <3>3. QED
      BY <3>1, <3>2 DEF LeftOnPurpose
  <2>3. CASE SettleSignedIn(c) \/ LoginFails(c) \/ SettleSetup(c) \/ SettleConsole(c)
    BY <1>p, <2>3 DEF SettleSignedIn, LoginFails, SettleSetup, SettleConsole, Handled
  <2>4. CASE LoginContinues(c)
    <3>1. plane = "customer" /\ call[c].op = "login" /\ late' = (late \/ call[c].form = None)
      BY <2>4 DEF LoginContinues, Answered
    <3>2. page = "codesPage"
      BY <1>p, <3>1
    <3>3. call[c].form = None
      BY <2>f, <2>l, <3>1, <3>2 DEF CallFits, Asked
    <3>4. QED
      BY <3>1, <3>3 DEF LeftOnPurpose
  <2>5. CASE SuperLoginContinues(c)
    <3>1. call[c].op = "login" /\ (call[c].form = None => page' = page)
      BY <2>5 DEF SuperLoginContinues, Answered, Handled
    <3>2. call[c].form \in {None, "login"}
      BY <2>f, <3>1 DEF CallFits, Asked
    <3>3. call[c].form = None
      BY <1>p, <2>f, <2>l, <3>1, <3>2 DEF StaysPut
    <3>4. QED
      BY <1>p, <3>1, <3>3
  <2>6. CASE VerifyFails(c)
    <3>1. /\ call[c].op = "mfa"
          /\ late' = (late \/ (Is(c, {"gone"}) /\ call[c].form = None))
          /\ page' # page => Is(c, {"gone"}) /\ ~(page \in SuperLoginScreens /\ page # "mfa")
      BY <2>6 DEF VerifyFails, Answered, Handled
    <3>2. page = "codesPage" /\ Is(c, {"gone"})
      BY <1>p, <3>1 DEF SuperLoginScreens
    <3>3. call[c].form = None
      BY <2>f, <2>l, <3>1, <3>2 DEF CallFits, Asked
    <3>4. QED
      BY <3>1, <3>2, <3>3 DEF LeftOnPurpose
  <2>7. CASE SettleEnrol(c)
    <3>1. page' = page
      BY <1>p, <2>7 DEF SettleEnrol, Handled
    <3>2. QED
      BY <1>p, <3>1
  <2>8. CASE SettleStatusAfter(c)
    <3>1. call[c].op = "status_after" /\ late' = late /\ late \in BOOLEAN
      BY <1>i, <2>8 DEF SettleStatusAfter, Answered, StateTypes
    <3>2. late
      BY <1>p, <2>f, <3>1 DEF StaysPut, SetupOps
    <3>3. QED
      BY <3>1, <3>2 DEF LeftOnPurpose
  <2>9. CASE SettleLogout(c)
    BY <2>9 DEF SettleLogout, Answered, LeftOnPurpose
  <2>10. QED
    BY <1>2, <2>1, <2>2, <2>3, <2>4, <2>5, <2>6, <2>7, <2>8, <2>9 DEF Settle
<1>3. ASSUME NEW c \in Calls, StartAttempt(c) \/ Serve(c) \/ Lose(c)
      PROVE  page' = page
  <2>1. CASE StartAttempt(c) \/ Lose(c)
    BY <2>1 DEF StartAttempt, Lose
  <2>2. CASE ServeGuarded(c)
    BY <2>2 DEF ServeGuarded, Answer
  <2>3. CASE ServeLogin(c) \/ ServeMfa(c) \/ ServeEnrol(c) \/ ServeSetup(c)
    BY <2>3 DEF ServeLogin, ServeMfa, ServeEnrol, ServeSetup, Issue, Answer
  <2>4. QED
    BY <1>3, <2>1, <2>2, <2>3 DEF Serve
<1>4. ASSUME NEW c \in Calls, Event(c)
      PROVE  page' = page
  BY <1>4 DEF Event, LoginForm, SuperLoginForm, SuperMfaForm, SuperMfaChallengePage,
              CustomerMfaChallengePage, VerifyForm, SuperEnrolForm, SuperMfaEnrollPage,
              CustomerMfaEnrollPage, EnrolForm, FinishEnrol, SuperSetupForm, UseConsole,
              ActivityPing, StaySignedIn, SuperSignOut, PersonalSignOut, InConsole, Submit
<1>5. ASSUME RetryInit \/ \E s \in Sessions, why \in Endings : EndSession(s, why)
      PROVE  page' = page
  BY <1>5 DEF RetryInit, EndSession
<1>6. ASSUME \/ \E s \in Sessions : ProviderSignIn(s)
             \/ \E q \in Pages : Visit(q)
      PROVE  LeftOnPurpose
  BY <1>6 DEF ProviderSignIn, Visit, Load, LeftOnPurpose
<1>7. ~BackToSignIn
  BY <1>p DEF BackToSignIn
<1>8. QED
  BY <1>p, <1>1, <1>2, <1>3, <1>4, <1>5, <1>6, <1>7 DEF Next

\* The recovery codes of a sign-in enrolment leave the screen by the user's
\* continue, another sign-in, a sign-out, a reload or a late reply, never
\* because the session came up first.
THEOREM CodesStayOnScreen == Spec => CodesLeftOnPurpose
<1>1. SessionInv /\ [Next]_vars
        => [(page \in CodesPages /\ page' \notin CodesPages) => LeftOnPurpose]_vars
  BY CodesStep
<1>2. QED
  BY <1>1, SessionInvariant, PTL DEF Spec, CodesLeftOnPurpose
=============================================================================
