------------------------------ MODULE Sessions ------------------------------
(***************************************************************************)
(* The life of the sessions of one browser: issued, looked up and touched  *)
(* by overlapping requests, renewed, idled out, expired, revoked; and the  *)
(* cookie that carries them.  Times are in clock units; a request reads    *)
(* the clock again at each of its steps, as the code does.                 *)
(***************************************************************************)
EXTENDS Integers

CONSTANTS Sessions,   \* rows of the plane's sessions table
          Requests,   \* requests in flight at once
          Absolute, Idle, RenewWithin,  \* SessionPolicy
          Touch,      \* touchInterval
          MaxTime,    \* bound: the clock stops here
          MaxStall,   \* bound: how long a request takes from lookup to answer
          None        \* "no cookie"

Bounds == /\ Absolute \in Nat \ {0} /\ Idle \in Nat \ {0}
          /\ RenewWithin \in 0..Absolute /\ Touch \in Nat \ {0}
          /\ MaxTime \in Nat /\ MaxStall \in Nat
          /\ None \notin Sessions

VARIABLES now,   \* wall clock
          rows,  \* the sessions table, and two pieces of history: when a
                 \* request was last accepted on the session (used), and whether
                 \* a touch failed that no later one made good (missed)
          jar,   \* the browser's session cookie and when it drops it
          req    \* requests in flight, with the Principal they loaded

vars == <<now, rows, jar, req>>

-----------------------------------------------------------------------------
Time == 0..MaxTime
Horizon == 0..(MaxTime + Absolute)

Row == [state : {"absent", "live", "revoked"}, issued : Time, expires : Horizon,
        activity : Time, used : Time, missed : BOOLEAN]

Request == [at : {"idle", "sent", "read", "accepted", "touching", "ok", "refused"},
            sess : Sessions \cup {None}, begun : Time, live : BOOLEAN,
            expires : Horizon, activity : Time, stamp : Time, renew : BOOLEAN]

NoRow == [state |-> "absent", issued |-> 0, expires |-> 0, activity |-> 0, used |-> 0,
          missed |-> FALSE]

Quiet == [at |-> "idle", sess |-> None, begun |-> 0, live |-> FALSE, expires |-> 0,
          activity |-> 0, stamp |-> 0, renew |-> FALSE]

Empty == [sess |-> None, until |-> 0]

TypeOK == /\ now \in Time
          /\ rows \in [Sessions -> Row]
          /\ jar \in [sess : Sessions \cup {None}, until : Horizon]
          /\ req \in [Requests -> Request]

Init == /\ now = 0
        /\ rows = [s \in Sessions |-> NoRow]
        /\ jar = Empty
        /\ req = [r \in Requests |-> Quiet]

-----------------------------------------------------------------------------
\* IssueSession and SetSessionCookies: the cookie's MaxAge is the lifetime.
SignIn(s) ==
    /\ rows[s].state = "absent"
    /\ rows' = [rows EXCEPT ![s] =
          [state |-> "live", issued |-> now, expires |-> now + Absolute,
           activity |-> now, used |-> now, missed |-> FALSE]]
    /\ jar' = [sess |-> s, until |-> now + Absolute]
    /\ UNCHANGED <<now, req>>

\* The browser attaches the cookie it holds.
Send(r) ==
    /\ req[r].at = "idle"
    /\ jar.sess # None /\ now < jar.until
    /\ req' = [req EXCEPT ![r] = [Quiet EXCEPT !.at = "sent", !.sess = jar.sess]]
    /\ UNCHANGED <<now, rows, jar>>

\* LookupSession's query.
Lookup(r) ==
    /\ req[r].at = "sent"
    /\ LET row == rows[req[r].sess]
       IN  req' = [req EXCEPT ![r].at = "read", ![r].begun = now,
                       ![r].live = (row.state = "live"),
                       ![r].expires = row.expires, ![r].activity = row.activity]
    /\ UNCHANGED <<now, rows, jar>>

\* The query fails, or the account is no longer ACTIVE.
LookupFails(r) ==
    /\ req[r].at = "sent"
    /\ req' = [req EXCEPT ![r].at = "refused", ![r].begun = now]
    /\ UNCHANGED <<now, rows, jar>>

\* Mutant: only the absolute expiry is enforced.
AcceptableIgnoringIdle(p) == p.live /\ p.expires > now

\* The checks of LookupSession, against the clock read after the query.
Acceptable(p) == p.live /\ p.expires > now /\ p.activity + Idle > now

Accept(r) ==
    /\ req[r].at = "read" /\ Acceptable(req[r])
    /\ rows' = [rows EXCEPT ![req[r].sess].used = now]
    /\ req' = [req EXCEPT ![r].at = "accepted"]
    /\ UNCHANGED <<now, jar>>

RefuseDead(r) ==
    /\ req[r].at = "read" /\ ~Acceptable(req[r])
    /\ req' = [req EXCEPT ![r].at = "refused"]
    /\ UNCHANGED <<now, rows, jar>>

\* Mutant: the renewal test is dropped with the throttled write.
RenewsNever(p) == FALSE

\* TouchSession renews a session used this close to its expiry.
Renews(p) == RenewWithin > 0 /\ p.expires - now < RenewWithin

\* Mutant: the interval is taken for minutes.
RecentlyTouchedMinutes(p) == now - p.activity < 60 * Touch

RecentlyTouched(p) == now - p.activity < Touch

DecideTouch(r) ==
    /\ req[r].at = "accepted"
    /\ IF RecentlyTouched(req[r]) THEN req' = [req EXCEPT ![r].at = "ok"]
       ELSE req' = [req EXCEPT ![r].at = "touching", ![r].stamp = now,
                               ![r].renew = Renews(req[r])]
    /\ UNCHANGED <<now, rows, jar>>

\* UPDATE ... WHERE id = $1 AND revoked_at IS NULL, with the stamp of before.
TouchSession(r) ==
    /\ req[r].at = "touching"
    /\ LET s == req[r].sess
           touched == [rows[s] EXCEPT !.activity = req[r].stamp,
                          !.missed = @ /\ rows[s].used > req[r].stamp,
                          !.expires = IF req[r].renew THEN req[r].stamp + Absolute ELSE @]
       IN  rows' = [rows EXCEPT ![s] = IF rows[s].state = "live" THEN touched ELSE @]
    /\ req' = [req EXCEPT ![r].at = "ok"]
    /\ UNCHANGED <<now, jar>>

\* "A failed bump must not fail the request it accompanies."
TouchFails(r) ==
    /\ req[r].at = "touching"
    /\ rows' = [rows EXCEPT ![req[r].sess].missed = TRUE]
    /\ req' = [req EXCEPT ![r].at = "ok"]
    /\ UNCHANGED <<now, jar>>

\* The admin plane resolves the role grants after the touch, and an error
\* there is answered like a missing session.
ResolveGrantsFails(r) ==
    /\ req[r].at = "ok"
    /\ req' = [req EXCEPT ![r].at = "refused"]
    /\ UNCHANGED <<now, rows, jar>>

Answer(r) ==
    /\ req[r].at = "ok"
    /\ req' = [req EXCEPT ![r] = Quiet]
    /\ UNCHANGED <<now, rows, jar>>

\* 401: RequireSession tells the browser to drop the cookie of that name.
AnswerUnauthorized(r) ==
    /\ req[r].at = "refused"
    /\ jar' = Empty
    /\ req' = [req EXCEPT ![r] = Quiet]
    /\ UNCHANGED <<now, rows>>

\* A sign-out, a password change or an operator ends the row.
RevokeSession(s) ==
    /\ rows[s].state = "live"
    /\ rows' = [rows EXCEPT ![s].state = "revoked"]
    /\ jar' \in {jar} \cup (IF jar.sess = s THEN {Empty} ELSE {})
    /\ UNCHANGED <<now, req>>

\* MaxStall is an assumption on the machine: the server sets no deadline.
Tick ==
    /\ now < MaxTime
    /\ \A r \in Requests : req[r].at \notin {"idle", "sent"} => now - req[r].begun < MaxStall
    /\ now' = now + 1
    /\ UNCHANGED <<rows, jar, req>>

Next == \/ \E s \in Sessions : SignIn(s) \/ RevokeSession(s)
        \/ \E r \in Requests :
              \/ Send(r) \/ Lookup(r) \/ LookupFails(r) \/ Accept(r) \/ RefuseDead(r)
              \/ DecideTouch(r) \/ TouchSession(r) \/ TouchFails(r)
              \/ ResolveGrantsFails(r)
              \/ Answer(r) \/ AnswerUnauthorized(r)
        \/ Tick

Spec == Init /\ [][Next]_vars

-----------------------------------------------------------------------------
(* Properties.                                                             *)

InFlight(s) == \E r \in Requests : req[r].sess = s /\ req[r].at \notin {"idle", "sent"}

Live(s) == rows[s].state = "live"

\* "Idle expiry is accurate to within one interval": as long as no touch failed
\* that a later one has not made good, the recorded activity of a session is at
\* most one interval, and the time a request takes, behind its last use, however
\* its requests overlap.
IdleAccurate ==
    \A s \in Sessions :
        (Live(s) /\ ~InFlight(s) /\ ~rows[s].missed)
            => rows[s].used <= rows[s].activity + Touch + MaxStall

\* Renewal does its work in the table: under the same condition the row of a
\* session outlives its last use by the renewal window, less the accuracy of
\* the activity time.
RowOutlivesUse ==
    \A s \in Sessions :
        (Live(s) /\ ~InFlight(s) /\ ~rows[s].missed)
            => rows[s].expires + Touch + MaxStall > rows[s].used + RenewWithin

\* "IdleMinutes ends a session that has gone quiet": no session is used again
\* once it has been quiet for the idle time and a request's duration.
QuietSessionEnds ==
    \A s \in Sessions :
       (Live(s) /\ rows'[s].used # rows[s].used)
           => rows'[s].used < rows[s].used + Idle + MaxStall

QuietSessionsEnd == [][QuietSessionEnds]_vars

\* "AbsoluteDays caps total session lifetime regardless of activity."
\* Violated: every renewal counts AbsoluteDays from the renewal.
AbsoluteIsACap == \A s \in Sessions : Live(s) => rows[s].used < rows[s].issued + Absolute + MaxStall

\* "Extends a session that is used while close to expiry, so active people are
\* not logged out on a fixed schedule."  Violated: the cookie is not renewed.
RenewedSessionKeepsCookie ==
    \A s \in Sessions :
        (jar.sess = s /\ Live(s) /\ rows[s].expires > now) => jar.until > now

\* "Clear the cookies so a dead token stops being resent": a 401 takes away
\* the cookie of a session that is over, not of one that could go on.
\* Violated: the answer to an older request clears the newer cookie.
OnlyDeadCookiesCleared ==
    [][\A r \in Requests : AnswerUnauthorized(r) =>
         \/ jar.sess = None
         \/ ~Live(jar.sess)
         \/ rows[jar.sess].expires <= now
         \/ rows[jar.sess].activity + Idle <= now]_vars
=============================================================================
