------------------------------ MODULE Lockout ------------------------------
(***************************************************************************)
(* Brute-force lockout: the rows of account_lockouts under concurrent      *)
(* sign-ins.  One row counts failures per account, one per source address, *)
(* and every attempt touches both, inside one transaction.                 *)
(*                                                                         *)
(* PostgreSQL is modelled as the code relies on it at READ COMMITTED: a    *)
(* row lock (owner) is held until the transaction ends, what it wrote      *)
(* meanwhile (draft) is seen by nobody else, a cycle of waiting            *)
(* transactions is broken by aborting one of them, and now() is the time   *)
(* the transaction began.  A row that no transaction has committed cannot  *)
(* be locked by SELECT ... FOR UPDATE, only collided with by INSERT.       *)
(***************************************************************************)
EXTENDS Integers, FiniteSets

CONSTANTS Requests,     \* sign-ins that can be in flight at once
          Accounts,     \* normalised e-mail addresses (scope ACCOUNT)
          Addresses,    \* client addresses (scope IP)
          MaxFailures, Window, BaseDuration, MaxDuration,  \* LockoutPolicy
          MaxTime,      \* bound: the clock stops here
          None          \* "nobody holds the row"

ASSUME PolicyAssumption == /\ MaxFailures \in Nat \ {0} /\ Window \in Nat
                           /\ BaseDuration \in Nat \ {0} /\ MaxDuration \in Nat \ {0}
                           /\ MaxTime \in Nat
ASSUME OwnerAssumption == None \notin Requests
ASSUME RequestsAssumption == IsFiniteSet(Requests)
ASSUME KeysAssumption == Accounts \cap Addresses = {}

VARIABLES now,    \* wall clock
          rows,   \* account_lockouts, as committed
          owner,  \* transaction that holds the row (or its index entry)
          draft,  \* what the owner has written and not committed
          req,    \* the sign-in requests
          trail   \* history: failures committed for the key since its
                  \* counter was last restarted, locked or cleared

vars == <<now, rows, owner, draft, req, trail>>

-----------------------------------------------------------------------------
Keys == Accounts \cup Addresses

Events == {"count", "restart", "lock", "clear"}

\* locked = 0 stands for locked_until IS NULL.
Row == [present : BOOLEAN, failures : Nat, lockouts : Nat, first : Nat,
        locked : Nat, event : Events]

NoRow == [present |-> FALSE, failures |-> 0, lockouts |-> 0, first |-> 0,
          locked |-> 0, event |-> "clear"]

Steps == {"idle", "checked", "recording", "counting", "inserting", "clearing", "denied"}

\* todo: the keys the transaction still has to write.
Attempt == [at : Steps, keys : SUBSET Keys, todo : SUBSET Keys, read : Row,
            start : Nat, counted : BOOLEAN]

Idle == [at |-> "idle", keys |-> {}, todo |-> {}, read |-> NoRow, start |-> 0,
         counted |-> FALSE]

TypeOK == /\ now \in 0..MaxTime
          /\ rows \in [Keys -> Row]
          /\ owner \in [Keys -> Requests \cup {None}]
          /\ draft \in [Keys -> Row]
          /\ req \in [Requests -> Attempt]
          /\ trail \in [Keys -> Nat]

Init == /\ now = 0
        /\ rows = [k \in Keys |-> NoRow]
        /\ owner = [k \in Keys |-> None]
        /\ draft = [k \in Keys |-> NoRow]
        /\ req = [r \in Requests |-> Idle]
        /\ trail = [k \in Keys |-> 0]

-----------------------------------------------------------------------------
(* The counter itself.                                                     *)

\* Doubles with each earlier lockout; the shift is bounded, the result capped.
Backoff(priorLockouts) ==
    LET shift == IF priorLockouts > 16 THEN 16 ELSE priorLockouts
        duration == BaseDuration * 2^shift
    IN  IF duration \in 1..MaxDuration THEN duration ELSE MaxDuration

\* Mutant: the count is compared after one increment too many.
CountedEarly(row, start) ==
    IF now - row.first > Window
    THEN [row EXCEPT !.failures = 1, !.first = start, !.event = "restart"]
    ELSE IF row.failures + 2 < MaxFailures
         THEN [row EXCEPT !.failures = @ + 1, !.event = "count"]
         ELSE [row EXCEPT !.failures = 0, !.lockouts = @ + 1, !.first = start,
                  !.locked = start + Backoff(row.lockouts), !.event = "lock"]

\* Mutant: the threshold is tested for equality.
CountedAtEquality(row, start) ==
    IF now - row.first > Window
    THEN [row EXCEPT !.failures = 1, !.first = start, !.event = "restart"]
    ELSE IF row.failures + 1 # MaxFailures
         THEN [row EXCEPT !.failures = @ + 1, !.event = "count"]
         ELSE [row EXCEPT !.failures = 0, !.lockouts = @ + 1, !.first = start,
                  !.locked = start + Backoff(row.lockouts), !.event = "lock"]

\* recordFailureFor on a row it found: restart a lapsed window, count, or lock.
Counted(row, start) ==
    IF now - row.first > Window
    THEN [row EXCEPT !.failures = 1, !.first = start, !.event = "restart"]
    ELSE IF row.failures + 1 < MaxFailures
         THEN [row EXCEPT !.failures = @ + 1, !.event = "count"]
         ELSE [row EXCEPT !.failures = 0, !.lockouts = @ + 1, !.first = start,
                  !.locked = start + Backoff(row.lockouts), !.event = "lock"]

\* The INSERT ... ON CONFLICT DO UPDATE taken when no row was found.
Inserted(row, start) ==
    IF row.present THEN [row EXCEPT !.failures = @ + 1, !.event = "count"]
    ELSE [present |-> TRUE, failures |-> 1, lockouts |-> 0, first |-> start,
          locked |-> 0, event |-> "restart"]

\* Mutant: one failure is forgiven instead of all.
ClearedByOne(row) ==
    [row EXCEPT !.failures = @ - 1, !.lockouts = 0, !.locked = 0, !.event = "clear"]

\* ClearFailures; first_failure_at is left as it was.
Cleared(row) ==
    [row EXCEPT !.failures = 0, !.lockouts = 0, !.locked = 0, !.event = "clear"]

Locked(k) == rows[k].present /\ rows[k].locked > now

Held(r) == {k \in Keys : owner[k] = r}

\* A statement writes the row: it waits for another transaction to let go.
WriteRow(r, k, row) ==
    /\ owner[k] \in {None, r}
    /\ owner' = [owner EXCEPT ![k] = r]
    /\ draft' = [draft EXCEPT ![k] = row]

Commit(r) ==
    /\ rows' = [k \in Keys |-> IF owner[k] = r THEN draft[k] ELSE rows[k]]
    /\ owner' = [k \in Keys |-> IF owner[k] = r THEN None ELSE owner[k]]
    /\ trail' = [k \in Keys |->
          IF owner[k] # r THEN trail[k]
          ELSE CASE draft[k].event = "count" -> trail[k] + 1
                 [] draft[k].event = "restart" -> 1
                 [] OTHER -> 0]
    /\ draft' = [k \in Keys |-> IF owner[k] = r THEN NoRow ELSE draft[k]]
    /\ UNCHANGED now

\* Mutant: InTx returns the error without rolling back.
RollbackForgotten(r) == UNCHANGED <<now, rows, owner, draft, trail>>

Rollback(r) ==
    /\ owner' = [k \in Keys |-> IF owner[k] = r THEN None ELSE owner[k]]
    /\ draft' = [k \in Keys |-> IF owner[k] = r THEN NoRow ELSE draft[k]]
    /\ UNCHANGED <<now, rows, trail>>

-----------------------------------------------------------------------------
(* One sign-in.                                                            *)

\* CheckLockout reads both rows in one statement and refuses a locked key; a
\* refusal changes nothing but the attempt trail.
CheckLockout(r, a, i) ==
    /\ req[r].at = "idle"
    /\ ~Locked(a) /\ ~Locked(i)
    /\ req' = [req EXCEPT ![r] = [Idle EXCEPT !.at = "checked", !.keys = {a, i}]]
    /\ UNCHANGED <<now, rows, owner, draft, trail>>

\* The password is wrong: the transaction that records the failure begins.
WrongPassword(r) ==
    /\ req[r].at = "checked"
    /\ req' = [req EXCEPT ![r].at = "recording", ![r].todo = req[r].keys, ![r].start = now]
    /\ UNCHANGED <<now, rows, owner, draft, trail>>

\* The password (and, later, the second factor) is right: completeLogin issues
\* the session and updates whichever of the two rows exist.
RightPassword(r) ==
    /\ req[r].at = "checked"
    /\ req' = [req EXCEPT ![r].at = "clearing", ![r].start = now,
                          ![r].todo = {k \in req[r].keys : rows[k].present}]
    /\ UNCHANGED <<now, rows, owner, draft, trail>>

\* Mutant: the row is read without FOR UPDATE.
ReadCounterUnlocked(r, k) ==
    /\ req[r].at = "recording" /\ k \in req[r].todo
    /\ rows[k].present
    /\ req' = [req EXCEPT ![r].at = "counting", ![r].todo = {k}, ![r].read = rows[k]]
    /\ UNCHANGED <<now, rows, owner, draft, trail>>

\* RecordFailure ranges over a Go map, so either key may come first.
\* SELECT ... FOR UPDATE waits for the row and keeps it.
ReadCounter(r, k) ==
    /\ req[r].at = "recording" /\ k \in req[r].todo
    /\ rows[k].present /\ owner[k] = None
    /\ owner' = [owner EXCEPT ![k] = r]
    /\ draft' = [draft EXCEPT ![k] = rows[k]]
    /\ req' = [req EXCEPT ![r].at = "counting", ![r].todo = {k}, ![r].read = rows[k]]
    /\ UNCHANGED <<now, rows, trail>>

WriteCounter(r, k) ==
    /\ req[r].at = "counting" /\ k \in req[r].todo
    /\ WriteRow(r, k, Counted(req[r].read, req[r].start))
    /\ req' = [req EXCEPT ![r].at = "recording", ![r].read = NoRow,
                          ![r].todo = req[r].keys \ (Held(r) \cup {k})]
    /\ UNCHANGED <<now, rows, trail>>

\* SELECT ... FOR UPDATE found no committed row: the row is inserted next.
MissCounter(r, k) ==
    /\ req[r].at = "recording" /\ k \in req[r].todo
    /\ ~rows[k].present
    /\ req' = [req EXCEPT ![r].at = "inserting", ![r].todo = {k}]
    /\ UNCHANGED <<now, rows, owner, draft, trail>>

RecordFirstFailure(r, k) ==
    /\ req[r].at = "inserting" /\ k \in req[r].todo
    /\ WriteRow(r, k, Inserted(rows[k], req[r].start))
    /\ req' = [req EXCEPT ![r].at = "recording",
                          ![r].todo = req[r].keys \ (Held(r) \cup {k})]
    /\ UNCHANGED <<now, rows, trail>>

ClearFailuresFor(r, k) ==
    /\ req[r].at = "clearing" /\ k \in req[r].todo
    /\ WriteRow(r, k, Cleared(rows[k]))
    /\ req' = [req EXCEPT ![r].todo = @ \ {k}]
    /\ UNCHANGED <<now, rows, trail>>

CommitFailure(r) ==
    /\ req[r].at = "recording" /\ req[r].todo = {}
    /\ Commit(r)
    /\ req' = [req EXCEPT ![r] = [Idle EXCEPT !.at = "denied", !.counted = TRUE]]

CommitSuccess(r) ==
    /\ req[r].at = "clearing" /\ req[r].todo = {}
    /\ Commit(r)
    /\ req' = [req EXCEPT ![r] = Idle]

\* The request whose row r is waiting for, if r cannot go on without it.
WaitsFor(r) ==
    IF req[r].at \in {"recording", "inserting", "clearing"} /\ Cardinality(req[r].todo) = 1
    THEN LET k == CHOOSE k \in req[r].todo : TRUE
         IN  IF req[r].at = "recording" /\ ~rows[k].present THEN None ELSE owner[k]
    ELSE None

Deadlocked(r) == \E S \in SUBSET Requests : r \in S /\ \A q \in S : WaitsFor(q) \in S

\* PostgreSQL aborts one transaction of the cycle.  A failing sign-in drops
\* the error and answers 401; a successful one answers 500.
DeadlockAbort(r) ==
    /\ Deadlocked(r)
    /\ Rollback(r)
    /\ req' = [req EXCEPT ![r] = IF req[r].at = "clearing" THEN Idle
                                 ELSE [Idle EXCEPT !.at = "denied"]]

AnswerDenied(r) ==
    /\ req[r].at = "denied"
    /\ req' = [req EXCEPT ![r] = Idle]
    /\ UNCHANGED <<now, rows, owner, draft, trail>>

\* The client goes away: the request context is cancelled, the open
\* transaction rolled back, and nobody reads the answer.
Disconnect(r) ==
    /\ req[r].at \notin {"idle", "denied"}
    /\ Rollback(r)
    /\ req' = [req EXCEPT ![r] = Idle]

Tick == /\ now < MaxTime
        /\ now' = now + 1
        /\ UNCHANGED <<rows, owner, draft, req, trail>>

\* What the server does on its own once a request has arrived.
Progress(r) ==
    \/ WrongPassword(r) \/ RightPassword(r)
    \/ \E k \in Keys : \/ ReadCounter(r, k) \/ WriteCounter(r, k) \/ MissCounter(r, k)
                       \/ RecordFirstFailure(r, k) \/ ClearFailuresFor(r, k)
    \/ CommitFailure(r) \/ CommitSuccess(r) \/ AnswerDenied(r)

Next == \/ \E r \in Requests :
              \/ \E a \in Accounts, i \in Addresses : CheckLockout(r, a, i)
              \/ Progress(r) \/ DeadlockAbort(r) \/ Disconnect(r)
        \/ Tick

Spec == Init /\ [][Next]_vars

\* The lock queue of a row is first come first served, so a transaction that
\* keeps asking gets it; the deadlock detector always runs.
FairSpec == /\ Spec
            /\ \A r \in Requests : SF_vars(Progress(r))
            /\ WF_vars(\E r \in Requests : DeadlockAbort(r))

-----------------------------------------------------------------------------
(* Properties.                                                             *)

\* No failure is lost between concurrent sign-ins: the committed counter of a
\* key is the number of failures committed for it since its last restart.
\* (lockout.go: "Lock the row first so two concurrent failures cannot both
\* read the same count and each write back the same increment.")
CountersLoseNothing == \A k \in Keys : rows[k].failures = trail[k]

\* A key is locked only by the failure that makes MaxFailures of them since
\* the last lock, clearing or window restart, however attempts interleave.
LocksOnlyAtThreshold ==
    [][\A k \in Keys : rows'[k].lockouts > rows[k].lockouts => trail[k] + 1 >= MaxFailures]_vars

\* The most that failures which all found no row can add up to.
MostFailures == IF MaxFailures = 1 THEN Cardinality(Requests)
                ELSE MaxFailures - 2 + Cardinality(Requests)

\* The ON CONFLICT branch counts without comparing, so failures that all found
\* no row can bring a counter to the threshold and past it unlocked, but by less
\* than one for each sign-in in flight; the next failure that finds the row locks.
OvershootBounded == \A k \in Keys : rows[k].failures <= MostFailures

\* Every sign-in that arrived ends: row locks are always given back.
EverySignInEnds == \A r \in Requests : (req[r].at # "idle") ~> (req[r].at = "idle")

\* "RecordFailure increments both counters": a sign-in answered 401 has had
\* its failure counted.  Violated: the deadlock victim's error is dropped.
EveryDenialIsCounted == \A r \in Requests : req[r].at = "denied" => req[r].counted

\* "trips a lockout at the threshold": no key sits at MaxFailures unlocked.
\* Violated: the ON CONFLICT branch counts without comparing.
NoCounterAtThreshold == \A k \in Keys : rows[k].failures < MaxFailures

-----------------------------------------------------------------------------
(* Inductive strengthening                                                 *)

\* k is the row r has read and not written yet.
Reading(r, k) == req[r].at = "counting" /\ k \in req[r].todo

\* What a transaction has written to k is one event on top of the row as it is
\* committed, which nobody else can have changed.
DraftFollows(k) ==
    /\ draft[k].failures = CASE draft[k].event = "count" -> rows[k].failures + 1
                              [] draft[k].event = "restart" -> 1
                              [] OTHER -> 0
    /\ draft[k].lockouts > rows[k].lockouts => rows[k].failures + 1 >= MaxFailures

\* A transaction reads one row at a time.
OneAtATime == \A r \in Requests : req[r].at = "counting" => \E k \in Keys : req[r].todo = {k}

CounterInv ==
    /\ CountersLoseNothing
    /\ \A r \in Requests, k \in Keys :
          /\ Reading(r, k) => owner[k] = r /\ req[r].read = rows[k]
          /\ (owner[k] = r /\ ~Reading(r, k)) => DraftFollows(k)

\* The sign-ins that found no row for k and have not written one yet.
Late(k) == {r \in Requests : req[r].at = "inserting" /\ k \in req[r].todo}

\* Once the row is there nobody joins the late ones, and each of them adds at
\* most one to what is committed or about to be.
RoomForLate(k) ==
    /\ rows[k].failures <= MostFailures
    /\ rows[k].present => rows[k].failures + Cardinality(Late(k)) <= MostFailures
    /\ owner[k] # None =>
         IF rows[k].present THEN draft[k].failures + Cardinality(Late(k)) <= MostFailures
         ELSE draft[k].failures <= 1
    /\ \A r \in Requests : Reading(r, k) => rows[k].present

OvershootInv == \A k \in Keys : RoomForLate(k)
=============================================================================
