--------------------------- MODULE LockoutProofs ---------------------------
(***************************************************************************)
(* Lockout for every number of requests, accounts and addresses and every  *)
(* policy: type correctness, no lost failures, no early lock, and how far  *)
(* a counter may pass the threshold.                                       *)
(***************************************************************************)
EXTENDS Lockout, FiniteSetTheorems, TLAPS

\* A lock lasts at least one unit and never longer than the maximum, whatever
\* the number of earlier locks.
LEMMA BackoffBounded ==
  ASSUME NEW n \in Nat
  PROVE  Backoff(n) \in 1..MaxDuration
  BY PolicyAssumption DEF Backoff

LEMMA RowType ==
  ASSUME NEW row \in Row, NEW f \in Nat, NEW l \in Nat, NEW first \in Nat,
         NEW until \in Nat, NEW e \in Events
  PROVE  /\ [row EXCEPT !.failures = f, !.event = e] \in Row
         /\ [row EXCEPT !.failures = f, !.first = first, !.event = e] \in Row
         /\ [row EXCEPT !.failures = f, !.lockouts = l, !.first = first,
                !.locked = until, !.event = e] \in Row
  BY DEF Row

\* The counter operators turn a well-formed row into one.
LEMMA CountedType ==
  ASSUME NEW row \in Row, NEW start \in Nat, now \in Nat
  PROVE  Counted(row, start) \in Row
<1>1. /\ row.failures + 1 \in Nat /\ row.lockouts + 1 \in Nat
      /\ start + Backoff(row.lockouts) \in Nat
  BY BackoffBounded, PolicyAssumption DEF Row
<1>2. {"count", "restart", "lock"} \subseteq Events
  BY DEF Events
<1>3. [row EXCEPT !.failures = 1, !.first = start, !.event = "restart"] \in Row
  BY <1>2, RowType
<1>4. [row EXCEPT !.failures = @ + 1, !.event = "count"] \in Row
  BY <1>1, <1>2, RowType
<1>5. [row EXCEPT !.failures = 0, !.lockouts = @ + 1, !.first = start,
           !.locked = start + Backoff(row.lockouts), !.event = "lock"] \in Row
  BY <1>1, <1>2, RowType
<1> QED
  BY <1>3, <1>4, <1>5, Zenon DEF Counted

LEMMA InsertedType ==
  ASSUME NEW row \in Row, NEW start \in Nat
  PROVE  Inserted(row, start) \in Row
<1>1. row.failures + 1 \in Nat /\ "count" \in Events
  BY DEF Row, Events
<1>2. [row EXCEPT !.failures = @ + 1, !.event = "count"] \in Row
  BY <1>1, RowType
<1>3. [present |-> TRUE, failures |-> 1, lockouts |-> 0, first |-> start,
       locked |-> 0, event |-> "restart"] \in Row
  BY DEF Row, Events
<1> QED
  BY <1>2, <1>3, Zenon DEF Inserted

LEMMA ClearedType ==
  ASSUME NEW row \in Row
  PROVE  Cleared(row) \in Row
  BY DEF Cleared, Row, Events

LEMMA NoRowType == NoRow \in Row
  BY DEF NoRow, Row, Events

LEMMA IdleType == Idle \in Attempt
  BY NoRowType DEF Idle, Attempt, Steps

\* What the steps write into a request leaves it one.
LEMMA StepType ==
  ASSUME NEW a \in Attempt, NEW step \in Steps, NEW todo \in SUBSET Keys,
         NEW read \in Row, NEW start \in Nat
  PROVE  /\ [a EXCEPT !.at = step, !.todo = todo] \in Attempt
         /\ [a EXCEPT !.at = step, !.todo = todo, !.start = start] \in Attempt
         /\ [a EXCEPT !.at = step, !.start = start, !.todo = todo] \in Attempt
         /\ [a EXCEPT !.at = step, !.todo = todo, !.read = read] \in Attempt
  BY DEF Attempt

LEMMA DeniedType ==
  /\ [Idle EXCEPT !.at = "denied"] \in Attempt
  /\ [Idle EXCEPT !.at = "denied", !.counted = TRUE] \in Attempt
  BY IdleType DEF Attempt, Steps

LEMMA InitType == Init => TypeOK
  BY NoRowType, IdleType, PolicyAssumption DEF Init, TypeOK

-----------------------------------------------------------------------------
(* Ending a transaction.                                                   *)

LEMMA CommitType ==
  ASSUME TypeOK, NEW r \in Requests, Commit(r)
  PROVE  /\ now' \in 0..MaxTime /\ rows' \in [Keys -> Row]
         /\ owner' \in [Keys -> Requests \cup {None}]
         /\ draft' \in [Keys -> Row] /\ trail' \in [Keys -> Nat]
<1>1. now' \in 0..MaxTime /\ rows' \in [Keys -> Row] /\ draft' \in [Keys -> Row]
  BY NoRowType DEF TypeOK, Commit
<1>2. owner' \in [Keys -> Requests \cup {None}]
  BY DEF TypeOK, Commit
<1>3. trail' \in [Keys -> Nat]
  BY DEF TypeOK, Commit
<1> QED
  BY <1>1, <1>2, <1>3

LEMMA RollbackType ==
  ASSUME TypeOK, NEW r \in Requests, Rollback(r)
  PROVE  /\ now' \in 0..MaxTime /\ rows' \in [Keys -> Row]
         /\ owner' \in [Keys -> Requests \cup {None}]
         /\ draft' \in [Keys -> Row] /\ trail' \in [Keys -> Nat]
  BY NoRowType DEF TypeOK, Rollback

LEMMA WriteRowType ==
  ASSUME TypeOK, NEW r \in Requests, NEW k \in Keys, NEW row \in Row, WriteRow(r, k, row)
  PROVE  owner' \in [Keys -> Requests \cup {None}] /\ draft' \in [Keys -> Row]
  BY DEF TypeOK, WriteRow

-----------------------------------------------------------------------------
LEMMA NextType == TypeOK /\ [Next]_vars => TypeOK'
<1> SUFFICES ASSUME TypeOK, [Next]_vars
             PROVE  TypeOK'
  OBVIOUS
<1>0. now \in Nat
  BY PolicyAssumption DEF TypeOK
<1>1. ASSUME NEW r \in Requests, NEW a \in Accounts, NEW i \in Addresses, CheckLockout(r, a, i)
      PROVE  TypeOK'
  BY <1>1, NoRowType DEF CheckLockout, TypeOK, Idle, Attempt, Steps, Keys
<1>2. ASSUME NEW r \in Requests, WrongPassword(r)
      PROVE  TypeOK'
  <2>1. req[r].keys \in SUBSET Keys /\ "recording" \in Steps
    BY DEF TypeOK, Attempt, Steps
  <2>2. [req[r] EXCEPT !.at = "recording", !.todo = req[r].keys, !.start = now] \in Attempt
    BY <1>0, <2>1, StepType, NoRowType DEF TypeOK
  <2> QED
    BY <1>2, <2>2 DEF WrongPassword, TypeOK
<1>3. ASSUME NEW r \in Requests, RightPassword(r)
      PROVE  TypeOK'
  <2> DEFINE present == {k \in req[r].keys : rows[k].present}
  <2>1. present \in SUBSET Keys /\ "clearing" \in Steps
    BY DEF TypeOK, Attempt, Steps
  <2>2. [req[r] EXCEPT !.at = "clearing", !.start = now, !.todo = present] \in Attempt
    BY <1>0, <2>1, StepType, NoRowType DEF TypeOK
  <2> QED
    BY <1>3, <2>2 DEF RightPassword, TypeOK
<1>4. ASSUME NEW r \in Requests, NEW k \in Keys, ReadCounter(r, k)
      PROVE  TypeOK'
  <2>1. {k} \in SUBSET Keys /\ "counting" \in Steps
    BY DEF Steps
  <2>2. [req[r] EXCEPT !.at = "counting", !.todo = {k}, !.read = rows[k]] \in Attempt
    BY <2>1, StepType DEF TypeOK
  <2> QED
    BY <1>4, <2>2 DEF ReadCounter, TypeOK
<1>5. ASSUME NEW r \in Requests, NEW k \in Keys, WriteCounter(r, k)
      PROVE  TypeOK'
  <2>1. Counted(req[r].read, req[r].start) \in Row
    BY <1>0, CountedType DEF TypeOK, Attempt
  <2>2. owner' \in [Keys -> Requests \cup {None}] /\ draft' \in [Keys -> Row]
    BY <1>5, <2>1, WriteRowType DEF WriteCounter
  <2>3. req' \in [Requests -> Attempt]
    BY <1>5, NoRowType DEF WriteCounter, TypeOK, Attempt, Steps
  <2> QED
    BY <1>5, <2>2, <2>3 DEF WriteCounter, TypeOK
<1>6. ASSUME NEW r \in Requests, NEW k \in Keys, MissCounter(r, k)
      PROVE  TypeOK'
  <2>1. {k} \in SUBSET Keys /\ "inserting" \in Steps
    BY DEF Steps
  <2>2. [req[r] EXCEPT !.at = "inserting", !.todo = {k}] \in Attempt
    BY <1>0, <2>1, StepType, NoRowType DEF TypeOK
  <2> QED
    BY <1>6, <2>2 DEF MissCounter, TypeOK
<1>7. ASSUME NEW r \in Requests, NEW k \in Keys, RecordFirstFailure(r, k)
      PROVE  TypeOK'
  <2>1. Inserted(rows[k], req[r].start) \in Row
    BY InsertedType DEF TypeOK, Attempt
  <2>2. owner' \in [Keys -> Requests \cup {None}] /\ draft' \in [Keys -> Row]
    BY <1>7, <2>1, WriteRowType DEF RecordFirstFailure
  <2>3. req' \in [Requests -> Attempt]
    BY <1>7 DEF RecordFirstFailure, TypeOK, Attempt, Steps
  <2> QED
    BY <1>7, <2>2, <2>3 DEF RecordFirstFailure, TypeOK
<1>8. ASSUME NEW r \in Requests, NEW k \in Keys, ClearFailuresFor(r, k)
      PROVE  TypeOK'
  <2>1. Cleared(rows[k]) \in Row
    BY ClearedType DEF TypeOK
  <2>2. owner' \in [Keys -> Requests \cup {None}] /\ draft' \in [Keys -> Row]
    BY <1>8, <2>1, WriteRowType DEF ClearFailuresFor
  <2>3. req' \in [Requests -> Attempt]
    BY <1>8 DEF ClearFailuresFor, TypeOK, Attempt
  <2> QED
    BY <1>8, <2>2, <2>3 DEF ClearFailuresFor, TypeOK
<1>9. ASSUME NEW r \in Requests, CommitFailure(r) \/ CommitSuccess(r)
      PROVE  TypeOK'
  <2>1. req' \in [Requests -> Attempt]
    BY <1>9, IdleType, DeniedType DEF CommitFailure, CommitSuccess, TypeOK
  <2> QED
    BY <1>9, <2>1, CommitType DEF CommitFailure, CommitSuccess, TypeOK
<1>10. ASSUME NEW r \in Requests, DeadlockAbort(r) \/ Disconnect(r)
       PROVE  TypeOK'
  <2>1. Rollback(r)
    BY <1>10 DEF DeadlockAbort, Disconnect
  <2>2. req' \in [Requests -> Attempt]
    BY <1>10, IdleType, DeniedType DEF DeadlockAbort, Disconnect, TypeOK
  <2> QED
    BY <2>1, <2>2, RollbackType DEF TypeOK
<1>11. ASSUME NEW r \in Requests, AnswerDenied(r)
       PROVE  TypeOK'
  BY <1>11, IdleType DEF AnswerDenied, TypeOK
<1>12. CASE Tick
  BY <1>12, PolicyAssumption DEF Tick, TypeOK
<1>13. CASE UNCHANGED vars
  BY <1>13 DEF vars, TypeOK
<1> QED
  BY <1>1, <1>2, <1>3, <1>4, <1>5, <1>6, <1>7, <1>8, <1>9, <1>10, <1>11, <1>12, <1>13
     DEF Next, Progress

\* Type correctness of the counters, the row locks and the requests, for any
\* policy: in particular a counter is never negative and a lock always ends.
THEOREM LockoutTypeCorrect == Spec => []TypeOK
<1>1. Init => TypeOK
  BY InitType
<1>2. TypeOK /\ [Next]_vars => TypeOK'
  BY NextType
<1> QED
  BY <1>1, <1>2, PTL DEF Spec

-----------------------------------------------------------------------------
(* No failure is lost, no key is locked early.                             *)

\* Whatever a statement writes is one event on top of the row it wrote over.
LEMMA CountedFollows ==
  ASSUME NEW row \in Row, NEW start
  PROVE  LET new == Counted(row, start)
         IN  /\ new.failures = CASE new.event = "count" -> row.failures + 1
                                 [] new.event = "restart" -> 1
                                 [] OTHER -> 0
             /\ new.lockouts > row.lockouts => row.failures + 1 >= MaxFailures
<1> DEFINE restarted == [row EXCEPT !.failures = 1, !.first = start, !.event = "restart"]
           counted == [row EXCEPT !.failures = @ + 1, !.event = "count"]
           locked == [row EXCEPT !.failures = 0, !.lockouts = @ + 1, !.first = start,
                        !.locked = start + Backoff(row.lockouts), !.event = "lock"]
<1>1. row.failures \in Nat /\ row.lockouts \in Nat
  BY DEF Row
<1>2. restarted.failures = 1 /\ restarted.event = "restart" /\ restarted.lockouts = row.lockouts
  BY DEF Row
<1>3. /\ counted.failures = row.failures + 1 /\ counted.event = "count"
      /\ counted.lockouts = row.lockouts
  BY DEF Row
<1>4. locked.failures = 0 /\ locked.event = "lock"
  BY DEF Row
<1>5. \/ Counted(row, start) = restarted
      \/ Counted(row, start) = counted
      \/ Counted(row, start) = locked /\ ~(row.failures + 1 < MaxFailures)
  BY Zenon DEF Counted
<1> HIDE DEF restarted, counted, locked
<1> QED
  BY <1>1, <1>2, <1>3, <1>4, <1>5, PolicyAssumption

LEMMA InsertedFollows ==
  ASSUME NEW row \in Row, NEW start
  PROVE  LET new == Inserted(row, start)
         IN  /\ new.failures = CASE new.event = "count" -> row.failures + 1
                                 [] new.event = "restart" -> 1
                                 [] OTHER -> 0
             /\ ~(new.lockouts > row.lockouts)
<1> DEFINE counted == [row EXCEPT !.failures = @ + 1, !.event = "count"]
           first == [present |-> TRUE, failures |-> 1, lockouts |-> 0, first |-> start,
                     locked |-> 0, event |-> "restart"]
<1>1. row.failures \in Nat /\ row.lockouts \in Nat
  BY DEF Row
<1>2. /\ counted.failures = row.failures + 1 /\ counted.event = "count"
      /\ counted.lockouts = row.lockouts
  BY DEF Row
<1>3. first.failures = 1 /\ first.event = "restart" /\ first.lockouts = 0
  OBVIOUS
<1>4. Inserted(row, start) \in {counted, first}
  BY Zenon DEF Inserted
<1> HIDE DEF counted, first
<1> QED
  BY <1>1, <1>2, <1>3, <1>4

LEMMA ClearedFollows ==
  ASSUME NEW row \in Row
  PROVE  /\ Cleared(row).failures = 0 /\ Cleared(row).event = "clear"
         /\ Cleared(row).lockouts = 0
  BY DEF Cleared, Row

\* Writing k hands k over to r and leaves the other keys' drafts alone.
LEMMA WriteKeeps ==
  ASSUME TypeOK, CounterInv, NEW r \in Requests, NEW k \in Keys, NEW row,
         WriteRow(r, k, row), UNCHANGED <<rows, trail>>,
         row.failures = CASE row.event = "count" -> rows[k].failures + 1
                          [] row.event = "restart" -> 1
                          [] OTHER -> 0,
         row.lockouts > rows[k].lockouts => rows[k].failures + 1 >= MaxFailures,
         \A q \in Requests, x \in Keys :
            /\ Reading(q, x)' => Reading(q, x) /\ x # k /\ req'[q].read = req[q].read
            /\ Reading(q, x) /\ x # k => Reading(q, x)'
  PROVE  CounterInv'
<1>1. CountersLoseNothing'
  BY DEF CounterInv, CountersLoseNothing
<1>2. owner'[k] = r /\ draft'[k] = row
  BY DEF WriteRow, TypeOK
<1>3. \A x \in Keys : x # k => owner'[x] = owner[x] /\ draft'[x] = draft[x]
  BY DEF WriteRow, TypeOK
<1>4. ASSUME NEW q \in Requests, NEW x \in Keys
      PROVE  /\ Reading(q, x)' => owner'[x] = q /\ req'[q].read = rows'[x]
             /\ (owner'[x] = q /\ ~Reading(q, x)') => DraftFollows(x)'
  <2>1. CASE x = k
    BY <1>2, <2>1 DEF DraftFollows
  <2>2. CASE x # k
    BY <1>3, <2>2 DEF CounterInv, DraftFollows
  <2> QED
    BY <2>1, <2>2
<1> QED
  BY <1>1, <1>4 DEF CounterInv

\* Ending the transaction of r, one way or the other, leaves nothing of it.
LEMMA CommitKeeps ==
  ASSUME TypeOK, CounterInv, NEW r \in Requests, Commit(r),
         \A x \in Keys : ~Reading(r, x) /\ ~Reading(r, x)',
         \A q \in Requests \ {r} : req'[q] = req[q]
  PROVE  /\ CounterInv'
         /\ \A k \in Keys : rows'[k].lockouts > rows[k].lockouts
                                => trail[k] + 1 >= MaxFailures
<1>1. ASSUME NEW k \in Keys, owner[k] = r
      PROVE  /\ rows'[k].failures = trail'[k]
             /\ rows'[k].lockouts > rows[k].lockouts => trail[k] + 1 >= MaxFailures
  <2>1. DraftFollows(k) /\ rows'[k] = draft[k] /\ rows[k].failures = trail[k]
    BY <1>1 DEF Commit, CounterInv, CountersLoseNothing
  <2>2. trail'[k] = CASE draft[k].event = "count" -> trail[k] + 1
                      [] draft[k].event = "restart" -> 1
                      [] OTHER -> 0
    BY <1>1 DEF Commit
  <2> QED
    BY <2>1, <2>2 DEF DraftFollows
<1>2. ASSUME NEW k \in Keys, owner[k] # r
      PROVE  /\ rows'[k] = rows[k] /\ trail'[k] = trail[k]
             /\ owner'[k] = owner[k] /\ draft'[k] = draft[k]
  BY <1>2 DEF Commit
<1>3. CountersLoseNothing'
  BY <1>1, <1>2 DEF CounterInv, CountersLoseNothing
<1>4. ASSUME NEW q \in Requests, NEW x \in Keys
      PROVE  /\ Reading(q, x)' => owner'[x] = q /\ req'[q].read = rows'[x]
             /\ (owner'[x] = q /\ ~Reading(q, x)') => DraftFollows(x)'
  <2>1. CASE owner[x] = r
    <3>1. owner'[x] = None /\ q # None
      BY <2>1, OwnerAssumption DEF Commit
    <3>2. ~Reading(q, x)'
      BY <2>1 DEF CounterInv, Reading
    <3> QED
      BY <3>1, <3>2
  <2>2. CASE owner[x] # r
    <3>1. q = r => owner'[x] # q /\ ~Reading(q, x)'
      BY <1>2, <2>2
    <3>2. q # r => (Reading(q, x)' <=> Reading(q, x)) /\ req'[q].read = req[q].read
      BY DEF Reading
    <3> QED
      BY <1>2, <2>2, <3>1, <3>2 DEF CounterInv, DraftFollows
  <2> QED
    BY <2>1, <2>2
<1>5. ASSUME NEW k \in Keys, owner[k] # r
      PROVE  ~(rows'[k].lockouts > rows[k].lockouts)
  BY <1>2, <1>5 DEF TypeOK, Row
<1> QED
  BY <1>1, <1>3, <1>4, <1>5 DEF CounterInv

LEMMA RollbackKeeps ==
  ASSUME TypeOK, CounterInv, NEW r \in Requests, Rollback(r),
         \A x \in Keys : ~Reading(r, x)',
         \A q \in Requests \ {r} : req'[q] = req[q]
  PROVE  CounterInv'
<1>1. CountersLoseNothing'
  BY DEF CounterInv, CountersLoseNothing, Rollback
<1>2. ASSUME NEW q \in Requests, NEW x \in Keys
      PROVE  /\ Reading(q, x)' => owner'[x] = q /\ req'[q].read = rows'[x]
             /\ (owner'[x] = q /\ ~Reading(q, x)') => DraftFollows(x)'
  <2>1. CASE owner[x] = r
    <3>1. owner'[x] = None /\ q # None
      BY <2>1, OwnerAssumption DEF Rollback
    <3>2. ~Reading(q, x)'
      BY <2>1 DEF CounterInv, Reading
    <3> QED
      BY <3>1, <3>2
  <2>2. CASE owner[x] # r
    <3>1. owner'[x] = owner[x] /\ draft'[x] = draft[x] /\ rows'[x] = rows[x]
      BY <2>2 DEF Rollback
    <3>2. q # r => (Reading(q, x)' <=> Reading(q, x)) /\ req'[q].read = req[q].read
      BY DEF Reading
    <3> QED
      BY <2>2, <3>1, <3>2 DEF CounterInv, DraftFollows
  <2> QED
    BY <2>1, <2>2
<1> QED
  BY <1>1, <1>2 DEF CounterInv

\* A step that touches neither rows nor locks, and reads nothing for the first
\* time, keeps the invariant.
LEMMA QuietKeeps ==
  ASSUME TypeOK, CounterInv, UNCHANGED <<rows, owner, draft, trail>>,
         \A q \in Requests, x \in Keys :
            /\ Reading(q, x)' <=> Reading(q, x)
            /\ Reading(q, x) => req'[q].read = req[q].read
  PROVE  CounterInv'
<1>1. CountersLoseNothing'
  BY DEF CounterInv, CountersLoseNothing
<1>2. \A x \in Keys : DraftFollows(x)' <=> DraftFollows(x)
  BY DEF DraftFollows
<1> QED
  BY <1>1, <1>2 DEF CounterInv

\* A transaction that commits is not in the middle of reading a row.
LEMMA CommitAt ==
  ASSUME TypeOK, NEW r \in Requests, CommitFailure(r) \/ CommitSuccess(r)
  PROVE  /\ req[r].at # "counting" /\ req'[r].at # "counting"
         /\ \A q \in Requests \ {r} : req'[q] = req[q]
<1>1. Idle.at = "idle" /\ [Idle EXCEPT !.at = "denied", !.counted = TRUE].at = "denied"
  BY DEF Idle
<1>2. req'[r] = Idle \/ req'[r] = [Idle EXCEPT !.at = "denied", !.counted = TRUE]
  BY DEF CommitFailure, CommitSuccess, TypeOK
<1>3. req[r].at # "counting"
  BY DEF CommitFailure, CommitSuccess
<1>4. \A q \in Requests \ {r} : req'[q] = req[q]
  BY DEF CommitFailure, CommitSuccess, TypeOK
<1>5. req'[r].at # "counting"
  BY <1>1, <1>2
<1> QED
  BY <1>3, <1>4, <1>5

LEMMA NextOneAtATime ==
  ASSUME TypeOK, OneAtATime, [Next]_vars
  PROVE  OneAtATime'
<1>1. ASSUME NEW r \in Requests, NEW a \in Accounts, NEW i \in Addresses, CheckLockout(r, a, i)
      PROVE  OneAtATime'
  BY <1>1 DEF CheckLockout, TypeOK, Attempt, Idle, OneAtATime
<1>2. ASSUME NEW r \in Requests, WrongPassword(r) \/ RightPassword(r) \/ AnswerDenied(r)
      PROVE  OneAtATime'
  BY <1>2 DEF WrongPassword, RightPassword, AnswerDenied, TypeOK, Attempt, Idle, OneAtATime
<1>3. ASSUME NEW r \in Requests, NEW k \in Keys, ReadCounter(r, k)
      PROVE  OneAtATime'
  BY <1>3 DEF ReadCounter, TypeOK, Attempt, OneAtATime
<1>4. ASSUME NEW r \in Requests, NEW k \in Keys,
             WriteCounter(r, k) \/ MissCounter(r, k) \/ RecordFirstFailure(r, k)
      PROVE  OneAtATime'
  BY <1>4 DEF WriteCounter, MissCounter, RecordFirstFailure, TypeOK, Attempt, OneAtATime
<1>5. ASSUME NEW r \in Requests, NEW k \in Keys, ClearFailuresFor(r, k)
      PROVE  OneAtATime'
  BY <1>5 DEF ClearFailuresFor, TypeOK, Attempt, OneAtATime
<1>6. ASSUME NEW r \in Requests, CommitFailure(r) \/ CommitSuccess(r)
      PROVE  OneAtATime'
  BY <1>6, CommitAt DEF OneAtATime
<1>7. ASSUME NEW r \in Requests, DeadlockAbort(r) \/ Disconnect(r)
      PROVE  OneAtATime'
  BY <1>7 DEF DeadlockAbort, Disconnect, TypeOK, Attempt, Idle, OneAtATime
<1>8. CASE Tick \/ UNCHANGED vars
  BY <1>8 DEF Tick, vars, OneAtATime
<1> QED
  BY <1>1, <1>2, <1>3, <1>4, <1>5, <1>6, <1>7, <1>8 DEF Next, Progress

LEMMA NextCounter ==
  ASSUME TypeOK, OneAtATime, CounterInv, [Next]_vars
  PROVE  /\ CounterInv'
         /\ \A k \in Keys : rows'[k].lockouts > rows[k].lockouts
                                => trail[k] + 1 >= MaxFailures
<1>0. ASSUME UNCHANGED rows
      PROVE  \A k \in Keys : ~(rows'[k].lockouts > rows[k].lockouts)
  BY <1>0 DEF TypeOK, Row
<1>1. ASSUME NEW r \in Requests, NEW a \in Accounts, NEW i \in Addresses, CheckLockout(r, a, i)
      PROVE  CounterInv' /\ UNCHANGED rows
  BY <1>1, QuietKeeps DEF CheckLockout, TypeOK, Attempt, Idle, Reading
<1>2. ASSUME NEW r \in Requests, WrongPassword(r) \/ RightPassword(r) \/ AnswerDenied(r)
      PROVE  CounterInv' /\ UNCHANGED rows
  BY <1>2, QuietKeeps
     DEF WrongPassword, RightPassword, AnswerDenied, TypeOK, Attempt, Idle, Reading
<1>3. ASSUME NEW r \in Requests, NEW k \in Keys, ReadCounter(r, k)
      PROVE  CounterInv' /\ UNCHANGED rows
  <2>1. CountersLoseNothing' /\ UNCHANGED rows
    BY <1>3 DEF ReadCounter, CounterInv, CountersLoseNothing
  <2>2. ASSUME NEW q \in Requests, NEW x \in Keys
        PROVE  /\ Reading(q, x)' => owner'[x] = q /\ req'[q].read = rows'[x]
               /\ (owner'[x] = q /\ ~Reading(q, x)') => DraftFollows(x)'
    <3>1. req'[r].at = "counting" /\ req'[r].todo = {k} /\ req'[r].read = rows[k]
      BY <1>3 DEF ReadCounter, TypeOK, Attempt
    <3>2. \A p \in Requests \ {r} : req'[p] = req[p]
      BY <1>3 DEF ReadCounter, TypeOK
    <3>3. owner'[k] = r
      BY <1>3 DEF ReadCounter, TypeOK
    <3>4. CASE x = k
      <4>1. q # r => ~Reading(q, x)'
        <5>1. owner[k] = None /\ q # None
          BY <1>3, OwnerAssumption DEF ReadCounter
        <5>2. ~Reading(q, k)
          BY <5>1 DEF CounterInv
        <5> QED
          BY <3>2, <3>4, <5>2 DEF Reading
      <4> QED
        BY <2>1, <3>1, <3>3, <3>4, <4>1 DEF Reading
    <3>5. CASE x # k
      <4>1. Reading(q, x)' <=> Reading(q, x)
        BY <1>3, <3>1, <3>2, <3>5 DEF ReadCounter, Reading
      <4>2. Reading(q, x) => req'[q].read = req[q].read
        BY <1>3, <3>2 DEF ReadCounter, Reading
      <4>3. owner'[x] = owner[x] /\ draft'[x] = draft[x]
        BY <1>3, <3>5 DEF ReadCounter, TypeOK
      <4> QED
        BY <2>1, <4>1, <4>2, <4>3 DEF CounterInv, DraftFollows
    <3> QED
      BY <3>4, <3>5
  <2> QED
    BY <2>1, <2>2 DEF CounterInv
<1>4. ASSUME NEW r \in Requests, NEW k \in Keys, WriteCounter(r, k)
      PROVE  CounterInv' /\ UNCHANGED rows
  <2>1. req[r].todo = {k} /\ req[r].read = rows[k] /\ owner[k] = r
    BY <1>4 DEF WriteCounter, OneAtATime, CounterInv, Reading
  <2>2. WriteRow(r, k, Counted(rows[k], req[r].start)) /\ UNCHANGED <<rows, trail>>
    BY <1>4, <2>1 DEF WriteCounter
  <2>3. rows[k] \in Row
    BY DEF TypeOK
  <2>4. ASSUME NEW q \in Requests, NEW x \in Keys
        PROVE  /\ Reading(q, x)' => Reading(q, x) /\ x # k /\ req'[q].read = req[q].read
               /\ Reading(q, x) /\ x # k => Reading(q, x)'
    <3>1. CASE q = r
      BY <1>4, <2>1, <3>1 DEF WriteCounter, TypeOK, Attempt, Reading
    <3>2. CASE q # r
      <4>1. req'[q] = req[q]
        BY <1>4, <3>2 DEF WriteCounter, TypeOK
      <4>2. ~Reading(q, k)
        BY <2>1, <3>2 DEF CounterInv
      <4> QED
        BY <4>1, <4>2 DEF Reading
    <3> QED
      BY <3>1, <3>2
  <2> HIDE DEF Counted
  <2> QED
    BY <2>2, <2>3, <2>4, CountedFollows, WriteKeeps
<1>5. ASSUME NEW r \in Requests, NEW k \in Keys, MissCounter(r, k)
      PROVE  CounterInv' /\ UNCHANGED rows
  BY <1>5, QuietKeeps DEF MissCounter, TypeOK, Attempt, Reading
<1>6. ASSUME NEW r \in Requests, NEW k \in Keys, RecordFirstFailure(r, k)
      PROVE  CounterInv' /\ UNCHANGED rows
  <2>1. WriteRow(r, k, Inserted(rows[k], req[r].start)) /\ UNCHANGED <<rows, trail>>
    BY <1>6 DEF RecordFirstFailure
  <2>2. rows[k] \in Row
    BY DEF TypeOK
  <2>3. ASSUME NEW q \in Requests, NEW x \in Keys
        PROVE  /\ Reading(q, x)' => Reading(q, x) /\ x # k /\ req'[q].read = req[q].read
               /\ Reading(q, x) /\ x # k => Reading(q, x)'
    <3>1. CASE q = r
      BY <1>6, <3>1 DEF RecordFirstFailure, TypeOK, Attempt, Reading
    <3>2. CASE q # r
      <4>1. req'[q] = req[q]
        BY <1>6, <3>2 DEF RecordFirstFailure, TypeOK
      <4>2. ~Reading(q, k)
        BY <2>1, <3>2, OwnerAssumption DEF CounterInv, WriteRow
      <4> QED
        BY <4>1, <4>2 DEF Reading
    <3> QED
      BY <3>1, <3>2
  <2> QED
    BY <2>1, <2>2, <2>3, InsertedFollows, WriteKeeps
<1>7. ASSUME NEW r \in Requests, NEW k \in Keys, ClearFailuresFor(r, k)
      PROVE  CounterInv' /\ UNCHANGED rows
  <2>1. WriteRow(r, k, Cleared(rows[k])) /\ UNCHANGED <<rows, trail>>
    BY <1>7 DEF ClearFailuresFor
  <2>2. rows[k] \in Row /\ rows[k].lockouts \in Nat
    BY DEF TypeOK, Row
  <2>3. ASSUME NEW q \in Requests, NEW x \in Keys
        PROVE  /\ Reading(q, x)' => Reading(q, x) /\ x # k /\ req'[q].read = req[q].read
               /\ Reading(q, x) /\ x # k => Reading(q, x)'
    <3>1. CASE q = r
      BY <1>7, <3>1 DEF ClearFailuresFor, TypeOK, Attempt, Reading
    <3>2. CASE q # r
      <4>1. req'[q] = req[q]
        BY <1>7, <3>2 DEF ClearFailuresFor, TypeOK
      <4>2. ~Reading(q, k)
        BY <2>1, <3>2, OwnerAssumption DEF CounterInv, WriteRow
      <4> QED
        BY <4>1, <4>2 DEF Reading
    <3> QED
      BY <3>1, <3>2
  <2>4. ~(Cleared(rows[k]).lockouts > rows[k].lockouts)
    BY <2>2, ClearedFollows
  <2> QED
    BY <2>1, <2>2, <2>3, <2>4, ClearedFollows, WriteKeeps
<1>8. ASSUME NEW r \in Requests, CommitFailure(r) \/ CommitSuccess(r)
      PROVE  /\ CounterInv'
             /\ \A k \in Keys : rows'[k].lockouts > rows[k].lockouts
                                    => trail[k] + 1 >= MaxFailures
  <2>1. Commit(r)
    BY <1>8 DEF CommitFailure, CommitSuccess
  <2>2. \A x \in Keys : ~Reading(r, x) /\ ~Reading(r, x)'
    BY <1>8, CommitAt DEF Reading
  <2>3. \A q \in Requests \ {r} : req'[q] = req[q]
    BY <1>8 DEF CommitFailure, CommitSuccess, TypeOK
  <2> QED
    BY <2>1, <2>2, <2>3, CommitKeeps
<1>9. ASSUME NEW r \in Requests, DeadlockAbort(r) \/ Disconnect(r)
      PROVE  CounterInv' /\ UNCHANGED rows
  <2>1. Rollback(r) /\ UNCHANGED rows
    BY <1>9 DEF DeadlockAbort, Disconnect, Rollback
  <2>2. \A x \in Keys : ~Reading(r, x)'
    BY <1>9 DEF DeadlockAbort, Disconnect, TypeOK, Attempt, Idle, Reading
  <2>3. \A q \in Requests \ {r} : req'[q] = req[q]
    BY <1>9 DEF DeadlockAbort, Disconnect, TypeOK
  <2> QED
    BY <2>1, <2>2, <2>3, RollbackKeeps
<1>10. CASE Tick \/ UNCHANGED vars
  <2>1. UNCHANGED <<rows, owner, draft, trail, req>>
    BY <1>10 DEF Tick, vars
  <2> QED
    BY <1>0, <2>1, QuietKeeps DEF Reading
<1> QED
  BY <1>0, <1>1, <1>2, <1>3, <1>4, <1>5, <1>6, <1>7, <1>8, <1>9, <1>10 DEF Next, Progress

-----------------------------------------------------------------------------
LEMMA InitCounter == Init => OneAtATime /\ CounterInv
  BY OwnerAssumption
     DEF Init, OneAtATime, CounterInv, CountersLoseNothing, Reading, Idle, NoRow

\* However many sign-ins fail together on the same account or address, none of
\* their failures is lost ("two concurrent failures cannot both read the same
\* count and each write back the same increment").
THEOREM NoFailureIsLost == Spec => []CountersLoseNothing
<1> DEFINE IInv == TypeOK /\ OneAtATime /\ CounterInv
<1>1. Init => IInv
  BY InitType, InitCounter
<1>2. IInv /\ [Next]_vars => IInv'
  BY NextType, NextOneAtATime, NextCounter
<1>3. IInv => CountersLoseNothing
  BY DEF CounterInv
<1> QED
  BY <1>1, <1>2, <1>3, PTL DEF Spec

\* A lock is the work of the failure that makes MaxFailures of them since the
\* counter was last restarted, locked or cleared, and of no earlier one.
THEOREM NoEarlyLock == Spec => LocksOnlyAtThreshold
<1> DEFINE IInv == TypeOK /\ OneAtATime /\ CounterInv
<1>1. Init => IInv
  BY InitType, InitCounter
<1>2. IInv /\ [Next]_vars => IInv'
  BY NextType, NextOneAtATime, NextCounter
<1>3. IInv /\ [Next]_vars
        => [\A k \in Keys : rows'[k].lockouts > rows[k].lockouts
                               => trail[k] + 1 >= MaxFailures]_vars
  BY NextCounter
<1> QED
  BY <1>1, <1>2, <1>3, PTL DEF Spec, LocksOnlyAtThreshold

-----------------------------------------------------------------------------
(* How far a counter passes the threshold.                                 *)

LEMMA LateFacts ==
  ASSUME NEW k \in Keys
  PROVE  /\ Cardinality(Requests) \in Nat /\ Cardinality(Late(k)) \in Nat
         /\ Cardinality(Late(k)) <= Cardinality(Requests)
         /\ \A r \in Requests \ Late(k) : Cardinality(Late(k)) + 1 <= Cardinality(Requests)
         /\ \A S \in SUBSET Late(k) : /\ Cardinality(S) \in Nat
                                      /\ Cardinality(S) <= Cardinality(Late(k))
         /\ \A r \in Late(k) : Cardinality(Late(k) \ {r}) + 1 = Cardinality(Late(k))
<1>1. Late(k) \subseteq Requests /\ IsFiniteSet(Late(k))
  BY RequestsAssumption, FS_Subset DEF Late
<1>2. /\ Cardinality(Requests) \in Nat /\ Cardinality(Late(k)) \in Nat
      /\ Cardinality(Late(k)) <= Cardinality(Requests)
  BY <1>1, RequestsAssumption, FS_Subset, FS_CardinalityType
<1>3. ASSUME NEW r \in Requests \ Late(k)
      PROVE  Cardinality(Late(k)) + 1 <= Cardinality(Requests)
  <2>1. Late(k) \subseteq Requests \ {r}
    BY <1>1, <1>3
  <2>2. /\ IsFiniteSet(Requests \ {r})
        /\ Cardinality(Requests \ {r}) = Cardinality(Requests) - 1
    BY RequestsAssumption, FS_RemoveElement
  <2> QED
    BY <1>2, <2>1, <2>2, FS_Subset
<1>4. ASSUME NEW S \in SUBSET Late(k)
      PROVE  Cardinality(S) \in Nat /\ Cardinality(S) <= Cardinality(Late(k))
  BY <1>1, FS_Subset, FS_CardinalityType
<1>5. ASSUME NEW r \in Late(k)
      PROVE  Cardinality(Late(k) \ {r}) + 1 = Cardinality(Late(k))
  <2> DEFINE late == Late(k)
  <2>1. IsFiniteSet(late) /\ Cardinality(late) \in Nat /\ r \in late
    BY <1>1, <1>2, <1>5
  <2> HIDE DEF late
  <2>2. Cardinality(late \ {r}) = Cardinality(late) - 1
    BY <2>1, FS_RemoveElement
  <2>3. Cardinality(late \ {r}) + 1 = Cardinality(late)
    BY <2>1, <2>2
  <2> QED
    BY <2>3 DEF late
<1> QED
  BY <1>2, <1>3, <1>4, <1>5

\* One failure, and everybody else late, is within the bound.
LEMMA FirstFits ==
  ASSUME NEW r \in Requests
  PROVE  /\ MostFailures \in Nat
         /\ 1 <= MostFailures
         /\ \A f \in Nat, c \in Nat :
               (f <= 1 \/ f < MaxFailures) /\ c + 1 <= Cardinality(Requests)
                  => f + c <= MostFailures
<1>1. Cardinality(Requests) \in Nat /\ Cardinality(Requests) >= 1
  BY RequestsAssumption, FS_CardinalityType, FS_EmptySet
<1> QED
  BY <1>1, PolicyAssumption DEF MostFailures

\* A key that a step leaves to its owner, or that is let go unwritten.
LEMMA RoomKept ==
  ASSUME TypeOK, NEW k \in Keys, RoomForLate(k), rows'[k] = rows[k],
         owner'[k] = None \/ (owner'[k] = owner[k] /\ draft'[k] = draft[k]),
         rows[k].present => Late(k)' \subseteq Late(k),
         \A r \in Requests : Reading(r, k)' => Reading(r, k)
  PROVE  RoomForLate(k)'
<1>0. MostFailures' = MostFailures
  BY DEF MostFailures
<1>1. rows[k].failures \in Nat /\ draft[k].failures \in Nat
  BY DEF TypeOK, Row
<1>2. CASE rows[k].present
  <2>1. /\ Cardinality(Late(k)') \in Nat /\ Cardinality(Late(k)) \in Nat
        /\ Cardinality(Late(k)') <= Cardinality(Late(k))
    BY <1>2, LateFacts
  <2>2. MostFailures \in Int
    BY LateFacts, PolicyAssumption DEF MostFailures
  <2> QED
    BY <1>0, <1>1, <1>2, <2>1, <2>2 DEF RoomForLate
<1>3. CASE ~rows[k].present
  BY <1>0, <1>3 DEF RoomForLate
<1> QED
  BY <1>2, <1>3

\* What a statement may write over the row of k.
LEMMA RoomWritten ==
  ASSUME TypeOK, OvershootInv, UNCHANGED rows, NEW r \in Requests, NEW k \in Keys, NEW row,
         WriteRow(r, k, row),
         IF rows[k].present THEN row.failures + Cardinality(Late(k)') <= MostFailures
         ELSE row.failures <= 1,
         \A x \in Keys : Late(x)' \subseteq Late(x),
         \A q \in Requests, x \in Keys : Reading(q, x)' => Reading(q, x)
  PROVE  OvershootInv'
<1>0. MostFailures' = MostFailures /\ MostFailures \in Int
  BY LateFacts, PolicyAssumption DEF MostFailures
<1>1. ASSUME NEW x \in Keys \ {k}
      PROVE  RoomForLate(x)'
  <2>1. owner'[x] = owner[x] /\ draft'[x] = draft[x]
    BY DEF WriteRow, TypeOK
  <2> QED
    BY <2>1, RoomKept DEF OvershootInv
<1>2. RoomForLate(k)'
  <2>1. draft'[k] = row
    BY DEF WriteRow, TypeOK
  <2>2. /\ Cardinality(Late(k)') \in Nat /\ Cardinality(Late(k)) \in Nat
        /\ Cardinality(Late(k)') <= Cardinality(Late(k))
    BY LateFacts
  <2>3. rows[k].failures \in Nat
    BY DEF TypeOK, Row
  <2>4. RoomForLate(k)
    BY DEF OvershootInv
  <2> QED
    BY <1>0, <2>1, <2>2, <2>3, <2>4 DEF RoomForLate
<1> QED
  BY <1>1, <1>2 DEF OvershootInv

LEMMA RoomCommitted ==
  ASSUME TypeOK, OvershootInv, CounterInv, NEW r \in Requests,
         CommitFailure(r) \/ CommitSuccess(r)
  PROVE  OvershootInv'
<1>0. MostFailures' = MostFailures /\ MostFailures \in Nat /\ 1 <= MostFailures
  BY FirstFits DEF MostFailures
<1>1. Commit(r) /\ req[r].at # "inserting"
  BY DEF CommitFailure, CommitSuccess
<1>2. Idle.at = "idle" /\ [Idle EXCEPT !.at = "denied", !.counted = TRUE].at = "denied"
  BY DEF Idle
<1>3. req'[r].at \in {"idle", "denied"} /\ \A q \in Requests \ {r} : req'[q] = req[q]
  BY <1>2 DEF CommitFailure, CommitSuccess, TypeOK
<1>4. \A x \in Keys : Late(x)' = Late(x) /\ r \notin Late(x)
  BY <1>1, <1>3 DEF Late
<1>5. \A q \in Requests, x \in Keys : Reading(q, x)' => Reading(q, x) /\ q # r
  BY <1>3 DEF Reading
<1>6. ASSUME NEW k \in Keys, owner[k] = r
      PROVE  RoomForLate(k)'
  <2>1. rows'[k] = draft[k] /\ owner'[k] = None
    BY <1>1, <1>6 DEF Commit, TypeOK
  <2>2. /\ Cardinality(Late(k)) \in Nat
        /\ Cardinality(Late(k)) + 1 <= Cardinality(Requests)
    BY <1>4, LateFacts
  <2>3. draft[k].failures \in Nat
    BY DEF TypeOK, Row
  <2>4. draft[k].failures + Cardinality(Late(k)) <= MostFailures
    <3>1. owner[k] # None /\ RoomForLate(k)
      BY <1>6, OwnerAssumption DEF OvershootInv
    <3> QED
      BY <2>2, <2>3, <3>1, FirstFits DEF RoomForLate
  <2>5. \A q \in Requests : ~Reading(q, k)'
    BY <1>5, <1>6 DEF CounterInv
  <2> QED
    BY <1>0, <1>4, <2>1, <2>2, <2>3, <2>4, <2>5 DEF RoomForLate
<1>7. ASSUME NEW k \in Keys, owner[k] # r
      PROVE  RoomForLate(k)'
  <2>1. rows'[k] = rows[k] /\ owner'[k] = owner[k] /\ draft'[k] = draft[k]
    BY <1>1, <1>7 DEF Commit, TypeOK
  <2> QED
    BY <1>4, <1>5, <2>1, RoomKept DEF OvershootInv
<1> QED
  BY <1>6, <1>7 DEF OvershootInv

\* A step that writes no row, and lets no one be late for a row that is there.
LEMMA RoomQuiet ==
  ASSUME TypeOK, OvershootInv, UNCHANGED rows,
         \A x \in Keys : owner'[x] = None \/ (owner'[x] = owner[x] /\ draft'[x] = draft[x]),
         \A x \in Keys : rows[x].present => Late(x)' \subseteq Late(x),
         \A q \in Requests, x \in Keys : Reading(q, x)' => Reading(q, x)
  PROVE  OvershootInv'
  BY RoomKept DEF OvershootInv

\* A request on its way elsewhere is not late for anything it was not late for.
LEMMA LeavesLate ==
  ASSUME TypeOK, NEW r \in Requests, \A q \in Requests \ {r} : req'[q] = req[q],
         req'[r].at \notin {"inserting", "counting"}
  PROVE  /\ \A x \in Keys : Late(x)' \subseteq Late(x)
         /\ \A q \in Requests, x \in Keys : Reading(q, x)' => Reading(q, x)
  BY DEF Late, Reading

LEMMA NextOvershoot ==
  ASSUME TypeOK, OneAtATime, CounterInv, OvershootInv, [Next]_vars
  PROVE  OvershootInv'
<1>1. ASSUME NEW r \in Requests, NEW a \in Accounts, NEW i \in Addresses, CheckLockout(r, a, i)
      PROVE  OvershootInv'
  <2>1. req'[r].at = "checked" /\ \A q \in Requests \ {r} : req'[q] = req[q]
    BY <1>1 DEF CheckLockout, TypeOK, Idle
  <2>2. UNCHANGED <<rows, owner, draft>>
    BY <1>1 DEF CheckLockout
  <2> QED
    BY <2>1, <2>2, LeavesLate, RoomQuiet
<1>2. ASSUME NEW r \in Requests, WrongPassword(r) \/ RightPassword(r) \/ AnswerDenied(r)
      PROVE  OvershootInv'
  <2>1. /\ req'[r].at \in {"recording", "clearing", "idle"}
        /\ \A q \in Requests \ {r} : req'[q] = req[q]
    BY <1>2 DEF WrongPassword, RightPassword, AnswerDenied, TypeOK, Attempt, Idle
  <2>2. UNCHANGED <<rows, owner, draft>>
    BY <1>2 DEF WrongPassword, RightPassword, AnswerDenied
  <2> QED
    BY <2>1, <2>2, LeavesLate, RoomQuiet
<1>3. ASSUME NEW r \in Requests, NEW k \in Keys, ReadCounter(r, k)
      PROVE  OvershootInv'
  <2>1. /\ req'[r].at = "counting" /\ req'[r].todo = {k}
        /\ \A q \in Requests \ {r} : req'[q] = req[q]
    BY <1>3 DEF ReadCounter, TypeOK, Attempt
  <2>2. \A x \in Keys : Late(x)' \subseteq Late(x)
    BY <2>1 DEF Late
  <2>3. \A q \in Requests, x \in Keys \ {k} : Reading(q, x)' => Reading(q, x)
    BY <2>1 DEF Reading
  <2>4. ASSUME NEW x \in Keys \ {k}
        PROVE  RoomForLate(x)'
    <3>1. rows'[x] = rows[x] /\ owner'[x] = owner[x] /\ draft'[x] = draft[x]
      BY <1>3 DEF ReadCounter, TypeOK
    <3> QED
      BY <2>2, <2>3, <3>1, RoomKept DEF OvershootInv
  <2>5. RoomForLate(k)'
    <3>1. rows[k].present /\ rows' = rows /\ draft'[k] = rows[k]
      BY <1>3 DEF ReadCounter, TypeOK
    <3>2. /\ Cardinality(Late(k)') \in Nat /\ Cardinality(Late(k)) \in Nat
          /\ Cardinality(Late(k)') <= Cardinality(Late(k))
      BY <2>2, LateFacts
    <3>3. rows[k].failures \in Nat /\ RoomForLate(k)
      BY DEF TypeOK, Row, OvershootInv
    <3>4. MostFailures' = MostFailures /\ MostFailures \in Int
      BY LateFacts, PolicyAssumption DEF MostFailures
    <3> QED
      BY <3>1, <3>2, <3>3, <3>4 DEF RoomForLate
  <2> QED
    BY <2>4, <2>5 DEF OvershootInv
<1>4. ASSUME NEW r \in Requests, NEW k \in Keys, WriteCounter(r, k)
      PROVE  OvershootInv'
  <2> DEFINE row == Counted(req[r].read, req[r].start)
  <2>1. Reading(r, k) /\ req[r].read = rows[k] /\ rows[k].present /\ rows[k] \in Row
    BY <1>4 DEF WriteCounter, CounterInv, OvershootInv, RoomForLate, Reading, TypeOK
  <2>2. row.failures \in Nat /\ (row.failures <= 1 \/ row.failures < MaxFailures)
    <3> DEFINE restarted == [rows[k] EXCEPT !.failures = 1, !.first = req[r].start,
                                !.event = "restart"]
               counted == [rows[k] EXCEPT !.failures = @ + 1, !.event = "count"]
               locked == [rows[k] EXCEPT !.failures = 0, !.lockouts = @ + 1,
                             !.first = req[r].start,
                             !.locked = req[r].start + Backoff(rows[k].lockouts),
                             !.event = "lock"]
    <3>1. /\ restarted.failures = 1 /\ counted.failures = rows[k].failures + 1
          /\ locked.failures = 0 /\ rows[k].failures \in Nat
      BY <2>1 DEF Row
    <3>2. \/ row = restarted
          \/ row = counted /\ rows[k].failures + 1 < MaxFailures
          \/ row = locked
      BY <2>1, Zenon DEF Counted
    <3> HIDE DEF row, restarted, counted, locked
    <3> QED
      BY <3>1, <3>2, PolicyAssumption
  <2>3. req'[r].at = "recording" /\ \A q \in Requests \ {r} : req'[q] = req[q]
    BY <1>4 DEF WriteCounter, TypeOK, Attempt
  <2>4. \A x \in Keys : Late(x)' \subseteq Late(x) /\ r \notin Late(x)
    BY <2>1, <2>3, LeavesLate DEF Late, Reading
  <2>5. row.failures + Cardinality(Late(k)') <= MostFailures
    <3>1. /\ Cardinality(Late(k)') \in Nat /\ Cardinality(Late(k)) \in Nat
          /\ Cardinality(Late(k)') <= Cardinality(Late(k))
          /\ Cardinality(Late(k)) + 1 <= Cardinality(Requests)
          /\ Cardinality(Requests) \in Nat
      BY <2>4, LateFacts
    <3> HIDE DEF row
    <3> QED
      BY <2>2, <3>1, FirstFits
  <2>6. WriteRow(r, k, row) /\ UNCHANGED rows
    BY <1>4 DEF WriteCounter
  <2> HIDE DEF row
  <2> QED
    BY <2>1, <2>3, <2>4, <2>5, <2>6, LeavesLate, RoomWritten
<1>5. ASSUME NEW r \in Requests, NEW k \in Keys, MissCounter(r, k)
      PROVE  OvershootInv'
  <2>1. /\ ~rows[k].present /\ UNCHANGED <<rows, owner, draft>>
        /\ req'[r].at = "inserting" /\ req'[r].todo = {k}
        /\ \A q \in Requests \ {r} : req'[q] = req[q]
    BY <1>5 DEF MissCounter, TypeOK, Attempt
  <2>2. \A x \in Keys : rows[x].present => Late(x)' \subseteq Late(x)
    BY <2>1 DEF Late
  <2>3. \A q \in Requests, x \in Keys : Reading(q, x)' => Reading(q, x)
    BY <2>1 DEF Reading
  <2> QED
    BY <2>1, <2>2, <2>3, RoomQuiet
<1>6. ASSUME NEW r \in Requests, NEW k \in Keys, RecordFirstFailure(r, k)
      PROVE  OvershootInv'
  <2> DEFINE row == Inserted(rows[k], req[r].start)
  <2>1. /\ row.failures \in Nat
        /\ rows[k].failures \in Nat
        /\ row.failures = IF rows[k].present THEN rows[k].failures + 1 ELSE 1
    BY DEF Inserted, TypeOK, Row
  <2>2. req'[r].at = "recording" /\ \A q \in Requests \ {r} : req'[q] = req[q]
    BY <1>6 DEF RecordFirstFailure, TypeOK, Attempt
  <2>3. Late(k)' \subseteq Late(k) \ {r} /\ r \in Late(k)
    BY <1>6, <2>2 DEF Late, RecordFirstFailure
  <2>4. rows[k].present => row.failures + Cardinality(Late(k)') <= MostFailures
    <3>1. /\ Cardinality(Late(k)') \in Nat /\ Cardinality(Late(k)) \in Nat
          /\ Cardinality(Late(k)') + 1 <= Cardinality(Late(k))
      <4>1. /\ IsFiniteSet(Late(k) \ {r}) /\ Cardinality(Late(k) \ {r}) \in Nat
            /\ Cardinality(Late(k) \ {r}) + 1 = Cardinality(Late(k))
        <5>1. IsFiniteSet(Late(k))
          BY RequestsAssumption, FS_Subset DEF Late
        <5> QED
          BY <2>3, <5>1, LateFacts, FS_Subset
      <4>2. Cardinality(Late(k)') <= Cardinality(Late(k) \ {r})
        BY <2>3, <4>1, FS_Subset
      <4> QED
        BY <2>3, <4>1, <4>2, LateFacts
    <3>2. MostFailures \in Nat
      BY FirstFits
    <3>3. RoomForLate(k)
      BY DEF OvershootInv
    <3> HIDE DEF row
    <3> QED
      BY <2>1, <3>1, <3>2, <3>3 DEF RoomForLate
  <2>5. WriteRow(r, k, row) /\ UNCHANGED rows
    BY <1>6 DEF RecordFirstFailure
  <2> HIDE DEF row
  <2> QED
    BY <2>1, <2>2, <2>4, <2>5, LeavesLate, RoomWritten
<1>7. ASSUME NEW r \in Requests, NEW k \in Keys, ClearFailuresFor(r, k)
      PROVE  OvershootInv'
  <2>1. /\ Cleared(rows[k]).failures = 0 /\ WriteRow(r, k, Cleared(rows[k]))
        /\ UNCHANGED rows
    BY <1>7, ClearedFollows DEF ClearFailuresFor, TypeOK
  <2>2. /\ req[r].at = "clearing" /\ req'[r].at = "clearing"
        /\ \A q \in Requests \ {r} : req'[q] = req[q]
    BY <1>7 DEF ClearFailuresFor, TypeOK, Attempt
  <2>3. \A x \in Keys : Late(x)' \subseteq Late(x) /\ r \notin Late(x)
    BY <2>2, LeavesLate DEF Late
  <2>4. 0 + Cardinality(Late(k)') <= MostFailures
    <3>1. /\ Cardinality(Late(k)') \in Nat /\ Cardinality(Late(k)) \in Nat
          /\ Cardinality(Late(k)') <= Cardinality(Late(k))
          /\ Cardinality(Late(k)) + 1 <= Cardinality(Requests)
          /\ Cardinality(Requests) \in Nat
      BY <2>3, LateFacts
    <3> QED
      BY <3>1, FirstFits
  <2>5. \A q \in Requests, x \in Keys : Reading(q, x)' => Reading(q, x)
    BY <2>2, LeavesLate
  <2> HIDE DEF Cleared
  <2> QED
    BY <2>1, <2>3, <2>4, <2>5, RoomWritten
<1>8. ASSUME NEW r \in Requests, CommitFailure(r) \/ CommitSuccess(r)
      PROVE  OvershootInv'
  BY <1>8, RoomCommitted
<1>9. ASSUME NEW r \in Requests, DeadlockAbort(r) \/ Disconnect(r)
      PROVE  OvershootInv'
  <2>1. /\ UNCHANGED rows
        /\ \A x \in Keys : owner'[x] = None \/ (owner'[x] = owner[x] /\ draft'[x] = draft[x])
    BY <1>9 DEF DeadlockAbort, Disconnect, Rollback, TypeOK
  <2>2. Idle.at = "idle" /\ [Idle EXCEPT !.at = "denied"].at = "denied"
    BY DEF Idle
  <2>3. req'[r].at \in {"idle", "denied"} /\ \A q \in Requests \ {r} : req'[q] = req[q]
    BY <1>9, <2>2 DEF DeadlockAbort, Disconnect, TypeOK
  <2> QED
    BY <2>1, <2>3, LeavesLate, RoomQuiet
<1>10. CASE Tick \/ UNCHANGED vars
  <2>1. UNCHANGED <<rows, owner, draft, req>>
    BY <1>10 DEF Tick, vars
  <2> QED
    BY <2>1, RoomQuiet DEF Late, Reading
<1> QED
  BY <1>1, <1>2, <1>3, <1>4, <1>5, <1>6, <1>7, <1>8, <1>9, <1>10 DEF Next, Progress

LEMMA InitOvershoot == Init => OvershootInv
<1> SUFFICES ASSUME Init, NEW k \in Keys
             PROVE  RoomForLate(k)
  BY DEF OvershootInv
<1>1. MostFailures \in Int /\ 0 <= MostFailures
  <2>1. Cardinality(Requests) \in Nat
    BY LateFacts
  <2> QED
    BY <2>1, PolicyAssumption DEF MostFailures
<1>2. rows[k].failures = 0 /\ ~rows[k].present /\ owner[k] = None
  BY DEF Init, NoRow
<1>3. \A r \in Requests : ~Reading(r, k)
  BY DEF Init, Idle, Reading
<1> QED
  BY <1>1, <1>2, <1>3 DEF RoomForLate

\* The INSERT's ON CONFLICT counts without comparing, so sign-ins that all found
\* no row pass the threshold unlocked, but by less than one for each that can be
\* in flight, whatever the policy.
THEOREM OvershootIsBounded == Spec => []OvershootBounded
<1> DEFINE IInv == TypeOK /\ OneAtATime /\ CounterInv /\ OvershootInv
<1>1. Init => IInv
  BY InitType, InitCounter, InitOvershoot
<1>2. IInv /\ [Next]_vars => IInv'
  BY NextType, NextOneAtATime, NextCounter, NextOvershoot
<1>3. IInv => OvershootBounded
  BY DEF OvershootInv, RoomForLate, OvershootBounded
<1> QED
  BY <1>1, <1>2, <1>3, PTL DEF Spec
=============================================================================
