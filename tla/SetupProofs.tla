----------------------------- MODULE SetupProofs -----------------------------
(***************************************************************************)
(* First-run setup, for any number of requests, processes, addresses and   *)
(* connections: the advisory lock makes the screen create one super admin, *)
(* and setup that was over stays over until a password sign-in goes away.  *)
(***************************************************************************)
EXTENDS Setup, TLAPS

\* Request as a constant set of records, to write fields into.
LEMMA RequestFields ==
  ASSUME NEW q \in Request, NEW step \in Steps
  PROVE  /\ q.inst \in Instances /\ q.value \in Versions
         /\ \A v \in Versions : [q EXCEPT !.at = step, !.value = v] \in Request
         /\ \A b \in BOOLEAN : [q EXCEPT !.at = step, !.adopt = b] \in Request
         /\ [q EXCEPT !.at = step, !.kind = "status"] \in Request
         /\ \A e \in Admins, c \in {"no", "credential", "flag"} :
              [q EXCEPT !.at = step, !.kind = "setup", !.email = e, !.closed = c] \in Request
<1>1. /\ q.inst \in Instances /\ q.value \in Versions
      /\ [q EXCEPT !.at = step, !.kind = "status"] \in Request
  BY DEF Request
<1>2. ASSUME NEW v \in Versions
      PROVE  [q EXCEPT !.at = step, !.value = v] \in Request
  BY DEF Request
<1>3. ASSUME NEW b \in BOOLEAN
      PROVE  [q EXCEPT !.at = step, !.adopt = b] \in Request
  BY DEF Request
<1>4. ASSUME NEW e \in Admins, NEW c \in {"no", "credential", "flag"}
      PROVE  [q EXCEPT !.at = step, !.kind = "setup", !.email = e, !.closed = c] \in Request
  BY DEF Request
<1>5. QED
  BY <1>1, <1>2, <1>3, <1>4

LEMMA StepsKnown ==
  /\ {"idle", "policy", "policy-miss", "policy-fill", "begin", "lock"} \subseteq Steps
  /\ {"flag", "flag-miss", "flag-fill", "check", "create", "commit", "invalidate"} \subseteq Steps
  BY DEF Steps

LEMMA VersionsKnown == 0 \in Versions /\ 1 \in Versions /\ Defaults \in Versions
  BY SetupAssumption DEF Versions, Defaults

\* Defaults is version 0: an Idle request holds nothing.
LEMMA IdleType == \A i \in Instances : Idle(i) \in Request
  BY StepsKnown, VersionsKnown DEF Idle, Request

\* Storing in the cache, or emptying it, keeps its type.
CacheType == cache \in [Instances -> [valid : BOOLEAN, value : Versions, at : 0..MaxTime]]

LEMMA FillType ==
  ASSUME CacheType, now \in 0..MaxTime, NEW i \in Instances, NEW v \in Versions,
         Fill(i, v) \/ Invalidate(i)
  PROVE  CacheType'
<1> DEFINE Entry == [valid : BOOLEAN, value : Versions, at : 0..MaxTime]
           entry == [valid |-> TRUE, value |-> v, at |-> now]
<1>1. entry \in Entry /\ Empty \in Entry
  BY VersionsKnown, StoreAssumption DEF Empty
<1>2. cache' = [cache EXCEPT ![i] = entry] \/ cache' = [cache EXCEPT ![i] = Empty]
  BY DEF Fill, Invalidate
<1> HIDE DEF entry
<1>3. QED
  BY <1>1, <1>2 DEF CacheType

-----------------------------------------------------------------------------
(* Types                                                                   *)

LEMMA GotoType ==
  ASSUME TypeOK, NEW r \in Requests, NEW step \in Steps, Goto(r, step)
  PROVE  req' \in [Requests -> Request]
<1>1. [req[r] EXCEPT !.at = step, !.value = Defaults] \in Request
  BY RequestFields, VersionsKnown DEF TypeOK
<1>2. QED
  BY <1>1 DEF TypeOK, Goto

LEMMA IdlesType ==
  ASSUME TypeOK, NEW r \in Requests, req' = [req EXCEPT ![r] = Idle(req[r].inst)]
  PROVE  req' \in [Requests -> Request]
<1>1. req[r].inst \in Instances
  BY DEF TypeOK, Request
<1>2. QED
  BY <1>1, IdleType DEF TypeOK

LEMMA RefuseType ==
  ASSUME TypeOK, NEW r \in Requests, Refuse(r)
  PROVE  req' \in [Requests -> Request] /\ lock' \in Requests \cup {None}
<1>1. lock' \in Requests \cup {None}
  BY DEF TypeOK, Refuse, Unlock
<1>2. QED
  BY <1>1, IdlesType DEF Refuse

LEMMA AfterFlagType ==
  ASSUME TypeOK, NEW r \in Requests, NEW v, AfterFlag(r, v)
  PROVE  req' \in [Requests -> Request] /\ lock' \in Requests \cup {None}
<1>1. CASE v = 1
  BY <1>1, RefuseType DEF AfterFlag
<1>2. CASE v # 1
  BY <1>2, GotoType, StepsKnown DEF AfterFlag, TypeOK
<1>3. QED
  BY <1>1, <1>2

\* A setup request names the account it creates; the screen's own reads never
\* get beyond the credential query.
SetupSteps == {"policy", "policy-miss", "policy-fill", "begin", "lock",
               "create", "commit", "invalidate"}

Shape == \A r \in Requests : /\ req[r].kind = "setup" => req[r].email \in Admins
                             /\ req[r].at \in SetupSteps => req[r].kind = "setup"

LEMMA TypeStep == TypeOK /\ Shape /\ [Next]_vars => TypeOK'
<1> SUFFICES ASSUME TypeOK, Shape, [Next]_vars
             PROVE  TypeOK'
  OBVIOUS
<1>t. TypeOK <=> /\ now \in 0..MaxTime /\ table \in Versions /\ CacheType
                 /\ admins \in [Admins -> Admin] /\ lock \in Requests \cup {None}
                 /\ req \in [Requests -> Request]
                 /\ removals \in 0..MaxRemovals /\ created \in Nat
  BY DEF TypeOK, StoreTypeOK, CacheType
<1>q. ASSUME NEW r \in Requests, NEW q \in Request, req' = [req EXCEPT ![r] = q],
             UNCHANGED <<storeVars, admins, lock, removals, created>>
      PROVE  TypeOK'
  BY <1>q DEF TypeOK, StoreTypeOK, storeVars
<1>g. ASSUME NEW r \in Requests, NEW step \in Steps, Goto(r, step),
             UNCHANGED <<storeVars, admins, lock, removals, created>>
      PROVE  TypeOK'
  BY <1>g, GotoType DEF TypeOK, StoreTypeOK, storeVars
<1>f. ASSUME NEW r \in Requests, Refuse(r), UNCHANGED <<storeVars, admins, removals, created>>
      PROVE  TypeOK'
  BY <1>f, RefuseType DEF TypeOK, StoreTypeOK, storeVars
<1>a. ASSUME NEW r \in Requests, NEW v, AfterFlag(r, v),
             UNCHANGED <<storeVars, admins, removals, created>>
      PROVE  TypeOK'
  BY <1>a, AfterFlagType DEF TypeOK, StoreTypeOK, storeVars
<1>r. \A r \in Requests : req[r] \in Request
  BY DEF TypeOK
<1>b. ASSUME NEW e \in Admins, NEW row \in Admin, admins' = [admins EXCEPT ![e] = row]
      PROVE  admins' \in [Admins -> Admin]
  BY <1>b DEF TypeOK
<1>1. ASSUME NEW r \in Requests, NEW e \in Admins, CompleteSetup(r, e)
      PROVE  TypeOK'
  <2> DEFINE c == IF table = 1 THEN "flag" ELSE IF PasswordSignInExists THEN "credential" ELSE "no"
             q == [req[r] EXCEPT !.at = "policy", !.kind = "setup", !.email = e, !.closed = c]
  <2>1. c \in {"no", "credential", "flag"}
    OBVIOUS
  <2>2. q \in Request
    BY <1>r, <2>1, RequestFields, StepsKnown
  <2>3. req' = [req EXCEPT ![r] = q] /\ UNCHANGED <<storeVars, admins, lock, removals, created>>
    BY <1>1 DEF CompleteSetup, TypeOK
  <2>4. QED
    BY <1>q, <2>2, <2>3
<1>2. ASSUME NEW r \in Requests, SetupStatus(r)
      PROVE  TypeOK'
  <2>1. [req[r] EXCEPT !.at = "flag", !.kind = "status"] \in Request
    BY <1>r, RequestFields, StepsKnown
  <2>2. QED
    BY <1>2, <1>q, <2>1 DEF SetupStatus
<1>3. ASSUME NEW r \in Requests, ReadPolicy(r) \/ QueryPolicyFails(r) \/ BeginTx(r)
      PROVE  TypeOK'
  BY <1>3, <1>g, StepsKnown DEF ReadPolicy, QueryPolicyFails, BeginTx
<1>4. ASSUME NEW r \in Requests, QueryPolicy(r) \/ QueryFlag(r)
      PROVE  TypeOK'
  <2>1. /\ [req[r] EXCEPT !.at = "policy-fill", !.value = table] \in Request
        /\ [req[r] EXCEPT !.at = "flag-fill", !.value = table] \in Request
    BY <1>r, <1>t, RequestFields, StepsKnown
  <2>2. CASE QueryPolicy(r)
    BY <1>q, <2>1, <2>2 DEF QueryPolicy
  <2>3. CASE QueryFlag(r)
    BY <1>q, <2>1, <2>3 DEF QueryFlag
  <2>4. QED
    BY <1>4, <2>2, <2>3
<1>5. ASSUME NEW r \in Requests, FillPolicy(r)
      PROVE  TypeOK'
  <2>1. CacheType'
    BY <1>5, <1>r, <1>t, FillType, RequestFields, StepsKnown DEF FillPolicy
  <2>2. req' \in [Requests -> Request]
    BY <1>5, GotoType, StepsKnown DEF FillPolicy
  <2>3. QED
    BY <1>5, <2>1, <2>2 DEF FillPolicy, TypeOK, StoreTypeOK, CacheType
<1>6. ASSUME NEW r \in Requests, AdvisoryLock(r)
      PROVE  TypeOK'
  <2>1. req' \in [Requests -> Request]
    BY <1>6, GotoType, StepsKnown DEF AdvisoryLock
  <2>2. QED
    BY <1>6, <2>1 DEF AdvisoryLock, TypeOK, StoreTypeOK, storeVars
<1>7. ASSUME NEW r \in Requests, ReadFlag(r) \/ QueryFlagFails(r)
      PROVE  TypeOK'
  BY <1>7, <1>a, <1>g, StepsKnown DEF ReadFlag, QueryFlagFails
<1>8. ASSUME NEW r \in Requests, FillFlag(r)
      PROVE  TypeOK'
  <2>1. CacheType'
    BY <1>8, <1>r, <1>t, FillType, RequestFields, StepsKnown DEF FillFlag
  <2>2. req' \in [Requests -> Request] /\ lock' \in Requests \cup {None}
    BY <1>8, AfterFlagType DEF FillFlag
  <2>3. QED
    BY <1>8, <2>1, <2>2 DEF FillFlag, TypeOK, StoreTypeOK, CacheType
<1>9. ASSUME NEW r \in Requests, CheckCredentials(r)
      PROVE  TypeOK'
  BY <1>9, <1>f, <1>g, StepsKnown DEF CheckCredentials
<1>10. ASSUME NEW r \in Requests, UpsertFirstAdmin(r)
       PROVE  TypeOK'
  <2> DEFINE found == admins[req[r].email].exists
  <2>1. found \in BOOLEAN
    BY <1>10 DEF UpsertFirstAdmin, Shape, SetupSteps, TypeOK, Admin
  <2>2. [req[r] EXCEPT !.at = "commit", !.adopt = found] \in Request
    BY <1>r, <2>1, RequestFields, StepsKnown
  <2>3. req' = [req EXCEPT ![r] = [req[r] EXCEPT !.at = "commit", !.adopt = found]]
        /\ UNCHANGED <<storeVars, admins, lock, removals, created>>
    BY <1>10 DEF UpsertFirstAdmin, TypeOK
  <2>4. QED
    BY <1>q, <2>2, <2>3
<1>11. ASSUME NEW r \in Requests, CommitSetup(r)
       PROVE  TypeOK'
  <2>1. [exists |-> TRUE, usable |-> TRUE, super |-> TRUE] \in Admin
    BY DEF Admin
  <2>2. req[r].email \in Admins
    BY <1>11 DEF CommitSetup, Shape, SetupSteps
  <2>3. admins' \in [Admins -> Admin]
    BY <1>11, <1>b, <2>1, <2>2 DEF CommitSetup
  <2>4. req' \in [Requests -> Request]
    BY <1>11, GotoType, StepsKnown DEF CommitSetup
  <2>5. table' \in Versions /\ lock' \in Requests \cup {None} /\ created' \in Nat
    BY <1>11, VersionsKnown DEF CommitSetup, Unlock, TypeOK
  <2>6. QED
    BY <1>11, <2>3, <2>4, <2>5 DEF CommitSetup, TypeOK, StoreTypeOK
<1>12. ASSUME NEW r \in Requests, CommitConflicts(r) \/ Abandon(r)
       PROVE  TypeOK'
  BY <1>12, <1>f DEF CommitConflicts, Abandon
<1>13. ASSUME NEW r \in Requests, AfterSetup(r)
       PROVE  TypeOK'
  <2>1. CacheType'
    BY <1>13, <1>r, <1>t, FillType, RequestFields, StepsKnown DEF AfterSetup
  <2>2. req' \in [Requests -> Request]
    BY <1>13, IdlesType DEF AfterSetup
  <2>3. QED
    BY <1>13, <2>1, <2>2 DEF AfterSetup, TypeOK, StoreTypeOK, CacheType
<1>14. ASSUME NEW e \in Admins, Bootstrap(e)
       PROVE  TypeOK'
  <2>1. [exists |-> TRUE, usable |-> TRUE, super |-> TRUE] \in Admin
    BY DEF Admin
  <2>2. admins' \in [Admins -> Admin]
    BY <1>14, <1>b, <2>1 DEF Bootstrap
  <2>3. QED
    BY <1>14, <2>2, VersionsKnown DEF Bootstrap, TypeOK, StoreTypeOK
<1>15. ASSUME NEW e \in Admins, RemovePassword(e)
       PROVE  TypeOK'
  <2>1. [admins[e] EXCEPT !.usable = FALSE] \in Admin
    BY DEF TypeOK, Admin
  <2>2. admins' \in [Admins -> Admin]
    BY <1>15, <1>b, <2>1 DEF RemovePassword
  <2>3. removals' \in 0..MaxRemovals
    BY <1>15, SetupAssumption DEF RemovePassword, TypeOK
  <2>4. QED
    BY <1>15, <2>2, <2>3 DEF RemovePassword, TypeOK, StoreTypeOK, storeVars
<1>16. ASSUME NEW i \in Instances, Crash(i)
       PROVE  TypeOK'
  <2>1. CacheType'
    BY <1>16, <1>t, FillType, VersionsKnown DEF Crash
  <2>2. req' \in [Requests -> Request]
    BY <1>16, <1>r, IdleType DEF Crash
  <2>3. lock' \in Requests \cup {None}
    BY <1>16 DEF Crash, TypeOK
  <2>4. QED
    BY <1>16, <2>1, <2>2, <2>3 DEF Crash, TypeOK, StoreTypeOK, CacheType
<1>17. CASE Tick
  BY <1>17, StoreAssumption DEF Tick, Advance, TypeOK, StoreTypeOK
<1>18. CASE UNCHANGED vars
  BY <1>18 DEF vars, TypeOK, StoreTypeOK
<1>19. QED
  BY <1>1, <1>2, <1>3, <1>4, <1>5, <1>6, <1>7, <1>8, <1>9, <1>10, <1>11, <1>12, <1>13,
     <1>14, <1>15, <1>16, <1>17, <1>18 DEF Next, Progress

-----------------------------------------------------------------------------
(* What a step of a request does                                           *)

\* The statements of the transaction that come after the advisory lock.
Locked == {"flag", "flag-miss", "flag-fill", "check", "create", "commit"}

\* A setup transaction past the lock holds it.
Holder == \A r \in Requests : (req[r].kind = "setup" /\ req[r].at \in Locked) => lock = r

Decided == {"create", "commit"}

\* Either the request is over, or it goes on: to a step of the transaction with
\* the lock, to the account after the credential query.
Ends(r) == req'[r].at = "idle" /\ req'[r].kind = "status" /\ req'[r].closed = "no"

GoesOn(r) ==
    /\ req'[r].kind = req[r].kind /\ req'[r].email = req[r].email
    /\ req'[r].closed = req[r].closed
    /\ req'[r].at \in SetupSteps => req[r].kind = "setup"
    /\ (req[r].kind = "setup" /\ req'[r].at \in Locked) => lock' = r
    /\ req'[r].at \in Decided =>
          req[r].at \in Decided \/ (req[r].at = "check" /\ ~PasswordSignInExists)

Moves(r) == /\ \A q \in Requests \ {r} : req'[q] = req[q]
            /\ \A q \in Requests \ {r} : lock = q => lock' = q
            /\ Ends(r) \/ GoesOn(r)

LEMMA GotoFields ==
  ASSUME TypeOK, NEW r \in Requests, NEW step, Goto(r, step)
  PROVE  /\ req'[r].at = step /\ req'[r].kind = req[r].kind
         /\ req'[r].email = req[r].email /\ req'[r].closed = req[r].closed
         /\ \A q \in Requests \ {r} : req'[q] = req[q]
<1>1. req[r] \in Request
  BY DEF TypeOK
<1> DEFINE moved == [req[r] EXCEPT !.at = step, !.value = Defaults]
<1>2. /\ moved.at = step /\ moved.kind = req[r].kind
      /\ moved.email = req[r].email /\ moved.closed = req[r].closed
  BY <1>1 DEF Request
<1>3. req' = [req EXCEPT ![r] = moved]
  BY DEF Goto, TypeOK
<1> HIDE DEF moved
<1>4. QED
  BY <1>2, <1>3 DEF TypeOK

LEMMA RefuseMoves ==
  ASSUME TypeOK, NEW r \in Requests, Refuse(r)
  PROVE  Moves(r)
<1>1. Ends(r) /\ \A q \in Requests \ {r} : req'[q] = req[q]
  BY DEF Refuse, Idle, Ends, TypeOK
<1>2. \A q \in Requests \ {r} : lock = q => lock' = q
  BY DEF Refuse, Unlock
<1>3. QED
  BY <1>1, <1>2 DEF Moves

\* A step to a place that asks for nothing more than the place it leaves.
LEMMA GotoMoves ==
  ASSUME TypeOK, Shape, Holder, NEW r \in Requests, NEW step, Goto(r, step), UNCHANGED lock,
         step \in SetupSteps => req[r].at \in SetupSteps \/ req[r].kind = "setup",
         step \in Locked => req[r].at \in Locked \/ req[r].kind = "status",
         step \in Decided =>
            req[r].at \in Decided \/ (req[r].at = "check" /\ ~PasswordSignInExists)
  PROVE  Moves(r)
<1>1. /\ req'[r].at = step /\ req'[r].kind = req[r].kind
      /\ req'[r].email = req[r].email /\ req'[r].closed = req[r].closed
      /\ \A q \in Requests \ {r} : req'[q] = req[q]
  BY GotoFields
<1>2. step \in SetupSteps => req[r].kind = "setup"
  BY DEF Shape
<1>3. (req[r].kind = "setup" /\ step \in Locked) => lock = r
  BY DEF Holder
<1>4. GoesOn(r)
  BY <1>1, <1>2, <1>3 DEF GoesOn
<1>5. QED
  BY <1>1, <1>4 DEF Moves

LEMMA AfterFlagMoves ==
  ASSUME TypeOK, Shape, Holder, NEW r \in Requests, NEW v, AfterFlag(r, v), req[r].at \in Locked
  PROVE  Moves(r)
<1>1. CASE v = 1
  BY <1>1, RefuseMoves DEF AfterFlag
<1>2. CASE v # 1
  <2>1. Goto(r, "check") /\ UNCHANGED lock
    BY <1>2 DEF AfterFlag
  <2>2. "check" \notin SetupSteps /\ "check" \notin Decided
    BY DEF SetupSteps, Decided
  <2>3. QED
    BY <2>1, <2>2, GotoMoves
<1>3. QED
  BY <1>1, <1>2

\* The request's own steps, but for the one that creates the account, leave the
\* accounts and the counts alone.
Quiet(r) == Moves(r) /\ UNCHANGED <<admins, table, removals, created>>

LEMMA ProgressMoves ==
  ASSUME TypeOK, Shape, Holder, NEW r \in Requests, Progress(r) \/ Abandon(r)
  PROVE  CommitSetup(r) \/ Quiet(r)
<1>s. /\ {"policy", "policy-miss", "policy-fill", "begin", "lock", "create", "commit"}
             \subseteq SetupSteps
      /\ {"policy", "policy-miss", "policy-fill", "begin", "lock"} \cap (Locked \cup Decided) = {}
      /\ {"flag", "flag-miss", "flag-fill", "check", "create", "commit"} \subseteq Locked
      /\ {"flag", "flag-miss", "flag-fill", "check"} \cap (SetupSteps \cup Decided) = {}
      /\ {"create", "commit"} \subseteq Decided
  BY DEF SetupSteps, Locked, Decided
<1>1. CASE ReadPolicy(r)
  <2>1. /\ \/ Goto(r, "begin")
           \/ Goto(r, "policy-miss")
        /\ req[r].at = "policy" /\ UNCHANGED <<lock, admins, table, removals, created>>
    BY <1>1 DEF ReadPolicy, storeVars
  <2>2. QED
    BY <1>s, <2>1, GotoMoves DEF Quiet
<1>2. CASE QueryPolicy(r)
  <2>1. /\ req[r].at = "policy-miss" /\ req[r].kind = "setup"
        /\ UNCHANGED <<lock, admins, table, removals, created>>
    BY <1>2, <1>s DEF QueryPolicy, storeVars, Shape
  <2>2. /\ req'[r].at = "policy-fill" /\ req'[r].kind = req[r].kind
        /\ req'[r].email = req[r].email /\ req'[r].closed = req[r].closed
        /\ \A q \in Requests \ {r} : req'[q] = req[q]
    BY <1>2 DEF QueryPolicy, TypeOK, Request
  <2>3. QED
    BY <1>s, <2>1, <2>2 DEF Quiet, Moves, GoesOn
<1>3. CASE QueryPolicyFails(r) \/ FillPolicy(r)
  <2>1. /\ Goto(r, "begin") /\ req[r].at \in {"policy-miss", "policy-fill"}
        /\ UNCHANGED <<lock, admins, table, removals, created>>
    BY <1>3 DEF QueryPolicyFails, FillPolicy, storeVars
  <2>2. QED
    BY <1>s, <2>1, GotoMoves DEF Quiet
<1>4. CASE BeginTx(r)
  <2>1. /\ Goto(r, "lock") /\ req[r].at = "begin"
        /\ UNCHANGED <<lock, admins, table, removals, created>>
    BY <1>4 DEF BeginTx, storeVars
  <2>2. QED
    BY <1>s, <2>1, GotoMoves DEF Quiet
<1>5. CASE AdvisoryLock(r)
  <2>1. /\ Goto(r, "flag") /\ lock = None /\ lock' = r
        /\ UNCHANGED <<admins, table, removals, created>>
    BY <1>5 DEF AdvisoryLock, storeVars
  <2>2. GoesOn(r) /\ \A q \in Requests \ {r} : req'[q] = req[q]
    BY <1>s, <2>1, GotoFields DEF GoesOn
  <2>3. QED
    BY <2>1, <2>2, SetupAssumption DEF Quiet, Moves
<1>6. CASE ReadFlag(r)
  <2>1. /\ req[r].at = "flag" /\ UNCHANGED <<admins, table, removals, created>>
        /\ \/ AfterFlag(r, cache[req[r].inst].value)
           \/ Goto(r, "flag-miss") /\ UNCHANGED lock
    BY <1>6 DEF ReadFlag, storeVars
  <2>2. Moves(r)
    BY <1>s, <2>1, GotoMoves, AfterFlagMoves
  <2>3. QED
    BY <2>1, <2>2 DEF Quiet
<1>7. CASE QueryFlag(r)
  <2>1. /\ req[r].at = "flag-miss" /\ (req[r].kind = "setup" => lock = r)
        /\ UNCHANGED <<lock, admins, table, removals, created>>
    BY <1>7, <1>s DEF QueryFlag, storeVars, Holder
  <2>2. /\ req'[r].at = "flag-fill" /\ req'[r].kind = req[r].kind
        /\ req'[r].email = req[r].email /\ req'[r].closed = req[r].closed
        /\ \A q \in Requests \ {r} : req'[q] = req[q]
    BY <1>7 DEF QueryFlag, TypeOK, Request
  <2>3. QED
    BY <1>s, <2>1, <2>2 DEF Quiet, Moves, GoesOn
<1>8. CASE QueryFlagFails(r) \/ FillFlag(r)
  <2>1. /\ req[r].at \in {"flag-miss", "flag-fill"}
        /\ AfterFlag(r, Defaults) \/ AfterFlag(r, req[r].value)
        /\ UNCHANGED <<admins, table, removals, created>>
    BY <1>8 DEF QueryFlagFails, FillFlag, storeVars
  <2>2. Moves(r)
    BY <1>s, <2>1, AfterFlagMoves
  <2>3. QED
    BY <2>1, <2>2 DEF Quiet
<1>9. CASE CheckCredentials(r)
  <2>1. req[r].at = "check" /\ UNCHANGED <<admins, table, removals, created>>
    BY <1>9 DEF CheckCredentials, storeVars
  <2>2. CASE PasswordSignInExists \/ req[r].kind = "status"
    BY <1>9, <2>1, <2>2, RefuseMoves DEF CheckCredentials, Quiet
  <2>3. CASE ~PasswordSignInExists /\ req[r].kind # "status"
    <3>1. Goto(r, "create") /\ UNCHANGED lock /\ req[r].kind = "setup"
      BY <1>9, <2>3 DEF CheckCredentials, TypeOK, Request
    <3>2. Moves(r)
      BY <1>s, <2>1, <2>3, <3>1, GotoMoves
    <3>3. QED
      BY <2>1, <3>2 DEF Quiet
  <2>4. QED
    BY <2>2, <2>3
<1>10. CASE UpsertFirstAdmin(r)
  <2>1. /\ req[r].at = "create" /\ req[r].kind = "setup" /\ lock = r
        /\ UNCHANGED <<lock, admins, table, removals, created>>
    BY <1>10, <1>s DEF UpsertFirstAdmin, storeVars, Shape, Holder
  <2>2. /\ req'[r].at = "commit" /\ req'[r].kind = req[r].kind
        /\ req'[r].email = req[r].email /\ req'[r].closed = req[r].closed
        /\ \A q \in Requests \ {r} : req'[q] = req[q]
    BY <1>10 DEF UpsertFirstAdmin, TypeOK, Request
  <2>3. QED
    BY <1>s, <2>1, <2>2 DEF Quiet, Moves, GoesOn
<1>11. CASE CommitConflicts(r) \/ Abandon(r)
  BY <1>11, RefuseMoves DEF CommitConflicts, Abandon, storeVars, Quiet
<1>12. CASE AfterSetup(r)
  <2>1. Ends(r) /\ \A q \in Requests \ {r} : req'[q] = req[q]
    BY <1>12 DEF AfterSetup, Idle, Ends, TypeOK
  <2>2. QED
    BY <1>12, <2>1 DEF AfterSetup, Quiet, Moves
<1>13. QED
  BY <1>1, <1>2, <1>3, <1>4, <1>5, <1>6, <1>7, <1>8, <1>9, <1>10, <1>11, <1>12 DEF Progress

-----------------------------------------------------------------------------
(* The lock                                                                *)

LEMMA LockStep == TypeOK /\ Shape /\ Holder /\ [Next]_vars => Shape' /\ Holder'
<1> SUFFICES ASSUME TypeOK, Shape, Holder, [Next]_vars
             PROVE  Shape' /\ Holder'
  OBVIOUS
<1>1. ASSUME NEW r \in Requests, Moves(r)
      PROVE  Shape' /\ Holder'
  <2>1. ASSUME NEW q \in Requests \ {r}
        PROVE  /\ req'[q].kind = "setup" => req'[q].email \in Admins
               /\ req'[q].at \in SetupSteps => req'[q].kind = "setup"
               /\ (req'[q].kind = "setup" /\ req'[q].at \in Locked) => lock' = q
    BY <1>1, <2>1 DEF Moves, Shape, Holder
  <2>2. /\ req'[r].kind = "setup" => req'[r].email \in Admins
        /\ req'[r].at \in SetupSteps => req'[r].kind = "setup"
        /\ (req'[r].kind = "setup" /\ req'[r].at \in Locked) => lock' = r
    <3>1. CASE Ends(r)
      BY <3>1 DEF Ends, SetupSteps
    <3>2. CASE GoesOn(r)
      BY <3>2 DEF GoesOn, Shape
    <3>3. QED
      BY <1>1, <3>1, <3>2 DEF Moves
  <2>3. QED
    BY <2>1, <2>2 DEF Shape, Holder
<1>2. ASSUME NEW r \in Requests, NEW e \in Admins, CompleteSetup(r, e)
      PROVE  Shape' /\ Holder'
  <2>1. /\ req'[r].at = "policy" /\ req'[r].kind = "setup" /\ req'[r].email = e
        /\ \A q \in Requests \ {r} : req'[q] = req[q]
        /\ UNCHANGED lock
    BY <1>2 DEF CompleteSetup, TypeOK, Request
  <2>2. QED
    BY <2>1 DEF Shape, Holder, Locked
<1>3. ASSUME NEW r \in Requests, SetupStatus(r)
      PROVE  Shape' /\ Holder'
  <2>1. /\ req'[r].at = "flag" /\ req'[r].kind = "status"
        /\ \A q \in Requests \ {r} : req'[q] = req[q]
        /\ UNCHANGED lock
    BY <1>3 DEF SetupStatus, TypeOK, Request
  <2>2. QED
    BY <2>1 DEF Shape, Holder, SetupSteps
<1>4. ASSUME NEW r \in Requests, CommitSetup(r)
      PROVE  Shape' /\ Holder'
  <2>1. /\ req[r].at = "commit" /\ Goto(r, "invalidate") /\ Unlock(r)
    BY <1>4 DEF CommitSetup
  <2>2. /\ req'[r].at = "invalidate" /\ req'[r].kind = req[r].kind /\ req'[r].email = req[r].email
        /\ \A q \in Requests \ {r} : req'[q] = req[q] /\ (lock = q => lock' = q)
    BY <2>1, GotoFields DEF Unlock
  <2>3. req[r].kind = "setup" /\ req[r].email \in Admins
    BY <2>1 DEF Shape, SetupSteps
  <2>4. QED
    BY <2>2, <2>3 DEF Shape, Holder, Locked
<1>5. ASSUME NEW i \in Instances, Crash(i)
      PROVE  Shape' /\ Holder'
  <2>1. /\ Idle(i).kind = "status" /\ Idle(i).at = "idle"
        /\ \A q \in Requests : req'[q] = IF req[q].inst = i THEN Idle(i) ELSE req[q]
        /\ lock \in Requests /\ req[lock].inst # i => lock' = lock
    BY <1>5 DEF Crash, Idle
  <2>2. QED
    BY <2>1 DEF Shape, Holder, SetupSteps
<1>6. CASE UNCHANGED <<req, lock>>
  BY <1>6 DEF Shape, Holder
<1>7. QED
  BY <1>1, <1>2, <1>3, <1>4, <1>5, <1>6, ProgressMoves
     DEF Next, Quiet, Bootstrap, RemovePassword, Tick, vars

-----------------------------------------------------------------------------
(* One account                                                             *)

\* Without a password sign-in, and from the credential query on, the screen has
\* an account left to create: the lock keeps the others from creating it.
Once == /\ created <= 1 + removals
        /\ ~PasswordSignInExists => created <= removals
        /\ \A r \in Requests : req[r].at \in Decided => created <= removals

LEMMA OnceStep ==
  TypeOK /\ Shape /\ Holder /\ Once /\ [Next]_vars => Once'
<1> SUFFICES ASSUME TypeOK, Shape, Holder, Once, [Next]_vars
             PROVE  Once'
  OBVIOUS
<1>0. created \in Nat /\ removals \in Nat
  BY SetupAssumption DEF TypeOK
<1>1. ASSUME NEW r \in Requests, Quiet(r)
      PROVE  Once'
  <2>1. UNCHANGED <<removals, created>> /\ (PasswordSignInExists' <=> PasswordSignInExists)
    BY <1>1 DEF Quiet, PasswordSignInExists
  <2>2. ASSUME NEW q \in Requests, req'[q].at \in Decided
        PROVE  created <= removals
    <3>1. CASE q # r
      BY <1>1, <2>2, <3>1 DEF Quiet, Moves, Once
    <3>2. CASE q = r
      BY <1>1, <2>2, <3>2 DEF Quiet, Moves, Ends, GoesOn, Once, Decided
    <3>3. QED
      BY <3>1, <3>2
  <2>3. QED
    BY <2>1, <2>2 DEF Once
<1>2. ASSUME NEW r \in Requests, CommitSetup(r)
      PROVE  Once'
  <2>1. /\ req[r].at = "commit" /\ Goto(r, "invalidate") /\ created' = created + 1
        /\ UNCHANGED removals
    BY <1>2 DEF CommitSetup
  <2>2. lock = r /\ req[r].email \in Admins /\ created <= removals
    BY <2>1 DEF Shape, Holder, SetupSteps, Locked, Once, Decided
  <2>3. PasswordSignInExists'
    BY <1>2, <2>2 DEF CommitSetup, PasswordSignInExists, TypeOK
  <2>4. ASSUME NEW q \in Requests
        PROVE  req'[q].at \notin Decided
    <3>1. CASE q = r
      BY <2>1, <3>1, GotoFields DEF Decided
    <3>2. CASE q # r
      <4>1. req'[q] = req[q]
        BY <2>1, <3>2, GotoFields
      <4>2. QED
        BY <2>2, <3>2, <4>1 DEF Shape, Holder, SetupSteps, Locked, Decided
    <3>3. QED
      BY <3>1, <3>2
  <2>5. QED
    BY <1>0, <2>1, <2>2, <2>3, <2>4 DEF Once
<1>3. ASSUME NEW r \in Requests,
             (\E e \in Admins : CompleteSetup(r, e)) \/ SetupStatus(r)
      PROVE  Once'
  <2>1. /\ req'[r].at \notin Decided /\ \A q \in Requests \ {r} : req'[q] = req[q]
        /\ UNCHANGED <<admins, removals, created>>
    <3>1. CASE SetupStatus(r)
      BY <3>1 DEF SetupStatus, TypeOK, Request, Decided
    <3>2. ASSUME NEW e \in Admins, CompleteSetup(r, e)
          PROVE  /\ req'[r].at \notin Decided /\ \A q \in Requests \ {r} : req'[q] = req[q]
                 /\ UNCHANGED <<admins, removals, created>>
      BY <3>2 DEF CompleteSetup, TypeOK, Request, Decided
    <3>3. QED
      BY <1>3, <3>1, <3>2
  <2>2. QED
    BY <2>1 DEF Once, PasswordSignInExists
<1>4. ASSUME NEW e \in Admins, Bootstrap(e)
      PROVE  Once'
  <2>1. PasswordSignInExists'
    BY <1>4 DEF Bootstrap, PasswordSignInExists, TypeOK
  <2>2. QED
    BY <1>4, <2>1 DEF Bootstrap, Once
<1>5. ASSUME NEW e \in Admins, RemovePassword(e)
      PROVE  Once'
  <2>1. created <= removals' /\ created' = created /\ removals' = removals + 1
    BY <1>0, <1>5 DEF RemovePassword, Once
  <2>2. QED
    BY <1>0, <2>1 DEF Once
<1>6. ASSUME NEW i \in Instances, Crash(i)
      PROVE  Once'
  <2>1. /\ \A q \in Requests : req'[q].at \in Decided => req[q].at \in Decided
        /\ UNCHANGED <<admins, removals, created>>
    BY <1>6 DEF Crash, Idle, Decided
  <2>2. QED
    BY <2>1 DEF Once, PasswordSignInExists
<1>7. CASE UNCHANGED <<admins, req, removals, created>>
  BY <1>7 DEF Once, PasswordSignInExists
<1>8. QED
  BY <1>1, <1>2, <1>3, <1>4, <1>5, <1>6, <1>7, ProgressMoves DEF Next, Tick, vars

-----------------------------------------------------------------------------
(* Setup that is over                                                      *)

\* As long as no password sign-in was taken away, what had ended setup when a
\* request arrived is still there at its credential query.
Over ==
    removals = 0 =>
        /\ table = 1 => PasswordSignInExists
        /\ \A r \in Requests : /\ req[r].closed # "no" => PasswordSignInExists
                               /\ req[r].at \in Decided => req[r].closed = "no"

LEMMA OverStep ==
  TypeOK /\ Shape /\ Holder /\ Over /\ [Next]_vars => Over'
<1> SUFFICES ASSUME TypeOK, Shape, Holder, Over, [Next]_vars, removals' = 0
             PROVE  /\ table' = 1 => PasswordSignInExists'
                    /\ \A r \in Requests :
                          /\ req'[r].closed # "no" => PasswordSignInExists'
                          /\ req'[r].at \in Decided => req'[r].closed = "no"
  BY DEF Over
<1> DEFINE Goal == /\ table' = 1 => PasswordSignInExists'
                   /\ \A r \in Requests :
                         /\ req'[r].closed # "no" => PasswordSignInExists'
                         /\ req'[r].at \in Decided => req'[r].closed = "no"
<1>0. removals \in Nat
  BY SetupAssumption DEF TypeOK
<1>1. ASSUME NEW r \in Requests, Quiet(r)
      PROVE  Goal
  <2>1. /\ UNCHANGED table /\ removals = 0
        /\ PasswordSignInExists' <=> PasswordSignInExists
    BY <1>1 DEF Quiet, PasswordSignInExists
  <2>2. /\ req'[r].closed # "no" => PasswordSignInExists
        /\ req'[r].at \in Decided => req'[r].closed = "no"
    BY <1>1, <2>1 DEF Quiet, Moves, Ends, GoesOn, Over, Decided
  <2>3. ASSUME NEW q \in Requests \ {r}
        PROVE  /\ req'[q].closed # "no" => PasswordSignInExists
               /\ req'[q].at \in Decided => req'[q].closed = "no"
    BY <1>1, <2>1, <2>3 DEF Quiet, Moves, Over
  <2>4. QED
    BY <2>1, <2>2, <2>3 DEF Over
<1>2. ASSUME NEW r \in Requests, CommitSetup(r)
      PROVE  Goal
  <2>1. req[r].at = "commit" /\ Goto(r, "invalidate") /\ removals = 0
    BY <1>2 DEF CommitSetup
  <2>2. PasswordSignInExists'
    <3>1. req[r].email \in Admins
      BY <2>1 DEF Shape, SetupSteps
    <3>2. QED
      BY <1>2, <3>1 DEF CommitSetup, PasswordSignInExists, TypeOK
  <2>3. ASSUME NEW q \in Requests, req'[q].at \in Decided
        PROVE  req'[q].closed = "no"
    <3>1. q # r /\ req'[q] = req[q]
      BY <2>1, <2>3, GotoFields DEF Decided
    <3>2. QED
      BY <2>1, <2>3, <3>1 DEF Over
  <2>4. QED
    BY <2>2, <2>3
<1>3. ASSUME NEW r \in Requests, NEW e \in Admins, CompleteSetup(r, e)
      PROVE  Goal
  <2>1. /\ req'[r].at \notin Decided /\ \A q \in Requests \ {r} : req'[q] = req[q]
        /\ req'[r].closed = IF table = 1 THEN "flag"
                            ELSE IF PasswordSignInExists THEN "credential" ELSE "no"
    BY <1>3 DEF CompleteSetup, TypeOK, Request, Decided
  <2>2. removals = 0 /\ UNCHANGED table /\ (PasswordSignInExists' <=> PasswordSignInExists)
    BY <1>3 DEF CompleteSetup, storeVars, PasswordSignInExists
  <2>3. req'[r].closed # "no" => PasswordSignInExists
    BY <2>1, <2>2 DEF Over
  <2>4. QED
    BY <2>1, <2>2, <2>3 DEF Over
<1>4. ASSUME NEW r \in Requests, SetupStatus(r)
      PROVE  Goal
  <2>1. /\ req'[r].at \notin Decided /\ req'[r].closed = req[r].closed
        /\ \A q \in Requests \ {r} : req'[q] = req[q]
    BY <1>4 DEF SetupStatus, TypeOK, Request, Decided
  <2>2. removals = 0 /\ UNCHANGED table /\ (PasswordSignInExists' <=> PasswordSignInExists)
    BY <1>4 DEF SetupStatus, storeVars, PasswordSignInExists
  <2>3. QED
    BY <2>1, <2>2 DEF Over
<1>5. ASSUME NEW e \in Admins, Bootstrap(e)
      PROVE  Goal
  <2>1. PasswordSignInExists' /\ UNCHANGED <<req, removals>>
    BY <1>5 DEF Bootstrap, PasswordSignInExists, TypeOK
  <2>2. QED
    BY <2>1 DEF Over
<1>6. ASSUME NEW e \in Admins, RemovePassword(e)
      PROVE  FALSE
  BY <1>0, <1>6 DEF RemovePassword
<1>7. ASSUME NEW i \in Instances, Crash(i)
      PROVE  Goal
  <2>1. /\ Idle(i).closed = "no" /\ Idle(i).at \notin Decided
        /\ \A q \in Requests : req'[q] \in {Idle(i), req[q]}
        /\ removals = 0 /\ UNCHANGED table
        /\ PasswordSignInExists' <=> PasswordSignInExists
    BY <1>7 DEF Crash, Idle, Decided, PasswordSignInExists
  <2>2. QED
    BY <2>1 DEF Over
<1>8. CASE UNCHANGED <<admins, table, req, removals>>
  <2>1. PasswordSignInExists' <=> PasswordSignInExists
    BY <1>8 DEF PasswordSignInExists
  <2>2. QED
    BY <1>8, <2>1 DEF Over
<1>9. QED
  BY <1>1, <1>2, <1>3, <1>4, <1>5, <1>6, <1>7, <1>8, ProgressMoves DEF Next, Tick, vars

-----------------------------------------------------------------------------
SetupInv == TypeOK /\ Shape /\ Holder /\ Once /\ Over

LEMMA SetupStarts == Init => SetupInv
<1> SUFFICES ASSUME Init
             PROVE  SetupInv
  OBVIOUS
<1>1. \A r \in Requests : \E i \in Instances : req[r] = Idle(i)
  BY DEF Init
<1>2. \A r \in Requests : req[r].at = "idle" /\ req[r].kind = "status" /\ req[r].closed = "no"
  <2>1. \A i \in Instances : Idle(i).at = "idle" /\ Idle(i).kind = "status" /\ Idle(i).closed = "no"
    BY DEF Idle
  <2>2. QED
    BY <1>1, <2>1
<1>3. req \in [Requests -> Request]
  BY <1>1, IdleType DEF Init
<1>4. StoreTypeOK
  BY VersionsKnown, StoreAssumption DEF Init, StoreInit, StoreTypeOK, Empty
<1>5. TypeOK
  BY <1>3, <1>4, SetupAssumption DEF Init, TypeOK
<1>6. Shape /\ Holder
  BY <1>2 DEF Shape, Holder, SetupSteps
<1>7. Once
  BY <1>2 DEF Init, Once, Decided
<1>8. Over
  BY <1>2 DEF Init, StoreInit, Over, Decided
<1>9. QED
  BY <1>5, <1>6, <1>7, <1>8 DEF SetupInv

LEMMA SetupInvariant == Spec => []SetupInv
<1>1. SetupInv /\ [Next]_vars => SetupInv'
  BY TypeStep, LockStep, OnceStep, OverStep DEF SetupInv
<1>2. QED
  BY <1>1, SetupStarts, PTL DEF Spec

\* The tables, the caches and the setup requests have their types, whatever the
\* requests interleave, the processes crash or bootstrap-admin does.
THEOREM SetupTypeCorrect == Spec => []TypeOK
<1>1. SetupInv => TypeOK
  BY DEF SetupInv
<1>2. QED
  BY <1>1, SetupInvariant, PTL

\* Simultaneous setup requests serialise on pg_advisory_xact_lock: the screen
\* creates one super admin, and another only after an operator took a password
\* sign-in away, for any number of requests, processes and connections.
THEOREM SetupCreatesOne == Spec => []SetupCreatesOneAdmin
<1>1. SetupInv => SetupCreatesOneAdmin
  BY DEF SetupInv, Once, SetupCreatesOneAdmin
<1>2. QED
  BY <1>1, SetupInvariant, PTL

\* Setup that was over when the request arrived, through the screen or through
\* bootstrap-admin, creates nobody while no password sign-in is taken away.
THEOREM ClosedStaysClosed == Spec => ClosedScreenStaysClosed
<1>1. SetupInv /\ [Next]_vars
         => [(created' > created /\ removals = 0)
               => \A r \in Requests : CommitSetup(r) => req[r].closed = "no"]_vars
  BY DEF SetupInv, Over, Decided, CommitSetup
<1>2. QED
  BY <1>1, SetupInvariant, PTL DEF Spec, ClosedScreenStaysClosed
=============================================================================
