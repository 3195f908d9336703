------------------------------- MODULE Setup -------------------------------
(***************************************************************************)
(* First-run setup: creating the first super admin from the browser, once. *)
(* Composes the setup handlers with the settings cache (SettingsStore),    *)
(* the connection pool of the process, the advisory lock that serialises   *)
(* setup transactions, and bootstrap-admin, which runs in a process of its *)
(* own and takes no lock.  Version 1 of the settings table is the one with *)
(* setupCompleted set; version 0 is the fresh database.                    *)
(***************************************************************************)
EXTENDS SettingsStore, FiniteSets

CONSTANTS Requests,    \* setup and setup-status requests in flight at once
          Admins,      \* addresses of guardian_admin_users
          MaxOpen,     \* MaxOpenConns of a process
          MaxRemovals, \* bound: how often staff lose their password sign-in
          None

ASSUME SetupAssumption == /\ MaxVersion = 1 /\ MaxOpen \in Nat \ {0}
                          /\ MaxRemovals \in Nat
                          /\ None \notin Requests \cup Admins

VARIABLES admins,   \* guardian_admin_users with their password credential
          lock,     \* holder of setupAdvisoryLockKey
          req,      \* what each request is doing
          removals, \* how often an operator took password sign-in away
          created   \* history: accounts the setup screen has created

vars == <<now, table, cache, admins, lock, req, removals, created>>

-----------------------------------------------------------------------------
(* "policy" and "flag" are the two settings reads of CompleteSetup, outside *)
(* and inside its transaction; each may miss ("-miss") and hold what it     *)
(* queried ("-fill").                                                       *)
Steps == {"idle", "policy", "policy-miss", "policy-fill", "begin", "lock",
          "flag", "flag-miss", "flag-fill", "check", "create", "commit", "invalidate"}

InTx == {"lock", "flag", "flag-miss", "flag-fill", "check", "create", "commit"}

Request == [at : Steps, kind : {"setup", "status"}, inst : Instances,
            email : Admins \cup {None}, adopt : BOOLEAN, value : Versions,
            closed : {"no", "credential", "flag"}]

Idle(i) == [at |-> "idle", kind |-> "status", inst |-> i, email |-> None,
            adopt |-> FALSE, value |-> Defaults, closed |-> "no"]

Admin == [exists : BOOLEAN, usable : BOOLEAN, super : BOOLEAN]

TypeOK == /\ StoreTypeOK
          /\ admins \in [Admins -> Admin]
          /\ lock \in Requests \cup {None}
          /\ req \in [Requests -> Request]
          /\ removals \in 0..MaxRemovals
          /\ created \in Nat

\* Migration 00018 seeds at most one identity, without a credential.
Init == /\ StoreInit
        /\ admins \in [Admins -> {a \in Admin : ~a.usable /\ a.super = a.exists}]
        /\ Cardinality({a \in Admins : admins[a].exists}) <= 1
        /\ lock = None
        /\ req \in [Requests -> {Idle(i) : i \in Instances}]
        /\ removals = 0
        /\ created = 0

-----------------------------------------------------------------------------
\* A staff account with a live password: the query of setupRequired.
PasswordSignInExists == \E a \in Admins : admins[a].usable

\* Connections of the pool of process i in use.
Conns(i) == Cardinality({r \in Requests : req[r].inst = i /\ req[r].kind = "setup"
                                          /\ req[r].at \in InTx})

\* database/sql blocks here, without a deadline, until one is free.
ConnectionFree(i) == Conns(i) < MaxOpen

\* Only the -fill steps hold a value that was queried.
Goto(r, step) == req' = [req EXCEPT ![r].at = step, ![r].value = Defaults]

Unlock(r) == lock' = IF lock = r THEN None ELSE lock

\* Mutant: the lock belongs to the connection, not to the transaction.
RefuseKeepingLock(r) ==
    /\ req' = [req EXCEPT ![r] = Idle(req[r].inst)]
    /\ lock' = lock

\* The handler answers and its transaction, if any, is rolled back.
Refuse(r) ==
    /\ req' = [req EXCEPT ![r] = Idle(req[r].inst)]
    /\ Unlock(r)

\* setupRequired after the flag: TRUE ends it, FALSE goes on to the query.
AfterFlag(r, value) ==
    IF value = 1 THEN Refuse(r) ELSE Goto(r, "check") /\ UNCHANGED lock

-----------------------------------------------------------------------------
\* POST /setup; closed records what had ended setup when it arrived.
CompleteSetup(r, e) ==
    /\ req[r].at = "idle"
    /\ req' = [req EXCEPT ![r].at = "policy", ![r].kind = "setup", ![r].email = e,
                          ![r].closed = IF table = 1 THEN "flag"
                              ELSE IF PasswordSignInExists THEN "credential" ELSE "no"]
    /\ UNCHANGED <<storeVars, admins, lock, removals, created>>

\* GET /setup: setupRequired without a transaction.
SetupStatus(r) ==
    /\ req[r].at = "idle"
    /\ req' = [req EXCEPT ![r].at = "flag", ![r].kind = "status"]
    /\ UNCHANGED <<storeVars, admins, lock, removals, created>>

\* PasswordMinLength, before the transaction.
ReadPolicy(r) ==
    /\ req[r].at = "policy"
    /\ Goto(r, IF Fresh(req[r].inst) THEN "begin" ELSE "policy-miss")
    /\ UNCHANGED <<storeVars, admins, lock, removals, created>>

QueryPolicy(r) ==
    /\ req[r].at = "policy-miss" /\ ConnectionFree(req[r].inst)
    /\ req' = [req EXCEPT ![r].at = "policy-fill", ![r].value = table]
    /\ UNCHANGED <<storeVars, admins, lock, removals, created>>

\* Int swallows the error of a failed query and answers with the default.
QueryPolicyFails(r) ==
    /\ req[r].at = "policy-miss" /\ ConnectionFree(req[r].inst)
    /\ Goto(r, "begin")
    /\ UNCHANGED <<storeVars, admins, lock, removals, created>>

FillPolicy(r) ==
    /\ req[r].at = "policy-fill"
    /\ Fill(req[r].inst, req[r].value)
    /\ Goto(r, "begin")
    /\ UNCHANGED <<now, table, admins, lock, removals, created>>

\* InTx takes a connection and keeps it.
BeginTx(r) ==
    /\ req[r].at = "begin" /\ ConnectionFree(req[r].inst)
    /\ Goto(r, "lock")
    /\ UNCHANGED <<storeVars, admins, lock, removals, created>>

\* Mutant: the advisory lock is not taken.
AdvisoryLockSkipped(r) ==
    /\ req[r].at = "lock"
    /\ Goto(r, "flag")
    /\ UNCHANGED <<storeVars, admins, lock, removals, created>>

\* pg_advisory_xact_lock waits for the holder's transaction to end.
AdvisoryLock(r) ==
    /\ req[r].at = "lock" /\ lock = None
    /\ lock' = r
    /\ Goto(r, "flag")
    /\ UNCHANGED <<storeVars, admins, removals, created>>

\* h.Settings.Bool(KeySetupCompleted): the cache, or a second connection.
ReadFlag(r) ==
    /\ req[r].at = "flag"
    /\ IF Fresh(req[r].inst) THEN AfterFlag(r, cache[req[r].inst].value)
       ELSE Goto(r, "flag-miss") /\ UNCHANGED lock
    /\ UNCHANGED <<storeVars, admins, removals, created>>

QueryFlag(r) ==
    /\ req[r].at = "flag-miss" /\ ConnectionFree(req[r].inst)
    /\ req' = [req EXCEPT ![r].at = "flag-fill", ![r].value = table]
    /\ UNCHANGED <<storeVars, admins, lock, removals, created>>

\* Bool swallows the error of a failed query and reports the default, false.
QueryFlagFails(r) ==
    /\ req[r].at = "flag-miss" /\ ConnectionFree(req[r].inst)
    /\ AfterFlag(r, Defaults)
    /\ UNCHANGED <<storeVars, admins, removals, created>>

FillFlag(r) ==
    /\ req[r].at = "flag-fill"
    /\ Fill(req[r].inst, req[r].value)
    /\ AfterFlag(r, req[r].value)
    /\ UNCHANGED <<now, table, admins, removals, created>>

\* Mutant: the flag alone decides.
CheckCredentialsSkipped(r) ==
    /\ req[r].at = "check"
    /\ IF req[r].kind = "status" THEN Refuse(r)
       ELSE Goto(r, "create") /\ UNCHANGED lock
    /\ UNCHANGED <<storeVars, admins, removals, created>>

\* The credential query; the transaction sees what is committed at this point.
CheckCredentials(r) ==
    /\ req[r].at = "check"
    /\ req[r].kind = "status" => ConnectionFree(req[r].inst)
    /\ IF PasswordSignInExists \/ req[r].kind = "status" THEN Refuse(r)
       ELSE Goto(r, "create") /\ UNCHANGED lock
    /\ UNCHANGED <<storeVars, admins, removals, created>>

\* upsertFirstAdmin looks the address up, to adopt the row or insert one.
UpsertFirstAdmin(r) ==
    /\ req[r].at = "create"
    /\ req' = [req EXCEPT ![r].at = "commit", ![r].adopt = admins[req[r].email].exists]
    /\ UNCHANGED <<storeVars, admins, lock, removals, created>>

\* SetPassword, the role and the flag commit with the account.
CommitSetup(r) ==
    /\ req[r].at = "commit"
    /\ req[r].adopt \/ ~admins[req[r].email].exists
    /\ admins' = [admins EXCEPT ![req[r].email] =
                    [exists |-> TRUE, usable |-> TRUE, super |-> TRUE]]
    /\ table' = 1
    /\ created' = created + 1
    /\ Unlock(r)
    /\ Goto(r, "invalidate")
    /\ UNCHANGED <<now, cache, removals>>

\* Somebody else inserted the address meanwhile: unique violation, 500.
CommitConflicts(r) ==
    /\ req[r].at = "commit"
    /\ ~req[r].adopt /\ admins[req[r].email].exists
    /\ Refuse(r)
    /\ UNCHANGED <<storeVars, admins, removals, created>>

AfterSetup(r) ==
    /\ req[r].at = "invalidate"
    /\ Invalidate(req[r].inst)
    /\ req' = [req EXCEPT ![r] = Idle(req[r].inst)]
    /\ UNCHANGED <<now, table, admins, lock, removals, created>>

\* A statement fails or the client goes away, which cancels what the request
\* waits for: its transaction is rolled back.  Steps in memory go on.
Abandon(r) ==
    /\ req[r].at \notin {"idle", "policy-fill", "flag-fill", "invalidate"}
    /\ Refuse(r)
    /\ UNCHANGED <<storeVars, admins, removals, created>>

\* bootstrap-admin: one transaction of a separate process.
Bootstrap(e) ==
    /\ admins' = [admins EXCEPT ![e] = [exists |-> TRUE, usable |-> TRUE, super |-> TRUE]]
    /\ table' = 1
    /\ UNCHANGED <<now, cache, lock, req, removals, created>>

\* The last password goes: a credential revoked, an account suspended, SSO only.
RemovePassword(e) ==
    /\ removals < MaxRemovals /\ admins[e].usable
    /\ admins' = [admins EXCEPT ![e].usable = FALSE]
    /\ removals' = removals + 1
    /\ UNCHANGED <<storeVars, lock, req, created>>

\* The process dies: the database rolls its transactions back.
Crash(i) ==
    /\ Invalidate(i)
    /\ req' = [r \in Requests |-> IF req[r].inst = i THEN Idle(i) ELSE req[r]]
    /\ lock' = IF lock \in Requests /\ req[lock].inst = i THEN None ELSE lock
    /\ UNCHANGED <<now, table, admins, removals, created>>

Tick == Advance /\ UNCHANGED <<table, cache, admins, lock, req, removals, created>>

Progress(r) ==
    \/ ReadPolicy(r) \/ QueryPolicy(r) \/ QueryPolicyFails(r) \/ FillPolicy(r)
    \/ BeginTx(r) \/ AdvisoryLock(r)
    \/ ReadFlag(r) \/ QueryFlag(r) \/ QueryFlagFails(r) \/ FillFlag(r)
    \/ CheckCredentials(r) \/ UpsertFirstAdmin(r)
    \/ CommitSetup(r) \/ CommitConflicts(r) \/ AfterSetup(r)

Next == \/ \E r \in Requests : \/ \E e \in Admins : CompleteSetup(r, e)
                               \/ SetupStatus(r) \/ Progress(r) \/ Abandon(r)
        \/ \E e \in Admins : Bootstrap(e) \/ RemovePassword(e)
        \/ \E i \in Instances : Crash(i)
        \/ Tick

Spec == Init /\ [][Next]_vars

\* Waiters for the advisory lock and for a connection are served in turn.
FairSpec == Spec /\ \A r \in Requests : SF_vars(Progress(r))

-----------------------------------------------------------------------------
(* Properties.                                                             *)

\* "Two simultaneous setup requests serialise here ... refused instead of
\* creating a second super admin": the setup screen creates one account, and
\* another one only after an operator took a password sign-in away.
SetupCreatesOneAdmin == created <= 1 + removals

\* Setup that was over when the request arrived, by the screen or by
\* bootstrap-admin ("so it closes that screen too"), creates nobody.
ClosedScreenStaysClosed ==
    [][(created' > created /\ removals = 0)
          => \A r \in Requests : CommitSetup(r) => req[r].closed = "no"]_vars

\* The holder of the lock needs a second connection, and the transactions that
\* wait for its lock have them all: they wait until a client goes away.
PoolStarved ==
    lock # None /\ req[lock].at = "flag-miss" /\ ~ConnectionFree(req[lock].inst)

\* Every setup request is answered unless the pool stays starved, also when the
\* pool was starved meanwhile and a client that went away freed a connection:
\* nothing else keeps a connection or the lock for ever.
EverySetupIsAnswered ==
    \A r \in Requests : (req[r].at # "idle") ~> (req[r].at = "idle" \/ PoolStarved)

\* Every request is answered.  Violated: nothing limits how many setup requests
\* hold a connection while they wait for the lock.
NoSetupHangs == \A r \in Requests : (req[r].at # "idle") ~> (req[r].at = "idle")

\* "The one-way flag is checked first and on its own: once set, no credential
\* state can re-open setup": a request that arrives with the flag committed
\* creates nobody.  Violated: the flag is read through the cache.
FlagIsALatch == [][\A r \in Requests : CommitSetup(r) => req[r].closed # "flag"]_vars
=============================================================================
