----------------------------- MODULE MfaMethods -----------------------------
(***************************************************************************)
(* The second factors of one account, at the level of the statements of    *)
(* each transaction: completing an enrolment, removing a factor, replacing *)
(* the recovery codes.  READ COMMITTED as the code relies on it: every     *)
(* statement has its own snapshot, an UPDATE or DELETE waits for the       *)
(* transaction that holds the row and then looks at the row again, and a   *)
(* cycle of waiting transactions is broken by aborting one.                *)
(***************************************************************************)
EXTENDS Naturals, FiniteSets

CONSTANTS Requests,  \* self-service requests in flight at once
          Methods,   \* rows of mfa_methods the account can have
          MaxSets,   \* bound: sets of recovery codes generated
          None

Bounds == MaxSets \in Nat /\ None \notin Requests \cup Methods

VARIABLES methods,   \* committed factor rows
          codeSets,  \* committed sets of recovery codes, by number
          generated, \* how many sets have been generated
          locks,     \* row locks: the owner row, factor rows, code sets
          required,  \* MFA is required by policy or on the account
          req        \* the requests

vars == <<methods, codeSets, generated, locks, required, req>>

-----------------------------------------------------------------------------
Sets == 1..MaxSets

\* What a transaction can lock: the account's row in the users table, a
\* factor, the rows of one set of codes.
Rows == {<<"subject", 0>>} \cup ({"method"} \X Methods) \cup ({"codes"} \X Sets)
Subject == <<"subject", 0>>

Method == [state : {"absent", "pending", "verified", "revoked"}, primary : BOOLEAN]

Steps == {"idle", "proven", "marking", "marked", "clearing", "cleared", "login",
          "authorised", "counting", "revoking", "removed"}

\* mark: what VerifyMFAMethod writes ("none" when it finds no row).
Request == [at : Steps, kind : {"verify", "enrol", "remove", "regenerate"},
            method : Methods \cup {None}, primary : BOOLEAN,
            mark : {"none", "verified", "revoked"}, doomed : SUBSET Sets,
            required : BOOLEAN]

Idle == [at |-> "idle", kind |-> "verify", method |-> None, primary |-> FALSE,
         mark |-> "none", doomed |-> {}, required |-> FALSE]

TypeOK == /\ methods \in [Methods -> Method]
          /\ codeSets \subseteq Sets
          /\ generated \in 0..MaxSets
          /\ locks \in [Rows -> Requests \cup {None}]
          /\ required \in BOOLEAN
          /\ req \in [Requests -> Request]

Init == /\ methods = [m \in Methods |-> [state |-> "absent", primary |-> FALSE]]
        /\ codeSets = {}
        /\ generated = 0
        /\ locks = [x \in Rows |-> None]
        /\ required \in BOOLEAN
        /\ req = [r \in Requests |-> Idle]

-----------------------------------------------------------------------------
Verified == {m \in Methods : methods[m].state = "verified"}

Goto(r, step) == req' = [req EXCEPT ![r].at = step]

Take(r, x) == locks[x] \in {None, r} /\ locks' = [locks EXCEPT ![x] = r]

Release(r) == locks' = [x \in Rows |-> IF locks[x] = r THEN None ELSE locks[x]]

\* What the transaction wrote to the factor rows becomes visible.
ApplyMark(r) ==
    methods' = [m \in Methods |->
        IF m # req[r].method \/ req[r].mark = "none" THEN methods[m]
        ELSE [state |-> req[r].mark, primary |-> req[r].mark = "verified" /\ req[r].primary]]

-----------------------------------------------------------------------------
\* StartTOTPEnrollment: the row, unverified.
StartTOTPEnrollment(m) ==
    /\ methods[m].state = "absent"
    /\ methods' = [methods EXCEPT ![m].state = "pending"]
    /\ UNCHANGED <<codeSets, generated, locks, required, req>>

\* VerifyTOTPEnrollment up to its transaction: the row is there (GetMFAMethod
\* takes verified rows too) and the code proves possession.  "enrol" is the
\* mid-login case, which also issues a session.
ProvePossession(r, m, kind) ==
    /\ req[r].at = "idle" /\ generated < MaxSets
    /\ methods[m].state \in {"pending", "verified"}
    /\ req' = [req EXCEPT ![r] = [Idle EXCEPT !.at = "proven", !.kind = kind, !.method = m]]
    /\ UNCHANGED <<methods, codeSets, generated, locks, required>>

\* VerifyMFAMethod decides the default on its statement's snapshot ...
VerifySnapshot(r) ==
    /\ req[r].at = "proven"
    /\ req' = [req EXCEPT ![r].at = "marking",
                          ![r].primary = (Verified \ {req[r].method} = {})]
    /\ UNCHANGED <<methods, codeSets, generated, locks, required>>

\* Mutant: the UPDATE does not ask for revoked_at IS NULL.
VerifyMFAMethodRevived(r) ==
    /\ req[r].at = "marking"
    /\ Take(r, <<"method", req[r].method>>)
    /\ req' = [req EXCEPT ![r].at = "marked", ![r].mark = "verified"]
    /\ UNCHANGED <<methods, codeSets, generated, required>>

\* ... and writes the row once it has it, unless it has been revoked.
VerifyMFAMethod(r) ==
    /\ req[r].at = "marking"
    /\ Take(r, <<"method", req[r].method>>)
    /\ req' = [req EXCEPT ![r].at = "marked",
                  ![r].mark = IF methods[req[r].method].state = "revoked" THEN "none"
                              ELSE "verified"]
    /\ UNCHANGED <<methods, codeSets, generated, required>>

\* RegenerateRecoveryCodes, the password confirmed again.
Regenerate(r) ==
    /\ req[r].at = "idle" /\ generated < MaxSets
    /\ req' = [req EXCEPT ![r] = [Idle EXCEPT !.at = "marked", !.kind = "regenerate"]]
    /\ UNCHANGED <<methods, codeSets, generated, locks, required>>

\* ReplaceRecoveryCodes: DELETE sees the sets committed when it starts ...
ReplaceSnapshot(r) ==
    /\ req[r].at = "marked" /\ generated < MaxSets
    /\ req' = [req EXCEPT ![r].at = "clearing", ![r].doomed = codeSets]
    /\ UNCHANGED <<methods, codeSets, generated, locks, required>>

\* ... waits for the transactions that hold them, then the new set goes in.
ReplaceRecoveryCodes(r) ==
    /\ req[r].at = "clearing" /\ generated < MaxSets
    /\ \A n \in req[r].doomed : locks[<<"codes", n>>] \in {None, r}
    /\ locks' = [x \in Rows |->
          IF x[1] = "codes" /\ x[2] \in (req[r].doomed \cap codeSets) \cup {generated + 1} THEN r
          ELSE locks[x]]
    /\ generated' = generated + 1
    /\ Goto(r, "cleared")
    /\ UNCHANGED <<methods, codeSets, required>>

\* Mid-login, IssueSession and RecordLogin need the owner row.
RecordLogin(r) ==
    /\ req[r].at = "cleared" /\ req[r].kind = "enrol"
    /\ Take(r, Subject)
    /\ Goto(r, "login")
    /\ UNCHANGED <<methods, codeSets, generated, required>>

\* Mutant: the INSERT of the new codes is lost.
CommitReplaceLosing(r) ==
    /\ req[r].at = (IF req[r].kind = "enrol" THEN "login" ELSE "cleared")
    /\ ApplyMark(r)
    /\ codeSets' = codeSets \ req[r].doomed
    /\ Release(r)
    /\ req' = [req EXCEPT ![r] = Idle]
    /\ UNCHANGED <<generated, required>>

CommitReplace(r) ==
    /\ req[r].at = (IF req[r].kind = "enrol" THEN "login" ELSE "cleared")
    /\ ApplyMark(r)
    /\ codeSets' = (codeSets \ req[r].doomed)
                     \cup {n \in Sets : locks[<<"codes", n>>] = r /\ n \notin req[r].doomed}
    /\ Release(r)
    /\ req' = [req EXCEPT ![r] = Idle]
    /\ UNCHANGED <<generated, required>>

\* DeleteMFA up to its transaction: the password, and the policy as it is now.
AuthoriseRemoval(r, m) ==
    /\ req[r].at = "idle"
    /\ req' = [req EXCEPT ![r] = [Idle EXCEPT !.at = "authorised", !.kind = "remove",
                                     !.method = m, !.required = required]]
    /\ UNCHANGED <<methods, codeSets, generated, locks, required>>

\* Mutant: the owner row is not locked before counting.
LockSubjectSkipped(r) ==
    /\ req[r].at = "authorised"
    /\ Goto(r, "counting")
    /\ UNCHANGED <<methods, codeSets, generated, locks, required>>

\* CountVerifiedMFAMethods(lockSubject) serialises the removals ...
LockSubject(r) ==
    /\ req[r].at = "authorised"
    /\ Take(r, Subject)
    /\ Goto(r, "counting")
    /\ UNCHANGED <<methods, codeSets, generated, required>>

\* ... and counts; the last factor stays when the policy asks for one.
CountVerified(r) ==
    /\ req[r].at = "counting"
    /\ IF req[r].required /\ Cardinality(Verified) <= 1
       THEN Release(r) /\ req' = [req EXCEPT ![r] = Idle]
       ELSE Goto(r, "revoking") /\ UNCHANGED locks
    /\ UNCHANGED <<methods, codeSets, generated, required>>

RevokeMFAMethod(r) ==
    /\ req[r].at = "revoking"
    /\ Take(r, <<"method", req[r].method>>)
    /\ req' = [req EXCEPT ![r].at = "removed",
                  ![r].mark = IF methods[req[r].method].state \in {"pending", "verified"}
                              THEN "revoked" ELSE "none"]
    /\ UNCHANGED <<methods, codeSets, generated, required>>

CommitRemoval(r) ==
    /\ req[r].at = "removed"
    /\ ApplyMark(r)
    /\ Release(r)
    /\ req' = [req EXCEPT ![r] = Idle]
    /\ UNCHANGED <<codeSets, generated, required>>

\* The lock the next statement of r needs.
Needs(r) ==
    CASE req[r].at \in {"marking", "revoking"} -> {<<"method", req[r].method>>}
      [] req[r].at = "clearing" -> {"codes"} \X req[r].doomed
      [] req[r].at = "authorised" -> {Subject}
      [] req[r].at = "cleared" /\ req[r].kind = "enrol" -> {Subject}
      [] OTHER -> {}

WaitsFor(r) == {locks[x] : x \in Needs(r)} \ {None, r}

Deadlocked(r) ==
    \E S \in SUBSET Requests : r \in S /\ \A q \in S : WaitsFor(q) \cap S # {}

\* An error, a lost client or the deadlock detector: InTx rolls back.
Rollback(r) ==
    /\ Release(r)
    /\ req' = [req EXCEPT ![r] = Idle]
    /\ UNCHANGED <<methods, codeSets, generated, required>>

DeadlockAbort(r) == Deadlocked(r) /\ Rollback(r)

Disconnect(r) == req[r].at # "idle" /\ Rollback(r)

\* An operator changes the policy or the account's own requirement.
SetPolicy == /\ required' = ~required
             /\ UNCHANGED <<methods, codeSets, generated, locks, req>>

Next == \/ \E m \in Methods : StartTOTPEnrollment(m)
        \/ \E r \in Requests :
              \/ \E m \in Methods : \/ ProvePossession(r, m, "verify")
                                    \/ ProvePossession(r, m, "enrol")
                                    \/ AuthoriseRemoval(r, m)
              \/ VerifySnapshot(r) \/ VerifyMFAMethod(r)
              \/ Regenerate(r) \/ ReplaceSnapshot(r) \/ ReplaceRecoveryCodes(r)
              \/ RecordLogin(r) \/ CommitReplace(r)
              \/ LockSubject(r) \/ CountVerified(r) \/ RevokeMFAMethod(r) \/ CommitRemoval(r)
              \/ DeadlockAbort(r) \/ Disconnect(r)
        \/ SetPolicy

Spec == Init /\ [][Next]_vars

-----------------------------------------------------------------------------
(* Properties.                                                             *)

\* "You cannot remove your last factor": only a removal authorised while MFA
\* was not required ever leaves an account that had a factor without one,
\* whatever removals and enrolments run beside it; and a removed factor never
\* counts again, although an enrolment of it may have been waiting for the
\* removal to commit.
RemovalHolds ==
    /\ (Verified # {} /\ Verified' = {})
         => \E r \in Requests : req[r].kind = "remove" /\ CommitRemoval(r) /\ ~req[r].required
    /\ \A m \in Methods : methods[m].state = "revoked" => methods'[m].state = "revoked"

RemovalsHold == [][RemovalHolds]_vars

\* An account with a factor has recovery codes for the day it loses it: the
\* factor and its codes become visible together, and of the replacements that
\* run beside each other the last never deletes what it did not replace.
AlwaysSomeCodes == Verified # {} => codeSets # {}

\* "The first verified method for a subject becomes primary, so there is
\* always exactly one default."  Violated: removing the default, or verifying
\* it again, promotes no other factor.
ExactlyOneDefault ==
    Verified # {} => Cardinality({m \in Verified : methods[m].primary}) = 1

\* "Regenerating always invalidates every previous code."  Violated: of two
\* replacements the later deletes the set it saw, not the one put in between.
OneSetOfCodes == Cardinality(codeSets) <= 1

\* "VerifyMFAMethod marks an enrolment complete", and the handler answers
\* "verified".  Violated: the row may have been removed since it was read.
CompletedMeansVerified ==
    [][\A r \in Requests : (req[r].kind # "regenerate" /\ CommitReplace(r))
          => methods'[req[r].method].state = "verified"]_vars
=============================================================================
