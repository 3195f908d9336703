------------------------------- MODULE SignIn -------------------------------
(***************************************************************************)
(* Signing in to one plane of the Guardian control plane, followed for one *)
(* identity: password, second factor, session, and the self-service and    *)
(* recovery requests that race with a sign-in.                             *)
(*                                                                         *)
(* Every HTTP request is a process (Requests).  A step is one database     *)
(* statement or one db.InTx transaction; what a handler has read so far is *)
(* kept in req[r], so everything that other requests commit between two of *)
(* its steps is seen by the model.  Lifetimes are abstracted to the flag   *)
(* "expired" (Sessions.tla has the clock), lockout rows are Lockout.tla's. *)
(***************************************************************************)
EXTENDS Naturals, FiniteSets

CONSTANTS Requests,       \* requests that can be in flight at once
          Challenges,     \* rows of mfa_challenges
          Sessions,       \* rows of the plane's sessions table
          Methods,        \* rows of the plane's mfa_methods table
          RecoveryCodes,  \* rows of mfa_recovery_codes
          MaxAttempts,    \* MaxChallengeAttempts
          MaxPasswords,   \* bound: how often the password is replaced
          None            \* "no row"

ASSUME RowsAssumption == None \notin Challenges \cup Sessions \cup RecoveryCodes
ASSUME BoundsAssumption == MaxAttempts \in Nat \ {0} /\ MaxPasswords \in Nat
ASSUME RequestsAssumption == IsFiniteSet(Requests)

VARIABLES account,     \* status, number of the current password, MFA policy,
                       \* number of the password set by the last reset (history)
          methods,     \* TOTP enrolments
          codes,       \* recovery codes
          challenges,  \* half-authenticated sign-ins
          sessions,    \* session rows
          revoking,    \* sessions that a reset under way has revoked and not
                       \* committed; None without one
          req          \* what each request has done and read so far

vars == <<account, methods, codes, challenges, sessions, revoking, req>>

-----------------------------------------------------------------------------
Passwords == 0..MaxPasswords

Steps == {"idle", "verified", "start_login", "start_enrolment", "issue",
          "loaded", "counted", "proven", "authed", "confirmed",
          "enrolling", "possessed"}

AccountRow == [status : {"ACTIVE", "SUSPENDED"}, password : Passwords,
               mfaRequired : BOOLEAN, resetAt : Passwords]

MethodRow == [state : {"absent", "pending", "verified", "revoked"},
              by : Challenges \cup {None}]

ChallengeRow == [state : {"absent", "open", "consumed"},
                 purpose : {"LOGIN", "ENROLLMENT"},
                 attempts : Nat, expired : BOOLEAN, password : Passwords]

\* chal and code name the challenge and the recovery code a session was
\* earned with; the code keeps them in the audit trail only.  password is the
\* one its sign-in began with and late that a reset was under way, or had
\* replaced that password, when the session was issued (history).
SessionRow == [state : {"absent", "live", "revoked"}, mfa : BOOLEAN,
               chal : Challenges \cup {None},
               code : RecoveryCodes \cup {None}, password : Passwords,
               late : BOOLEAN]

RequestState == [at : Steps, password : Passwords,
                 chal : Challenges \cup {None}, sess : Sessions \cup {None},
                 code : RecoveryCodes \cup {None}, method : Methods \cup {None},
                 mfaRequired : BOOLEAN]

Idle == [at |-> "idle", password |-> 0, chal |-> None, sess |-> None,
         code |-> None, method |-> None, mfaRequired |-> FALSE]

TypeOK == /\ account \in AccountRow
          /\ methods \in [Methods -> MethodRow]
          /\ codes \in [RecoveryCodes -> {"absent", "unused", "used", "deleted"}]
          /\ challenges \in [Challenges -> ChallengeRow]
          /\ sessions \in [Sessions -> SessionRow]
          /\ revoking \in (SUBSET Sessions) \cup {None}
          /\ req \in [Requests -> RequestState]

Init == /\ account \in [status : {"ACTIVE"}, password : {0}, mfaRequired : BOOLEAN,
                       resetAt : {0}]
        /\ methods = [m \in Methods |-> [state |-> "absent", by |-> None]]
        /\ codes = [k \in RecoveryCodes |-> "absent"]
        /\ challenges = [c \in Challenges |->
              [state |-> "absent", purpose |-> "LOGIN", attempts |-> 0,
               expired |-> FALSE, password |-> 0]]
        /\ sessions = [s \in Sessions |->
              [state |-> "absent", mfa |-> FALSE, chal |-> None, code |-> None,
               password |-> 0, late |-> FALSE]]
        /\ revoking = None
        /\ req = [r \in Requests |-> Idle]

-----------------------------------------------------------------------------
(* Helpers shared by the handlers.                                         *)

Enrolled == {m \in Methods : methods[m].state = "verified"}

\* Mutant: the row is loaded however many guesses it has seen.
LoadableAnyAttempts(c) == challenges[c].state = "open" /\ ~challenges[c].expired

\* LoadChallenge accepts the row: present, unspent, unexpired, guesses left.
Loadable(c) == /\ challenges[c].state = "open"
               /\ ~challenges[c].expired
               /\ challenges[c].attempts < MaxAttempts

\* Mutant: a revoked row is taken for the new session.
IssueSessionReusingRow(s, mfa, chal, code, password) ==
    /\ sessions[s].state # "live"
    /\ sessions' = [sessions EXCEPT ![s] =
          [state |-> "live", mfa |-> mfa, chal |-> chal, code |-> code,
           password |-> password,
           late |-> revoking # None \/ password < account.resetAt]]

\* IssueSession, inside the caller's transaction.
IssueSession(s, mfa, chal, code, password) ==
    /\ sessions[s].state = "absent"
    /\ sessions' = [sessions EXCEPT ![s] =
          [state |-> "live", mfa |-> mfa, chal |-> chal, code |-> code,
           password |-> password,
           late |-> revoking # None \/ password < account.resetAt]]

Live == {s \in Sessions : sessions[s].state = "live"}

\* RevokeSessionsForSubject, of those the statement found.
RevokeSessions(those) ==
    sessions' = [s \in Sessions |->
        IF sessions[s].state = "live" /\ s \in those
        THEN [sessions[s] EXCEPT !.state = "revoked"] ELSE sessions[s]]

\* SetPassword: the previous credential is revoked, a fresh one inserted.
SetPassword(byReset) ==
    /\ account.password < MaxPasswords
    /\ account' = [account EXCEPT !.password = @ + 1,
                      !.resetAt = IF byReset THEN account.password + 1 ELSE @]

\* ReplaceRecoveryCodes: all the old codes go, a new set is stored.  fresh is
\* the part of the new set that RecoveryCodes still has rows for.
ReplaceRecoveryCodes(fresh) ==
    /\ \A k \in fresh : codes[k] = "absent"
    /\ codes' = [k \in RecoveryCodes |->
          IF k \in fresh THEN "unused"
          ELSE IF codes[k] = "absent" THEN "absent" ELSE "deleted"]

Goto(r, step) == req' = [req EXCEPT ![r].at = step]
Done(r) == req' = [req EXCEPT ![r] = Idle]

-----------------------------------------------------------------------------
(* POST /login                                                             *)

\* LoadIdentityByEmail reads the account and its newest credential in one
\* statement; the password and the status are checked against that row.
LoginVerify(r) ==
    /\ req[r].at = "idle"
    /\ account.status = "ACTIVE"
    /\ req' = [req EXCEPT ![r] =
          [Idle EXCEPT !.at = "verified", !.password = account.password]]
    /\ UNCHANGED <<account, methods, codes, challenges, sessions, revoking>>

\* ListMFAMethods and DecideMFA.
LoginDecide(r) ==
    /\ req[r].at = "verified"
    /\ Goto(r, IF Enrolled # {} THEN "start_login"
               ELSE IF account.mfaRequired THEN "start_enrolment"
               ELSE "issue")
    /\ UNCHANGED <<account, methods, codes, challenges, sessions, revoking>>

\* startChallenge: the transaction around IssueChallenge.
StartChallenge(r, c) ==
    /\ req[r].at \in {"start_login", "start_enrolment"}
    /\ challenges[c].state = "absent"
    /\ challenges' = [challenges EXCEPT ![c] =
          [state |-> "open", attempts |-> 0, expired |-> FALSE,
           purpose |-> IF req[r].at = "start_login" THEN "LOGIN" ELSE "ENROLLMENT",
           password |-> req[r].password]]
    /\ Done(r)
    /\ UNCHANGED <<account, methods, codes, sessions, revoking>>

\* completeLogin, reached from Login (no challenge) or from VerifyMFA.
CompleteLogin(r, s) ==
    /\ req[r].at = "issue"
    /\ IssueSession(s, req[r].chal # None, req[r].chal, req[r].code, req[r].password)
    /\ Done(r)
    /\ UNCHANGED <<account, methods, codes, challenges, revoking>>

-----------------------------------------------------------------------------
(* POST /mfa/verify                                                        *)

\* LoadChallenge.  The purpose of the challenge is not looked at.
VerifyLoad(r, c) ==
    /\ req[r].at = "idle"
    /\ Loadable(c)
    /\ req' = [req EXCEPT ![r] =
          [Idle EXCEPT !.at = "loaded", !.chal = c,
                       !.password = challenges[c].password]]
    /\ UNCHANGED <<account, methods, codes, challenges, sessions, revoking>>

\* Mutant: the column counts the guesses left, from zero.
VerifyCountDown(r) ==
    /\ req[r].at = "loaded"
    /\ challenges' = [challenges EXCEPT ![req[r].chal].attempts = @ - 1]
    /\ Goto(r, "counted")
    /\ UNCHANGED <<account, methods, codes, sessions, revoking>>

\* RecordChallengeAttempt, in a transaction of its own and before the check.
VerifyCount(r) ==
    /\ req[r].at = "loaded"
    /\ challenges' = [challenges EXCEPT ![req[r].chal].attempts = @ + 1]
    /\ Goto(r, "counted")
    /\ UNCHANGED <<account, methods, codes, sessions, revoking>>

\* verifyChallengeCode with a valid TOTP code of some verified method.
VerifyTotp(r) ==
    /\ req[r].at = "counted"
    /\ Enrolled # {}
    /\ Goto(r, "proven")
    /\ UNCHANGED <<account, methods, codes, challenges, sessions, revoking>>

\* Mutant: the UPDATE has lost "used_at IS NULL".
VerifyRecoveryCodeAgain(r, k) ==
    /\ req[r].at = "counted"
    /\ codes[k] \in {"unused", "used"}
    /\ codes' = [codes EXCEPT ![k] = "used"]
    /\ req' = [req EXCEPT ![r].at = "proven", ![r].code = k]
    /\ UNCHANGED <<account, methods, challenges, sessions, revoking>>

\* verifyChallengeCode with a recovery code: ConsumeRecoveryCode commits
\* before the challenge is consumed.
VerifyRecoveryCode(r, k) ==
    /\ req[r].at = "counted"
    /\ codes[k] = "unused"
    /\ codes' = [codes EXCEPT ![k] = "used"]
    /\ req' = [req EXCEPT ![r].at = "proven", ![r].code = k]
    /\ UNCHANGED <<account, methods, challenges, sessions, revoking>>

\* Mutant: the UPDATE has lost "consumed_at IS NULL".
VerifyConsumeAgain(r) ==
    /\ req[r].at = "proven"
    /\ challenges' = [challenges EXCEPT ![req[r].chal].state = "consumed"]
    /\ Goto(r, "issue")
    /\ UNCHANGED <<account, methods, codes, sessions, revoking>>

\* ConsumeChallenge, in a transaction of its own.  Expiry is not re-checked;
\* a challenge that is already spent ends the request with 410.
VerifyConsume(r) ==
    /\ req[r].at = "proven"
    /\ challenges[req[r].chal].state = "open"
    /\ challenges' = [challenges EXCEPT ![req[r].chal].state = "consumed"]
    /\ Goto(r, "issue")
    /\ UNCHANGED <<account, methods, codes, sessions, revoking>>

-----------------------------------------------------------------------------
(* Requests that carry a session cookie                                    *)

\* LookupSession in the middleware: an unrevoked session of an active account.
Authenticate(r, s) ==
    /\ req[r].at = "idle"
    /\ sessions[s].state = "live"
    /\ account.status = "ACTIVE"
    /\ req' = [req EXCEPT ![r] = [Idle EXCEPT !.at = "authed", !.sess = s]]
    /\ UNCHANGED <<account, methods, codes, challenges, sessions, revoking>>

\* Logout of the principal's session, or RevokeSession of any session of the
\* identity.
SignOut(r, s) ==
    /\ req[r].at = "authed"
    /\ sessions[s].state # "absent"
    /\ sessions' = [sessions EXCEPT ![s].state = "revoked"]
    /\ Done(r)
    /\ UNCHANGED <<account, methods, codes, challenges, revoking>>

\* RevokeOtherSessions.
RevokeOtherSessions(r) ==
    /\ req[r].at = "authed"
    /\ RevokeSessions(Live \ {req[r].sess})
    /\ Done(r)
    /\ UNCHANGED <<account, methods, codes, challenges, revoking>>

\* LoadIdentityByEmail and VerifyIdentityPassword, outside the transaction
\* that follows; DeleteMFA reads the MFA policy here as well.
ConfirmPassword(r) ==
    /\ req[r].at = "authed"
    /\ req' = [req EXCEPT ![r].at = "confirmed", ![r].password = account.password,
                          ![r].mfaRequired = account.mfaRequired]
    /\ UNCHANGED <<account, methods, codes, challenges, sessions, revoking>>

\* ChangePassword: new credential, every other session revoked.  A reset under
\* way has the credential's row.
ChangePassword(r) ==
    /\ req[r].at = "confirmed" /\ revoking = None
    /\ SetPassword(FALSE)
    /\ RevokeSessions(Live \ {req[r].sess})
    /\ Done(r)
    /\ UNCHANGED <<methods, codes, challenges, revoking>>

RegenerateRecoveryCodes(r, fresh) ==
    /\ req[r].at = "confirmed"
    /\ ReplaceRecoveryCodes(fresh)
    /\ Done(r)
    /\ UNCHANGED <<account, methods, challenges, sessions, revoking>>

\* DeleteMFA, serialised by the lock on the owner row (MfaMethods.tla has the
\* lock): refused when one factor is left and policy wants one.  A method that is
\* already gone leaves everything as it was: Abandon.
DeleteMFA(r, m) ==
    /\ req[r].at = "confirmed"
    /\ ~(req[r].mfaRequired /\ Cardinality(Enrolled) <= 1)
    /\ methods[m].state \in {"pending", "verified"}
    /\ methods' = [methods EXCEPT ![m].state = "revoked"]
    /\ Done(r)
    /\ UNCHANGED <<account, codes, challenges, sessions, revoking>>

-----------------------------------------------------------------------------
(* TOTP enrolment, by a session or in the middle of a sign-in              *)

\* SelfServiceHandler.subject with a challenge cookie and no session.
EnrolSubject(r, c) ==
    /\ req[r].at = "idle"
    /\ Loadable(c)
    /\ challenges[c].purpose = "ENROLLMENT"
    /\ req' = [req EXCEPT ![r] =
          [Idle EXCEPT !.at = "enrolling", !.chal = c,
                       !.password = challenges[c].password]]
    /\ UNCHANGED <<account, methods, codes, challenges, sessions, revoking>>

\* StartTOTPEnrollment: a pending method, and a fresh window for a challenge
\* that is still unspent.  Expiry is not looked at by ExtendChallenge.
StartEnrolment(r, m) ==
    /\ req[r].at \in {"authed", "enrolling"}
    /\ methods[m].state = "absent"
    /\ methods' = [methods EXCEPT ![m].state = "pending"]
    /\ \/ req[r].chal = None /\ UNCHANGED challenges
       \/ /\ req[r].chal # None
          /\ challenges[req[r].chal].state = "open"
          /\ challenges' = [challenges EXCEPT ![req[r].chal].expired = FALSE]
    /\ Done(r)
    /\ UNCHANGED <<account, codes, sessions, revoking>>

\* GetMFAMethod, Validate and, in a sign-in, LoadChallenge once more.
EnrolProve(r, m) ==
    /\ req[r].at \in {"authed", "enrolling"}
    /\ methods[m].state \in {"pending", "verified"}
    /\ req[r].chal # None => Loadable(req[r].chal)
    /\ req' = [req EXCEPT ![r].at = "possessed", ![r].method = m]
    /\ UNCHANGED <<account, methods, codes, challenges, sessions, revoking>>

\* VerifyMFAMethod: no row is touched when the method was revoked meanwhile,
\* and the caller does not notice.
VerifyMFAMethod(r) ==
    methods' = [methods EXCEPT ![req[r].method] =
        IF @.state = "revoked" THEN @
        ELSE [state |-> "verified",
              by |-> IF @.state = "verified" THEN @.by ELSE req[r].chal]]

\* Mutant: the factor and its codes commit before the sign-in is finished.
EnrolCommitFirst(r, fresh) ==
    /\ req[r].at = "possessed"
    /\ VerifyMFAMethod(r)
    /\ ReplaceRecoveryCodes(fresh)
    /\ Done(r)
    /\ UNCHANGED <<account, challenges, sessions, revoking>>

\* VerifyTOTPEnrollment's transaction for a caller with a session.
EnrolCommit(r, fresh) ==
    /\ req[r].at = "possessed" /\ req[r].chal = None
    /\ VerifyMFAMethod(r)
    /\ ReplaceRecoveryCodes(fresh)
    /\ Done(r)
    /\ UNCHANGED <<account, challenges, sessions, revoking>>

\* The same transaction in the middle of a sign-in: it also consumes the
\* challenge and issues the session.  A spent challenge rolls all of it back.
EnrolCommitAndIssue(r, fresh, s) ==
    /\ req[r].at = "possessed" /\ req[r].chal # None
    /\ challenges[req[r].chal].state = "open"
    /\ VerifyMFAMethod(r)
    /\ ReplaceRecoveryCodes(fresh)
    /\ challenges' = [challenges EXCEPT ![req[r].chal].state = "consumed"]
    /\ IssueSession(s, TRUE, req[r].chal, None, req[r].password)
    /\ Done(r)
    /\ UNCHANGED <<account, revoking>>

-----------------------------------------------------------------------------
(* Account recovery                                                        *)

\* Mutant: the sessions are left as they are.
ResetKeepingSessions ==
    /\ revoking # None
    /\ SetPassword(TRUE)
    /\ revoking' = None
    /\ UNCHANGED <<methods, codes, challenges, sessions, req>>

\* ResetPassword up to the statement that revokes the sessions there are when it
\* starts; it holds the credential's row.  The link is AccountLinks' concern.
ResetRevokes ==
    /\ revoking = None /\ account.password < MaxPasswords
    /\ revoking' = Live
    /\ UNCHANGED <<account, methods, codes, challenges, sessions, req>>

\* Its commit.
ResetPassword ==
    /\ revoking # None
    /\ SetPassword(TRUE)
    /\ RevokeSessions(revoking)
    /\ revoking' = None
    /\ UNCHANGED <<methods, codes, challenges, req>>

\* It fails, and is rolled back.
ResetFails ==
    /\ revoking # None
    /\ revoking' = None
    /\ UNCHANGED <<account, methods, codes, challenges, sessions, req>>

-----------------------------------------------------------------------------
(* The environment                                                         *)

\* A request is refused, its client goes away, a statement fails or its
\* server dies: whatever it has not committed is lost, and nothing else.
Abandon(r) ==
    /\ req[r].at # "idle"
    /\ Done(r)
    /\ UNCHANGED <<account, methods, codes, challenges, sessions, revoking>>

\* ChallengeTTL passes.
ExpireChallenge(c) ==
    /\ challenges[c].state = "open"
    /\ challenges' = [challenges EXCEPT ![c].expired = TRUE]
    /\ UNCHANGED <<account, methods, codes, sessions, revoking, req>>

\* An operator suspends or restores the account, or changes the MFA policy.
OperatorChanges(status, mfaRequired) ==
    /\ account' = [account EXCEPT !.status = status, !.mfaRequired = mfaRequired]
    /\ UNCHANGED <<methods, codes, challenges, sessions, revoking, req>>

-----------------------------------------------------------------------------
Login(r) == \/ LoginVerify(r)
            \/ LoginDecide(r)
            \/ \E c \in Challenges : StartChallenge(r, c)
            \/ \E s \in Sessions : CompleteLogin(r, s)

VerifyMFA(r) == \/ \E c \in Challenges : VerifyLoad(r, c)
                \/ VerifyCount(r)
                \/ VerifyTotp(r)
                \/ \E k \in RecoveryCodes : VerifyRecoveryCode(r, k)
                \/ VerifyConsume(r)

SelfService(r) == \/ \E s \in Sessions : Authenticate(r, s) \/ SignOut(r, s)
                  \/ RevokeOtherSessions(r)
                  \/ ConfirmPassword(r)
                  \/ ChangePassword(r)
                  \/ \E fresh \in SUBSET RecoveryCodes : RegenerateRecoveryCodes(r, fresh)
                  \/ \E m \in Methods : DeleteMFA(r, m)

Enrolment(r) == \/ \E c \in Challenges : EnrolSubject(r, c)
                \/ \E m \in Methods : StartEnrolment(r, m) \/ EnrolProve(r, m)
                \/ \E fresh \in SUBSET RecoveryCodes :
                      \/ EnrolCommit(r, fresh)
                      \/ \E s \in Sessions : EnrolCommitAndIssue(r, fresh, s)

Recovery == ResetRevokes \/ ResetPassword \/ ResetFails

Operator == \E status \in {"ACTIVE", "SUSPENDED"}, mfaRequired \in BOOLEAN :
                OperatorChanges(status, mfaRequired)

Next == \/ \E r \in Requests : \/ Login(r)
                               \/ VerifyMFA(r)
                               \/ SelfService(r)
                               \/ Enrolment(r)
                               \/ Abandon(r)
        \/ Recovery
        \/ \E c \in Challenges : ExpireChallenge(c)
        \/ Operator

Spec == Init /\ [][Next]_vars

-----------------------------------------------------------------------------
(* What the sign-in must guarantee                                         *)

\* A challenge pays for at most one session, and only once it is spent,
\* although VerifyMFA spends it in one transaction and issues the session in a
\* later one, and enrolment competes for the same row.
OneSessionPerChallenge ==
    \A s \in Sessions : sessions[s].chal # None =>
        /\ challenges[sessions[s].chal].state = "consumed"
        /\ \A u \in Sessions : sessions[u].chal = sessions[s].chal => u = s

\* Two sign-ins never share a recovery code, whatever else regenerates or
\* replaces the codes while one of them is between spending the code and
\* issuing its session.
OneSessionPerRecoveryCode ==
    \A s \in Sessions : sessions[s].code # None =>
        /\ codes[sessions[s].code] \in {"used", "deleted"}
        /\ \A u \in Sessions : sessions[u].code = sessions[s].code => u = s

\* LoadChallenge and RecordChallengeAttempt are separate statements, so guesses
\* in flight together overshoot MaxChallengeAttempts, but by less than one for
\* each request that can be in flight.
AttemptsBounded ==
    \A c \in Challenges :
        challenges[c].attempts <= MaxAttempts - 1 + Cardinality(Requests)

\* VerifyTOTPEnrollment is all or nothing in the middle of a sign-in: a factor
\* that became verified on a challenge comes with the session of that
\* challenge, so nobody is left enrolled and signed out.
EnrolledMidLoginHasSession ==
    \A m \in Methods : methods[m].by # None =>
        \E s \in Sessions : /\ sessions[s].state # "absent"
                            /\ sessions[s].chal = methods[m].by

\* "Every session goes, including the current one": however sign-ins, password
\* changes and resets interleave, a session begun with a password that a reset
\* has replaced is signed out, unless its sign-in was past the password check and
\* issued it only once the reset was under way or over.
ResetSignsOut ==
    \A s \in Sessions :
        sessions[s].state = "live" /\ sessions[s].password < account.resetAt
            => sessions[s].late

\* The comment on ResetPassword, "signs the account out everywhere": after a
\* reset, nobody becomes or stays signed in through a challenge that was opened
\* with a password older than the one the reset set.
SignedOutEverywhere ==
    \A s \in Sessions :
        sessions[s].state = "live" /\ sessions[s].chal # None
            => sessions[s].password >= account.resetAt

\* The comment on MaxChallengeAttempts, "bounds guesses against a single
\* challenge".
GuessesWithinMaximum ==
    \A c \in Challenges : challenges[c].attempts <= MaxAttempts

-----------------------------------------------------------------------------
(* Inductive strengthenings of the invariants above                        *)

\* What a request holds at the steps where the proofs depend on it.
RequestShape ==
    \A r \in Requests :
        /\ req[r].at = "verified" => req[r].chal = None
        /\ req[r].at \in {"loaded", "counted", "proven"} => req[r].chal # None

\* r has spent its challenge and will be given a session for it.
Claims(r) == req[r].at = "issue" /\ req[r].chal # None

\* A claim is backed by a spent challenge that no session was issued for and
\* that nobody else claims.
ChallengeInv ==
    /\ RequestShape
    /\ OneSessionPerChallenge
    /\ \A r \in Requests : Claims(r) =>
          /\ challenges[req[r].chal].state = "consumed"
          /\ \A s \in Sessions : sessions[s].chal # req[r].chal
    /\ \A r, q \in Requests :
          Claims(r) /\ Claims(q) /\ req[r].chal = req[q].chal => r = q

\* The same for recovery codes, which are spent before the challenge is.
RecoveryCodeInv ==
    /\ OneSessionPerRecoveryCode
    /\ \A r \in Requests : req[r].code # None =>
          /\ codes[req[r].code] \in {"used", "deleted"}
          /\ \A s \in Sessions : sessions[s].code # req[r].code
    /\ \A r, q \in Requests :
          req[r].code # None /\ req[r].code = req[q].code => r = q

\* Requests that have loaded c and not counted their guess yet.
Uncounted(c) == {r \in Requests : req[r].at = "loaded" /\ req[r].chal = c}

\* Once the maximum is reached nobody loads the challenge any more, so what is
\* still uncounted can only shrink.
AttemptsInv ==
    \A c \in Challenges :
        \/ challenges[c].attempts < MaxAttempts
        \/ challenges[c].attempts + Cardinality(Uncounted(c))
              <= MaxAttempts - 1 + Cardinality(Requests)

\* What a reset under way has not found was issued after it began.
RevokedInv ==
    /\ account.resetAt <= account.password
    /\ ResetSignsOut
    /\ revoking # None => \A s \in Live : s \in revoking \/ sessions[s].late

-----------------------------------------------------------------------------
(* SignIn implements SignInPromise                                         *)

Redeemed(c) == \E s \in Sessions : sessions[s].chal = c

Promise == INSTANCE SignInPromise WITH
    challenge <- [c \in Challenges |->
        IF challenges[c].state # "consumed" THEN challenges[c].state
        ELSE IF Redeemed(c) THEN "redeemed" ELSE "spent"],
    session <- [s \in Sessions |-> sessions[s].state],
    source <- [s \in Sessions |-> sessions[s].chal]

\* Every step of the handlers is a step of the promise or none at all: one
\* session for a challenge, sessions keep what they were earned with, and no
\* step brings a revoked session back.
KeepsSignInPromise == Promise!PromiseSpec
=============================================================================
