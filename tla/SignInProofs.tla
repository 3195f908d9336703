---------------------------- MODULE SignInProofs ----------------------------
(***************************************************************************)
(* What TLAPS proves about SignIn, for any number of requests and rows:    *)
(* its types, what challenges and recovery codes pay for, what a reset     *)
(* leaves signed in, and that it implements SignInPromise.                 *)
(***************************************************************************)
EXTENDS SignIn, TLAPS, FiniteSetTheorems

USE RowsAssumption, BoundsAssumption DEF vars

-----------------------------------------------------------------------------
(* Type correctness                                                        *)

\* What a request writes into its own record keeps the record's type.
LEMMA RequestFields ==
  ASSUME NEW q \in RequestState, NEW step \in Steps
  PROVE  /\ \A k \in RecoveryCodes : [q EXCEPT !.at = step, !.code = k] \in RequestState
         /\ \A m \in Methods : [q EXCEPT !.at = step, !.method = m] \in RequestState
         /\ \A p \in Passwords, b \in BOOLEAN :
              [q EXCEPT !.at = step, !.password = p, !.mfaRequired = b] \in RequestState
<1>1. ASSUME NEW k \in RecoveryCodes
      PROVE  [q EXCEPT !.at = step, !.code = k] \in RequestState
  BY DEF RequestState
<1>2. ASSUME NEW m \in Methods
      PROVE  [q EXCEPT !.at = step, !.method = m] \in RequestState
  BY DEF RequestState
<1>3. ASSUME NEW p \in Passwords, NEW b \in BOOLEAN
      PROVE  [q EXCEPT !.at = step, !.password = p, !.mfaRequired = b] \in RequestState
  BY DEF RequestState
<1>4. QED
  BY <1>1, <1>2, <1>3

\* Spending and expiring a challenge keep the row's type.
LEMMA ChallengeFields ==
  ASSUME NEW c \in ChallengeRow
  PROVE  /\ [c EXCEPT !.state = "consumed"] \in ChallengeRow
         /\ [c EXCEPT !.expired = TRUE] \in ChallengeRow
  BY DEF ChallengeRow

LEMMA InitTypeOK == Init => TypeOK
  BY DEF Init, TypeOK, AccountRow, MethodRow, ChallengeRow, SessionRow,
         RequestState, Idle, Steps, Passwords

\* The helpers write well-formed rows.
LEMMA IssueType ==
  ASSUME TypeOK, NEW s \in Sessions, NEW mfa \in BOOLEAN,
         NEW c \in Challenges \cup {None}, NEW k \in RecoveryCodes \cup {None},
         NEW p \in Passwords, IssueSession(s, mfa, c, k, p)
  PROVE  sessions' \in [Sessions -> SessionRow]
  BY DEF TypeOK, IssueSession, SessionRow

LEMMA RevokeType ==
  ASSUME TypeOK, NEW e, RevokeSessions(e)
  PROVE  sessions' \in [Sessions -> SessionRow]
<1>1. ASSUME NEW s \in Sessions
      PROVE  [sessions[s] EXCEPT !.state = "revoked"] \in SessionRow
  BY DEF TypeOK, SessionRow
<1>2. \A s \in Sessions : sessions[s] \in SessionRow
  BY DEF TypeOK
<1>3. QED
  BY <1>1, <1>2 DEF RevokeSessions

LEMMA IdleType == Idle \in RequestState
  BY DEF RequestState, Idle, Steps, Passwords

LEMMA DoneType ==
  ASSUME TypeOK, NEW r \in Requests, Done(r)
  PROVE  req' \in [Requests -> RequestState]
  BY IdleType DEF TypeOK, Done

LEMMA GotoType ==
  ASSUME TypeOK, NEW r \in Requests, NEW step \in Steps, Goto(r, step)
  PROVE  req' \in [Requests -> RequestState]
  BY DEF TypeOK, Goto, RequestState

LEMMA SetPasswordType ==
  ASSUME TypeOK, NEW b \in BOOLEAN, SetPassword(b)
  PROVE  account' \in AccountRow
<1>1. account.password + 1 \in Passwords
  BY DEF TypeOK, SetPassword, AccountRow, Passwords
<1>2. (IF b THEN account.password + 1 ELSE account.resetAt) \in Passwords
  BY <1>1 DEF TypeOK, AccountRow
<1>3. QED
  BY <1>1, <1>2 DEF TypeOK, SetPassword, AccountRow

LEMMA ReplaceCodesType ==
  ASSUME TypeOK, NEW fresh \in SUBSET RecoveryCodes, ReplaceRecoveryCodes(fresh)
  PROVE  codes' \in [RecoveryCodes -> {"absent", "unused", "used", "deleted"}]
  BY DEF TypeOK, ReplaceRecoveryCodes

LEMMA VerifyMethodType ==
  ASSUME TypeOK, NEW r \in Requests, VerifyMFAMethod(r)
  PROVE  methods' \in [Methods -> MethodRow]
  BY DEF TypeOK, VerifyMFAMethod, MethodRow, RequestState

-----------------------------------------------------------------------------
LEMMA LoginType ==
  ASSUME TypeOK, NEW r \in Requests, Login(r)
  PROVE  TypeOK'
<1>1. CASE LoginVerify(r)
  BY <1>1 DEF TypeOK, LoginVerify, AccountRow, RequestState, Idle, Steps
<1>2. CASE LoginDecide(r)
  <2>1. req' \in [Requests -> RequestState]
    BY <1>2, GotoType DEF LoginDecide, Steps
  <2>2. QED
    BY <1>2, <2>1 DEF TypeOK, LoginDecide
<1>3. ASSUME NEW c \in Challenges, StartChallenge(r, c)
      PROVE  TypeOK'
  <2>1. challenges' \in [Challenges -> ChallengeRow]
    BY <1>3 DEF TypeOK, StartChallenge, ChallengeRow, RequestState
  <2>2. req' \in [Requests -> RequestState]
    BY <1>3, DoneType DEF StartChallenge
  <2>3. QED
    BY <1>3, <2>1, <2>2 DEF TypeOK, StartChallenge
<1>4. ASSUME NEW s \in Sessions, CompleteLogin(r, s)
      PROVE  TypeOK'
  <2>1. sessions' \in [Sessions -> SessionRow]
    BY <1>4, IssueType DEF TypeOK, CompleteLogin, RequestState
  <2>2. req' \in [Requests -> RequestState]
    BY <1>4, DoneType DEF CompleteLogin
  <2>3. QED
    BY <1>4, <2>1, <2>2 DEF TypeOK, CompleteLogin
<1>5. QED
  BY <1>1, <1>2, <1>3, <1>4 DEF Login

LEMMA VerifyType ==
  ASSUME TypeOK, NEW r \in Requests, VerifyMFA(r)
  PROVE  TypeOK'
<1>1. ASSUME NEW c \in Challenges, VerifyLoad(r, c)
      PROVE  TypeOK'
  BY <1>1 DEF TypeOK, VerifyLoad, ChallengeRow, RequestState, Idle, Steps
<1>2. CASE VerifyCount(r)
  <2>1. challenges' \in [Challenges -> ChallengeRow]
    <3>1. ASSUME NEW c \in Challenges
          PROVE  [challenges[c] EXCEPT !.attempts = @ + 1] \in ChallengeRow
      BY DEF TypeOK, ChallengeRow
    <3>2. QED
      BY <1>2, <3>1 DEF TypeOK, VerifyCount
  <2>2. req' \in [Requests -> RequestState]
    BY <1>2, GotoType DEF VerifyCount, Steps
  <2>3. QED
    BY <1>2, <2>1, <2>2 DEF TypeOK, VerifyCount
<1>3. CASE VerifyTotp(r)
  <2>1. req' \in [Requests -> RequestState]
    BY <1>3, GotoType DEF VerifyTotp, Steps
  <2>2. QED
    BY <1>3, <2>1 DEF TypeOK, VerifyTotp
<1>4. ASSUME NEW k \in RecoveryCodes, VerifyRecoveryCode(r, k)
      PROVE  TypeOK'
  <2>1. [req[r] EXCEPT !.at = "proven", !.code = k] \in RequestState
    <3>1. req[r] \in RequestState /\ "proven" \in Steps
      BY DEF TypeOK, Steps
    <3>2. QED
      BY <3>1, RequestFields
  <2>2. req' = [req EXCEPT ![r] = [req[r] EXCEPT !.at = "proven", !.code = k]]
    BY <1>4 DEF TypeOK, VerifyRecoveryCode
  <2>3. codes' \in [RecoveryCodes -> {"absent", "unused", "used", "deleted"}]
    BY <1>4 DEF TypeOK, VerifyRecoveryCode
  <2>4. req' \in [Requests -> RequestState]
    BY <2>1, <2>2 DEF TypeOK
  <2>5. QED
    BY <1>4, <2>3, <2>4 DEF TypeOK, VerifyRecoveryCode
<1>5. CASE VerifyConsume(r)
  <2>1. challenges' \in [Challenges -> ChallengeRow]
    <3>1. \A c \in Challenges : [challenges[c] EXCEPT !.state = "consumed"] \in ChallengeRow
      BY ChallengeFields DEF TypeOK
    <3>2. QED
      BY <1>5, <3>1 DEF TypeOK, VerifyConsume
  <2>2. req' \in [Requests -> RequestState]
    BY <1>5, GotoType DEF VerifyConsume, Steps
  <2>3. QED
    BY <1>5, <2>1, <2>2 DEF TypeOK, VerifyConsume
<1>6. QED
  BY <1>1, <1>2, <1>3, <1>4, <1>5 DEF VerifyMFA

LEMMA SelfServiceType ==
  ASSUME TypeOK, NEW r \in Requests, SelfService(r)
  PROVE  TypeOK'
<1>1. ASSUME NEW s \in Sessions, Authenticate(r, s)
      PROVE  TypeOK'
  <2> DEFINE q == [Idle EXCEPT !.at = "authed", !.sess = s]
  <2>1. q \in RequestState
    BY IdleType DEF RequestState, Steps
  <2>2. req' = [req EXCEPT ![r] = q]
    BY <1>1 DEF Authenticate
  <2>3. req' \in [Requests -> RequestState]
    BY <2>1, <2>2 DEF TypeOK
  <2>4. QED
    BY <1>1, <2>3 DEF TypeOK, Authenticate
<1>2. ASSUME NEW s \in Sessions, SignOut(r, s)
      PROVE  TypeOK'
  <2>1. sessions' \in [Sessions -> SessionRow]
    BY <1>2 DEF TypeOK, SignOut, SessionRow
  <2>2. QED
    BY <1>2, <2>1, DoneType DEF TypeOK, SignOut
<1>3. CASE RevokeOtherSessions(r)
  <2>1. sessions' \in [Sessions -> SessionRow]
    BY <1>3, RevokeType DEF RevokeOtherSessions
  <2>2. QED
    BY <1>3, <2>1, DoneType DEF TypeOK, RevokeOtherSessions
<1>4. CASE ConfirmPassword(r)
  <2> DEFINE q == [req[r] EXCEPT !.at = "confirmed", !.password = account.password,
                                 !.mfaRequired = account.mfaRequired]
  <2>0. account.password \in Passwords /\ account.mfaRequired \in BOOLEAN
    BY DEF TypeOK, AccountRow
  <2>1. q \in RequestState
    <3>1. req[r] \in RequestState /\ "confirmed" \in Steps
      BY DEF TypeOK, Steps
    <3>2. QED
      BY <2>0, <3>1, RequestFields
  <2>2. req' = [req EXCEPT ![r] = q]
    BY <1>4 DEF TypeOK, ConfirmPassword
  <2>3. req' \in [Requests -> RequestState]
    BY <2>1, <2>2 DEF TypeOK
  <2>4. QED
    BY <1>4, <2>3 DEF TypeOK, ConfirmPassword
<1>5. CASE ChangePassword(r)
  <2>1. account' \in AccountRow
    BY <1>5, SetPasswordType DEF ChangePassword
  <2>2. sessions' \in [Sessions -> SessionRow]
    BY <1>5, RevokeType DEF ChangePassword
  <2>3. QED
    BY <1>5, <2>1, <2>2, DoneType DEF TypeOK, ChangePassword
<1>6. ASSUME NEW fresh \in SUBSET RecoveryCodes, RegenerateRecoveryCodes(r, fresh)
      PROVE  TypeOK'
  <2>1. codes' \in [RecoveryCodes -> {"absent", "unused", "used", "deleted"}]
    BY <1>6, ReplaceCodesType DEF RegenerateRecoveryCodes
  <2>2. QED
    BY <1>6, <2>1, DoneType DEF TypeOK, RegenerateRecoveryCodes
<1>7. ASSUME NEW m \in Methods, DeleteMFA(r, m)
      PROVE  TypeOK'
  <2>1. methods' \in [Methods -> MethodRow]
    BY <1>7 DEF TypeOK, DeleteMFA, MethodRow
  <2>2. QED
    BY <1>7, <2>1, DoneType DEF TypeOK, DeleteMFA
<1>8. QED
  BY <1>1, <1>2, <1>3, <1>4, <1>5, <1>6, <1>7 DEF SelfService

LEMMA EnrolmentType ==
  ASSUME TypeOK, NEW r \in Requests, Enrolment(r)
  PROVE  TypeOK'
<1>1. ASSUME NEW c \in Challenges, EnrolSubject(r, c)
      PROVE  TypeOK'
  BY <1>1 DEF TypeOK, EnrolSubject, ChallengeRow, RequestState, Idle, Steps
<1>2. ASSUME NEW m \in Methods, StartEnrolment(r, m)
      PROVE  TypeOK'
  <2>1. methods' \in [Methods -> MethodRow]
    BY <1>2 DEF TypeOK, StartEnrolment, MethodRow
  <2>2. ASSUME NEW c \in Challenges
        PROVE  [challenges[c] EXCEPT !.expired = FALSE] \in ChallengeRow
    <3>1. ASSUME NEW e \in BOOLEAN
          PROVE  [challenges[c] EXCEPT !.expired = e] \in ChallengeRow
      BY DEF TypeOK, ChallengeRow
    <3>2. QED
      BY <3>1
  <2>3. challenges' \in [Challenges -> ChallengeRow]
    <3>1. CASE UNCHANGED challenges
      BY <3>1 DEF TypeOK
    <3>2. CASE challenges' = [challenges EXCEPT ![req[r].chal].expired = FALSE]
      BY <3>2, <2>2 DEF TypeOK
    <3>3. QED
      BY <1>2, <3>1, <3>2 DEF StartEnrolment
  <2>4. QED
    BY <1>2, <2>1, <2>3, DoneType DEF TypeOK, StartEnrolment
<1>3. ASSUME NEW m \in Methods, EnrolProve(r, m)
      PROVE  TypeOK'
  <2> DEFINE q == [req[r] EXCEPT !.at = "possessed", !.method = m]
  <2>1. q \in RequestState
    <3>1. req[r] \in RequestState /\ "possessed" \in Steps
      BY DEF TypeOK, Steps
    <3>2. QED
      BY <3>1, RequestFields
  <2>2. req' = [req EXCEPT ![r] = q]
    BY <1>3 DEF TypeOK, EnrolProve
  <2>3. req' \in [Requests -> RequestState]
    BY <2>1, <2>2 DEF TypeOK
  <2>4. QED
    BY <1>3, <2>3 DEF TypeOK, EnrolProve
<1>4. ASSUME NEW fresh \in SUBSET RecoveryCodes, EnrolCommit(r, fresh)
      PROVE  TypeOK'
  <2>1. /\ methods' \in [Methods -> MethodRow]
        /\ codes' \in [RecoveryCodes -> {"absent", "unused", "used", "deleted"}]
    BY <1>4, VerifyMethodType, ReplaceCodesType DEF EnrolCommit
  <2>2. QED
    BY <1>4, <2>1, DoneType DEF TypeOK, EnrolCommit
<1>5. ASSUME NEW fresh \in SUBSET RecoveryCodes, NEW s \in Sessions,
             EnrolCommitAndIssue(r, fresh, s)
      PROVE  TypeOK'
  <2>1. /\ methods' \in [Methods -> MethodRow]
        /\ codes' \in [RecoveryCodes -> {"absent", "unused", "used", "deleted"}]
    BY <1>5, VerifyMethodType, ReplaceCodesType DEF EnrolCommitAndIssue
  <2>2. challenges' \in [Challenges -> ChallengeRow]
    <3>1. ASSUME NEW c \in Challenges
          PROVE  [challenges[c] EXCEPT !.state = "consumed"] \in ChallengeRow
      BY DEF TypeOK, ChallengeRow
    <3>2. QED
      BY <1>5, <3>1 DEF TypeOK, EnrolCommitAndIssue
  <2>3. sessions' \in [Sessions -> SessionRow]
    BY <1>5, IssueType DEF TypeOK, EnrolCommitAndIssue, RequestState
  <2>4. QED
    BY <1>5, <2>1, <2>2, <2>3, DoneType DEF TypeOK, EnrolCommitAndIssue
<1>6. QED
  BY <1>1, <1>2, <1>3, <1>4, <1>5 DEF Enrolment

LEMMA OtherType ==
  ASSUME TypeOK,
         \/ \E r \in Requests : Abandon(r)
         \/ Recovery
         \/ \E c \in Challenges : ExpireChallenge(c)
         \/ Operator
  PROVE  TypeOK'
<1>1. ASSUME NEW r \in Requests, Abandon(r)
      PROVE  TypeOK'
  BY <1>1, DoneType DEF TypeOK, Abandon
<1>2. ASSUME ResetRevokes \/ ResetFails
      PROVE  TypeOK'
  BY <1>2 DEF TypeOK, ResetRevokes, ResetFails, Live
<1>3. ASSUME ResetPassword
      PROVE  TypeOK'
  <2>1. account' \in AccountRow
    BY <1>3, SetPasswordType DEF ResetPassword
  <2>2. sessions' \in [Sessions -> SessionRow]
    BY <1>3, RevokeType DEF ResetPassword
  <2>3. QED
    BY <1>3, <2>1, <2>2 DEF TypeOK, ResetPassword
<1>5. ASSUME NEW c \in Challenges, ExpireChallenge(c)
      PROVE  TypeOK'
  <2>1. [challenges[c] EXCEPT !.expired = TRUE] \in ChallengeRow
    BY ChallengeFields DEF TypeOK
  <2>2. challenges' \in [Challenges -> ChallengeRow]
    BY <1>5, <2>1 DEF TypeOK, ExpireChallenge
  <2>3. QED
    BY <1>5, <2>2 DEF TypeOK, ExpireChallenge
<1>6. ASSUME NEW status \in {"ACTIVE", "SUSPENDED"}, NEW mfaRequired \in BOOLEAN,
             OperatorChanges(status, mfaRequired)
      PROVE  TypeOK'
  BY <1>6 DEF TypeOK, OperatorChanges, AccountRow
<1>7. QED
  BY <1>1, <1>2, <1>3, <1>5, <1>6 DEF Recovery, Operator

LEMMA NextTypeOK == TypeOK /\ [Next]_vars => TypeOK'
<1>1. ASSUME TypeOK, UNCHANGED vars
      PROVE  TypeOK'
  BY <1>1 DEF TypeOK
<1>2. QED
  BY <1>1, LoginType, VerifyType, SelfServiceType, EnrolmentType, OtherType DEF Next

\* Every row and every request keeps its shape, whatever the requests do to one
\* another: no handler writes a row another handler could not read back.
THEOREM TypeCorrect == Spec => []TypeOK
  BY InitTypeOK, NextTypeOK, PTL DEF Spec

-----------------------------------------------------------------------------
(* What a step may do to the rows that sessions are earned with            *)

\* Sessions keep the challenge and the code they were earned with.
SameSources ==
    \A s \in Sessions : /\ sessions'[s].chal = sessions[s].chal
                        /\ sessions'[s].code = sessions[s].code

\* No request starts to claim a session.
NoNewClaim ==
    \A r \in Requests : Claims(r)' => Claims(r) /\ req'[r].chal = req[r].chal

StaysConsumed ==
    \A c \in Challenges :
        challenges[c].state = "consumed" => challenges'[c].state = "consumed"

LEMMA RevokeSources ==
  ASSUME TypeOK, NEW e, RevokeSessions(e)
  PROVE  SameSources
  BY DEF TypeOK, RevokeSessions, SameSources, SessionRow

LEMMA DoneNoClaim ==
  ASSUME TypeOK, NEW r \in Requests, Done(r)
  PROVE  NoNewClaim
  BY DEF TypeOK, Done, NoNewClaim, Claims, Idle, RequestState

LEMMA GotoNoClaim ==
  ASSUME TypeOK, NEW r \in Requests, NEW step \in Steps \ {"issue"}, Goto(r, step)
  PROVE  NoNewClaim
  BY DEF TypeOK, Goto, NoNewClaim, Claims, RequestState

\* IssueSession writes one row that was absent.
LEMMA IssueSources ==
  ASSUME TypeOK, NEW s \in Sessions, NEW mfa, NEW c, NEW k, NEW p,
         IssueSession(s, mfa, c, k, p)
  PROVE  /\ sessions'[s].chal = c /\ sessions'[s].code = k
         /\ \A u \in Sessions \ {s} : sessions'[u] = sessions[u]
  BY DEF TypeOK, IssueSession

-----------------------------------------------------------------------------
(* RequestShape                                                            *)

LEMMA ShapeStep == TypeOK /\ RequestShape /\ [Next]_vars => RequestShape'
<1> SUFFICES ASSUME TypeOK, RequestShape, [Next]_vars
             PROVE  RequestShape'
  OBVIOUS
<1> USE DEF TypeOK, RequestShape
<1>1. ASSUME NEW r \in Requests, Done(r)
      PROVE  RequestShape'
  BY <1>1 DEF Done, Idle
<1>2. ASSUME UNCHANGED req
      PROVE  RequestShape'
  BY <1>2
<1>3. ASSUME NEW r \in Requests, Login(r)
      PROVE  RequestShape'
  <2>1. CASE LoginVerify(r)
    BY <2>1 DEF LoginVerify, Idle
  <2>2. CASE LoginDecide(r)
    BY <2>2 DEF LoginDecide, Goto, RequestState
  <2>3. QED
    BY <1>1, <1>3, <2>1, <2>2 DEF Login, StartChallenge, CompleteLogin
<1>4. ASSUME NEW r \in Requests, VerifyMFA(r)
      PROVE  RequestShape'
  <2>1. ASSUME NEW c \in Challenges, VerifyLoad(r, c)
        PROVE  RequestShape'
    BY <2>1 DEF VerifyLoad, Idle
  <2>2. ASSUME NEW k \in RecoveryCodes, VerifyRecoveryCode(r, k)
        PROVE  RequestShape'
    BY <2>2 DEF VerifyRecoveryCode, RequestState
  <2>3. CASE VerifyCount(r)
    BY <2>3 DEF VerifyCount, Goto, RequestState
  <2>4. CASE VerifyTotp(r)
    BY <2>4 DEF VerifyTotp, Goto, RequestState
  <2>5. CASE VerifyConsume(r)
    BY <2>5 DEF VerifyConsume, Goto, RequestState
  <2>6. QED
    BY <1>4, <2>1, <2>2, <2>3, <2>4, <2>5 DEF VerifyMFA
<1>5. ASSUME NEW r \in Requests, SelfService(r)
      PROVE  RequestShape'
  <2>1. ASSUME NEW s \in Sessions, Authenticate(r, s)
        PROVE  RequestShape'
    BY <2>1 DEF Authenticate, Idle
  <2>2. CASE ConfirmPassword(r)
    BY <2>2 DEF ConfirmPassword, RequestState
  <2>3. QED
    BY <1>1, <1>5, <2>1, <2>2 DEF SelfService, SignOut, RevokeOtherSessions,
       ChangePassword, RegenerateRecoveryCodes, DeleteMFA
<1>6. ASSUME NEW r \in Requests, Enrolment(r)
      PROVE  RequestShape'
  <2>1. ASSUME NEW c \in Challenges, EnrolSubject(r, c)
        PROVE  RequestShape'
    BY <2>1 DEF EnrolSubject, Idle
  <2>2. ASSUME NEW m \in Methods, EnrolProve(r, m)
        PROVE  RequestShape'
    BY <2>2 DEF EnrolProve, RequestState
  <2>3. QED
    BY <1>1, <1>6, <2>1, <2>2 DEF Enrolment, StartEnrolment, EnrolCommit, EnrolCommitAndIssue
<1>7. QED
  BY <1>1, <1>2, <1>3, <1>4, <1>5, <1>6 DEF Next, Abandon, Recovery, ResetRevokes,
     ResetPassword, ResetFails, ExpireChallenge, Operator, OperatorChanges

-----------------------------------------------------------------------------
(* One session for a challenge                                             *)

\* Steps that neither spend a challenge nor issue a session are harmless.
LEMMA HarmlessStep ==
  ASSUME TypeOK, TypeOK', ChallengeInv, RequestShape',
         SameSources, NoNewClaim, StaysConsumed
  PROVE  ChallengeInv'
<1>1. OneSessionPerChallenge'
  BY DEF TypeOK, SessionRow, ChallengeInv, OneSessionPerChallenge, SameSources, StaysConsumed
<1>2. ASSUME NEW r \in Requests, Claims(r)'
      PROVE  /\ challenges'[req'[r].chal].state = "consumed"
             /\ \A s \in Sessions : sessions'[s].chal # req'[r].chal
  <2>1. req[r].chal \in Challenges
    BY <1>2 DEF TypeOK, RequestState, Claims, NoNewClaim
  <2>2. QED
    BY <1>2, <2>1 DEF ChallengeInv, SameSources, NoNewClaim, StaysConsumed
<1>3. ASSUME NEW r \in Requests, NEW q \in Requests,
             Claims(r)', Claims(q)', req'[r].chal = req'[q].chal
      PROVE  r = q
  BY <1>3 DEF ChallengeInv, NoNewClaim
<1>4. QED
  BY <1>1, <1>2, <1>3 DEF ChallengeInv, Claims

\* VerifyConsume makes the one claim on a challenge that was open.
LEMMA ConsumeStep ==
  ASSUME TypeOK, TypeOK', ChallengeInv, RequestShape',
         NEW r \in Requests, VerifyConsume(r)
  PROVE  ChallengeInv'
<1> DEFINE c == req[r].chal
<1>1. /\ c \in Challenges /\ challenges[c].state = "open"
      /\ challenges'[c].state = "consumed" /\ StaysConsumed
      /\ req'[r].at = "issue" /\ req'[r].chal = c
      /\ \A q \in Requests \ {r} : req'[q] = req[q]
      /\ UNCHANGED sessions
  BY DEF TypeOK, RequestState, ChallengeRow, VerifyConsume, Goto, ChallengeInv,
         RequestShape, StaysConsumed
<1>2. \A s \in Sessions : sessions[s].chal # c
  BY <1>1 DEF ChallengeInv, OneSessionPerChallenge
<1>3. \A q \in Requests : Claims(q) => req[q].chal # c
  BY <1>1 DEF ChallengeInv
<1>4. OneSessionPerChallenge'
  BY <1>1 DEF TypeOK, SessionRow, ChallengeInv, OneSessionPerChallenge, StaysConsumed
<1>5. ASSUME NEW q \in Requests, Claims(q)'
      PROVE  /\ challenges'[req'[q].chal].state = "consumed"
             /\ \A s \in Sessions : sessions'[s].chal # req'[q].chal
  <2>1. CASE q = r
    BY <1>1, <1>2, <2>1
  <2>2. CASE q # r
    <3>1. Claims(q) /\ req'[q].chal = req[q].chal /\ req[q].chal \in Challenges
      BY <1>1, <1>5, <2>2 DEF Claims, TypeOK, RequestState
    <3>2. QED
      BY <1>1, <3>1 DEF ChallengeInv, StaysConsumed
  <2>3. QED
    BY <2>1, <2>2
<1>6. ASSUME NEW q \in Requests, NEW u \in Requests,
             Claims(q)', Claims(u)', req'[q].chal = req'[u].chal
      PROVE  q = u
  BY <1>1, <1>3, <1>6 DEF ChallengeInv, Claims
<1>7. QED
  BY <1>4, <1>5, <1>6 DEF ChallengeInv, Claims

\* CompleteLogin cashes a claim, or admits a session without a challenge.
LEMMA CompleteStep ==
  ASSUME TypeOK, TypeOK', ChallengeInv, RequestShape',
         NEW r \in Requests, NEW s \in Sessions, CompleteLogin(r, s)
  PROVE  ChallengeInv'
<1> DEFINE c == req[r].chal
<1>1. /\ c \in Challenges \cup {None}
      /\ sessions'[s].chal = c
      /\ \A u \in Sessions \ {s} : sessions'[u] = sessions[u]
      /\ UNCHANGED challenges /\ req[r].at = "issue"
      /\ NoNewClaim /\ ~Claims(r)'
  <2>1. NoNewClaim
    BY DoneNoClaim DEF CompleteLogin
  <2>2. ~Claims(r)'
    BY DEF TypeOK, CompleteLogin, Done, Idle, Claims
  <2>3. QED
    BY <2>1, <2>2, IssueSources DEF TypeOK, RequestState, CompleteLogin
<1>2. c # None => /\ challenges[c].state = "consumed"
                  /\ \A u \in Sessions : sessions[u].chal # c
  BY <1>1 DEF ChallengeInv, Claims
<1>3. OneSessionPerChallenge'
  BY <1>1, <1>2 DEF ChallengeInv, OneSessionPerChallenge
<1>4. ASSUME NEW q \in Requests, Claims(q)'
      PROVE  /\ challenges'[req'[q].chal].state = "consumed"
             /\ \A u \in Sessions : sessions'[u].chal # req'[q].chal
  <2>1. q # r /\ Claims(q) /\ req'[q].chal = req[q].chal
    BY <1>1, <1>4 DEF NoNewClaim
  <2>2. req[q].chal # c
    BY <1>1, <2>1 DEF ChallengeInv, Claims
  <2>3. QED
    BY <1>1, <2>1, <2>2 DEF ChallengeInv
<1>5. ASSUME NEW q \in Requests, NEW u \in Requests,
             Claims(q)', Claims(u)', req'[q].chal = req'[u].chal
      PROVE  q = u
  BY <1>1, <1>5 DEF ChallengeInv, NoNewClaim
<1>6. QED
  BY <1>3, <1>4, <1>5 DEF ChallengeInv, Claims

\* Enrolment spends an open challenge and issues its session at once.
LEMMA EnrolStep ==
  ASSUME TypeOK, TypeOK', ChallengeInv, RequestShape',
         NEW r \in Requests, NEW s \in Sessions, NEW fresh,
         EnrolCommitAndIssue(r, fresh, s)
  PROVE  ChallengeInv'
<1> DEFINE c == req[r].chal
<1>1. /\ c \in Challenges /\ challenges[c].state = "open"
      /\ challenges'[c].state = "consumed" /\ StaysConsumed
      /\ sessions'[s].chal = c
      /\ \A u \in Sessions \ {s} : sessions'[u] = sessions[u]
      /\ NoNewClaim
  <2>1. NoNewClaim
    BY DoneNoClaim DEF EnrolCommitAndIssue
  <2>2. sessions'[s].chal = c /\ \A u \in Sessions \ {s} : sessions'[u] = sessions[u]
    BY DEF TypeOK, EnrolCommitAndIssue, IssueSession
  <2>3. QED
    BY <2>1, <2>2 DEF TypeOK, RequestState, ChallengeRow, EnrolCommitAndIssue, StaysConsumed
<1>2. \A u \in Sessions : sessions[u].chal # c
  BY <1>1 DEF ChallengeInv, OneSessionPerChallenge
<1>3. \A q \in Requests : Claims(q) => req[q].chal # c
  BY <1>1 DEF ChallengeInv
<1>4. OneSessionPerChallenge'
  <2>1. \A u \in Sessions : sessions[u].chal \in Challenges \cup {None}
    BY DEF TypeOK, SessionRow
  <2>2. QED
    BY <1>1, <1>2, <2>1 DEF ChallengeInv, OneSessionPerChallenge, StaysConsumed
<1>5. ASSUME NEW q \in Requests, Claims(q)'
      PROVE  /\ challenges'[req'[q].chal].state = "consumed"
             /\ \A u \in Sessions : sessions'[u].chal # req'[q].chal
  <2>1. Claims(q) /\ req'[q].chal = req[q].chal /\ req[q].chal \in Challenges
    BY <1>1, <1>5 DEF NoNewClaim, Claims, TypeOK, RequestState
  <2>2. QED
    BY <1>1, <1>3, <2>1 DEF ChallengeInv, StaysConsumed
<1>6. ASSUME NEW q \in Requests, NEW u \in Requests,
             Claims(q)', Claims(u)', req'[q].chal = req'[u].chal
      PROVE  q = u
  BY <1>1, <1>6 DEF ChallengeInv, NoNewClaim
<1>7. QED
  BY <1>4, <1>5, <1>6 DEF ChallengeInv, Claims

LEMMA ChallengeStep == TypeOK /\ TypeOK' /\ ChallengeInv /\ [Next]_vars => ChallengeInv'
<1> SUFFICES ASSUME TypeOK, TypeOK', ChallengeInv, [Next]_vars
             PROVE  ChallengeInv'
  OBVIOUS
<1>0. RequestShape'
  BY ShapeStep DEF ChallengeInv
<1>1. ASSUME SameSources, NoNewClaim, StaysConsumed
      PROVE  ChallengeInv'
  BY <1>0, <1>1, HarmlessStep
<1>2. ASSUME UNCHANGED sessions
      PROVE  SameSources
  BY <1>2 DEF SameSources
<1>3. ASSUME UNCHANGED challenges
      PROVE  StaysConsumed
  BY <1>3 DEF StaysConsumed
<1>4. ASSUME UNCHANGED req
      PROVE  NoNewClaim
  BY <1>4 DEF NoNewClaim, Claims
<1>5. ASSUME NEW r \in Requests, Login(r)
      PROVE  ChallengeInv'
  <2>1. CASE LoginVerify(r)
    <3>1. NoNewClaim
      BY <2>1 DEF TypeOK, LoginVerify, NoNewClaim, Claims, Idle
    <3>2. QED
      BY <1>1, <1>2, <1>3, <2>1, <3>1 DEF LoginVerify
  <2>2. CASE LoginDecide(r)
    <3>1. NoNewClaim
      BY <2>2 DEF TypeOK, LoginDecide, Goto, NoNewClaim, Claims, RequestState,
                  ChallengeInv, RequestShape
    <3>2. QED
      BY <1>1, <1>2, <1>3, <2>2, <3>1 DEF LoginDecide
  <2>3. ASSUME NEW c \in Challenges, StartChallenge(r, c)
        PROVE  ChallengeInv'
    <3>1. NoNewClaim
      BY <2>3, DoneNoClaim DEF StartChallenge
    <3>2. StaysConsumed
      BY <2>3 DEF TypeOK, StartChallenge, StaysConsumed
    <3>3. QED
      BY <1>1, <1>2, <2>3, <3>1, <3>2 DEF StartChallenge
  <2>4. QED
    BY <1>0, <1>5, <2>1, <2>2, <2>3, CompleteStep DEF Login
<1>6. ASSUME NEW r \in Requests, VerifyMFA(r)
      PROVE  ChallengeInv'
  <2>1. ASSUME NEW c \in Challenges, VerifyLoad(r, c)
        PROVE  ChallengeInv'
    <3>1. NoNewClaim
      BY <2>1 DEF TypeOK, VerifyLoad, NoNewClaim, Claims, Idle
    <3>2. QED
      BY <1>1, <1>2, <1>3, <2>1, <3>1 DEF VerifyLoad
  <2>2. CASE VerifyCount(r)
    <3>1. NoNewClaim
      BY <2>2, GotoNoClaim DEF VerifyCount, Steps
    <3>2. StaysConsumed
      BY <2>2 DEF TypeOK, VerifyCount, StaysConsumed, ChallengeRow
    <3>3. QED
      BY <1>1, <1>2, <2>2, <3>1, <3>2 DEF VerifyCount
  <2>3. CASE VerifyTotp(r)
    <3>1. NoNewClaim
      BY <2>3, GotoNoClaim DEF VerifyTotp, Steps
    <3>2. QED
      BY <1>1, <1>2, <1>3, <2>3, <3>1 DEF VerifyTotp
  <2>4. ASSUME NEW k \in RecoveryCodes, VerifyRecoveryCode(r, k)
        PROVE  ChallengeInv'
    <3>1. NoNewClaim
      BY <2>4 DEF TypeOK, VerifyRecoveryCode, NoNewClaim, Claims, RequestState
    <3>2. QED
      BY <1>1, <1>2, <1>3, <2>4, <3>1 DEF VerifyRecoveryCode
  <2>5. QED
    BY <1>0, <1>6, <2>1, <2>2, <2>3, <2>4, ConsumeStep DEF VerifyMFA
<1>7. ASSUME NEW r \in Requests, SelfService(r)
      PROVE  ChallengeInv'
  <2>1. ASSUME NEW s \in Sessions, Authenticate(r, s)
        PROVE  ChallengeInv'
    <3>1. NoNewClaim
      BY <2>1 DEF TypeOK, Authenticate, NoNewClaim, Claims, Idle
    <3>2. QED
      BY <1>1, <1>2, <1>3, <2>1, <3>1 DEF Authenticate
  <2>2. ASSUME NEW s \in Sessions, SignOut(r, s)
        PROVE  ChallengeInv'
    <3>1. NoNewClaim
      BY <2>2, DoneNoClaim DEF SignOut
    <3>2. SameSources
      BY <2>2 DEF TypeOK, SignOut, SameSources, SessionRow
    <3>3. QED
      BY <1>1, <1>3, <2>2, <3>1, <3>2 DEF SignOut
  <2>3. CASE ConfirmPassword(r)
    <3>1. NoNewClaim
      BY <2>3 DEF TypeOK, ConfirmPassword, NoNewClaim, Claims, RequestState
    <3>2. QED
      BY <1>1, <1>2, <1>3, <2>3, <3>1 DEF ConfirmPassword
  <2>4. CASE RevokeOtherSessions(r) \/ ChangePassword(r)
    <3>1. NoNewClaim
      BY <2>4, DoneNoClaim DEF RevokeOtherSessions, ChangePassword
    <3>2. SameSources
      BY <2>4, RevokeSources DEF RevokeOtherSessions, ChangePassword
    <3>3. QED
      BY <1>1, <1>3, <2>4, <3>1, <3>2 DEF RevokeOtherSessions, ChangePassword
  <2>5. CASE \/ \E fresh \in SUBSET RecoveryCodes : RegenerateRecoveryCodes(r, fresh)
             \/ \E m \in Methods : DeleteMFA(r, m)
    <3>1. NoNewClaim
      BY <2>5, DoneNoClaim DEF RegenerateRecoveryCodes, DeleteMFA
    <3>2. QED
      BY <1>1, <1>2, <1>3, <2>5, <3>1 DEF RegenerateRecoveryCodes, DeleteMFA
  <2>6. QED
    BY <1>7, <2>1, <2>2, <2>3, <2>4, <2>5 DEF SelfService
<1>8. ASSUME NEW r \in Requests, Enrolment(r)
      PROVE  ChallengeInv'
  <2>1. ASSUME NEW c \in Challenges, EnrolSubject(r, c)
        PROVE  ChallengeInv'
    <3>1. NoNewClaim
      BY <2>1 DEF TypeOK, EnrolSubject, NoNewClaim, Claims, Idle
    <3>2. QED
      BY <1>1, <1>2, <1>3, <2>1, <3>1 DEF EnrolSubject
  <2>2. ASSUME NEW m \in Methods, StartEnrolment(r, m)
        PROVE  ChallengeInv'
    <3>1. NoNewClaim
      BY <2>2, DoneNoClaim DEF StartEnrolment
    <3>2. StaysConsumed
      BY <2>2 DEF TypeOK, StartEnrolment, StaysConsumed, ChallengeRow
    <3>3. QED
      BY <1>1, <1>2, <2>2, <3>1, <3>2 DEF StartEnrolment
  <2>3. ASSUME NEW m \in Methods, EnrolProve(r, m)
        PROVE  ChallengeInv'
    <3>1. NoNewClaim
      BY <2>3 DEF TypeOK, EnrolProve, NoNewClaim, Claims, RequestState
    <3>2. QED
      BY <1>1, <1>2, <1>3, <2>3, <3>1 DEF EnrolProve
  <2>4. ASSUME NEW fresh, EnrolCommit(r, fresh)
        PROVE  ChallengeInv'
    <3>1. NoNewClaim
      BY <2>4, DoneNoClaim DEF EnrolCommit
    <3>2. QED
      BY <1>1, <1>2, <1>3, <2>4, <3>1 DEF EnrolCommit
  <2>5. QED
    BY <1>0, <1>8, <2>1, <2>2, <2>3, <2>4, EnrolStep DEF Enrolment
<1>9. CASE Recovery
  <2>1. ASSUME ResetPassword
        PROVE  ChallengeInv'
    <3>1. SameSources
      BY <2>1, RevokeSources DEF ResetPassword
    <3>2. QED
      BY <1>1, <1>3, <1>4, <2>1, <3>1 DEF ResetPassword
  <2>2. QED
    BY <1>1, <1>2, <1>3, <1>4, <1>9, <2>1 DEF Recovery, ResetRevokes, ResetFails
<1>10. ASSUME NEW c \in Challenges, ExpireChallenge(c)
       PROVE  ChallengeInv'
  <2>1. StaysConsumed
    BY <1>10 DEF TypeOK, ExpireChallenge, StaysConsumed, ChallengeRow
  <2>2. QED
    BY <1>1, <1>2, <1>4, <1>10, <2>1 DEF ExpireChallenge
<1>11. ASSUME NEW r \in Requests, Abandon(r)
       PROVE  ChallengeInv'
  BY <1>1, <1>2, <1>3, <1>11, DoneNoClaim DEF Abandon
<1>12. CASE Operator \/ UNCHANGED vars
  BY <1>1, <1>2, <1>3, <1>4, <1>12 DEF Operator, OperatorChanges
<1>13. QED
  BY <1>5, <1>6, <1>7, <1>8, <1>9, <1>10, <1>11, <1>12 DEF Next

LEMMA ChallengeInvariant == Spec => []ChallengeInv
<1>1. Init => ChallengeInv
  BY DEF Init, ChallengeInv, RequestShape, OneSessionPerChallenge, Claims, Idle
<1>2. QED
  BY <1>1, ChallengeStep, TypeCorrect, PTL DEF Spec

\* However VerifyMFA, enrolment and abandoned requests interleave, a challenge
\* pays for at most one session, and only once it is spent.
THEOREM ChallengeSingleUse == Spec => []OneSessionPerChallenge
<1>1. ChallengeInv => OneSessionPerChallenge
  BY DEF ChallengeInv
<1>2. QED
  BY <1>1, ChallengeInvariant, PTL

-----------------------------------------------------------------------------
(* What a reset leaves signed in                                           *)

\* No session comes to life, and those there are stay what they were.
NoNewSession ==
    \A s \in Sessions : sessions'[s].state = "live" =>
        /\ sessions[s].state = "live"
        /\ sessions'[s].password = sessions[s].password
        /\ sessions'[s].late = sessions[s].late

LEMMA RevokeNoSession ==
  ASSUME TypeOK, NEW those, RevokeSessions(those)
  PROVE  /\ NoNewSession
         /\ \A s \in Sessions : sessions'[s].state = "live" => s \notin those
  BY DEF TypeOK, RevokeSessions, NoNewSession, SessionRow

\* A session issued now, with a password set by now, is late if it is older than
\* the last reset.
LEMMA IssueKeepsRevoked ==
  ASSUME TypeOK, RevokedInv, UNCHANGED <<account, revoking>>,
         NEW s \in Sessions, NEW mfa, NEW c, NEW k, NEW p, IssueSession(s, mfa, c, k, p)
  PROVE  RevokedInv'
<1>1. /\ \A u \in Sessions \ {s} : sessions'[u] = sessions[u]
      /\ sessions'[s].password = p
      /\ sessions'[s].late <=> (revoking # None \/ p < account.resetAt)
  BY DEF IssueSession, TypeOK
<1>2. QED
  BY <1>1 DEF RevokedInv, ResetSignsOut, Live

LEMMA RevokedStep == TypeOK /\ RevokedInv /\ [Next]_vars => RevokedInv'
<1> SUFFICES ASSUME TypeOK, RevokedInv, [Next]_vars
             PROVE  RevokedInv'
  OBVIOUS
<1>0. account.password \in Nat /\ account.resetAt \in Nat
  BY DEF TypeOK, AccountRow, Passwords
<1>1. ASSUME NoNewSession, account'.resetAt = account.resetAt, UNCHANGED revoking,
             account'.password = account.password \/ account'.password = account.password + 1
      PROVE  RevokedInv'
  BY <1>0, <1>1 DEF RevokedInv, ResetSignsOut, NoNewSession, Live
<1>2. ASSUME UNCHANGED sessions
      PROVE  NoNewSession
  BY <1>2 DEF NoNewSession
<1>3. ASSUME NEW r \in Requests, ChangePassword(r)
      PROVE  RevokedInv'
  BY <1>1, <1>3, RevokeNoSession DEF ChangePassword, SetPassword, TypeOK, AccountRow
<1>4. CASE ResetRevokes
  BY <1>4 DEF ResetRevokes, RevokedInv, ResetSignsOut, Live
<1>5. CASE ResetFails
  BY <1>5 DEF ResetFails, RevokedInv, ResetSignsOut
<1>6. CASE ResetPassword
  <2>1. /\ NoNewSession
        /\ \A s \in Sessions : sessions'[s].state = "live" => s \notin revoking
    BY <1>6, RevokeNoSession DEF ResetPassword
  <2>2. \A s \in Sessions : sessions'[s].state = "live" => sessions'[s].late
    BY <1>6, <2>1 DEF ResetPassword, RevokedInv, NoNewSession, Live
  <2>3. account'.resetAt <= account'.password /\ revoking' = None
    BY <1>0, <1>6 DEF ResetPassword, SetPassword, TypeOK, AccountRow
  <2>4. QED
    BY <2>2, <2>3 DEF RevokedInv, ResetSignsOut
<1>7. ASSUME NEW status, NEW mfaRequired, OperatorChanges(status, mfaRequired)
      PROVE  RevokedInv'
  BY <1>1, <1>2, <1>7 DEF OperatorChanges, TypeOK, AccountRow
<1>8. ASSUME UNCHANGED <<account, sessions, revoking>>
      PROVE  RevokedInv'
  BY <1>1, <1>2, <1>8
<1>9. ASSUME NEW r \in Requests, Login(r) \/ VerifyMFA(r) \/ Enrolment(r) \/ Abandon(r)
      PROVE  RevokedInv'
  BY <1>8, <1>9, IssueKeepsRevoked DEF Login, LoginVerify, LoginDecide, StartChallenge,
     CompleteLogin, VerifyMFA, VerifyLoad, VerifyCount, VerifyTotp, VerifyRecoveryCode,
     VerifyConsume, Enrolment, EnrolSubject, StartEnrolment, EnrolProve, EnrolCommit,
     EnrolCommitAndIssue, Abandon
<1>10. ASSUME NEW r \in Requests, NEW s \in Sessions, SignOut(r, s)
       PROVE  RevokedInv'
  <2>1. NoNewSession
    BY <1>10 DEF SignOut, TypeOK, SessionRow, NoNewSession
  <2>2. QED
    BY <1>1, <1>10, <2>1 DEF SignOut
<1>11. ASSUME NEW r \in Requests, RevokeOtherSessions(r)
       PROVE  RevokedInv'
  BY <1>1, <1>11, RevokeNoSession DEF RevokeOtherSessions
<1>12. ASSUME NEW r \in Requests, SelfService(r)
       PROVE  RevokedInv'
  BY <1>3, <1>8, <1>10, <1>11, <1>12 DEF SelfService, Authenticate, ConfirmPassword,
     RegenerateRecoveryCodes, DeleteMFA
<1>13. QED
  BY <1>4, <1>5, <1>6, <1>7, <1>8, <1>9, <1>12 DEF Next, Recovery, ExpireChallenge, Operator

\* "Every session goes": a session begun with a password that a reset replaced is
\* signed out by it, however sign-ins and password changes interleave with its
\* statements, unless it was issued once the reset was under way.
THEOREM ResetSignsOthersOut == Spec => []ResetSignsOut
<1>1. Init => RevokedInv
  BY DEF Init, RevokedInv, ResetSignsOut
<1>2. RevokedInv => ResetSignsOut
  BY DEF RevokedInv
<1>3. QED
  BY <1>1, <1>2, RevokedStep, TypeCorrect, PTL DEF Spec

-----------------------------------------------------------------------------
(* Recovery codes                                                          *)

Spent == {"used", "deleted"}

\* A code that was spent is never usable again.
StaySpent == \A k \in RecoveryCodes : codes[k] \in Spent => codes'[k] \in Spent

\* No request and no session comes by a code it did not have.
NoNewCode ==
    /\ \A r \in Requests : req'[r].code \in {req[r].code, None}
    /\ \A s \in Sessions : sessions'[s].code \in {sessions[s].code, None}

LEMMA ReplaceSpends ==
  ASSUME TypeOK, NEW fresh, ReplaceRecoveryCodes(fresh)
  PROVE  StaySpent
  BY DEF TypeOK, ReplaceRecoveryCodes, StaySpent, Spent

LEMMA DoneNoCode ==
  ASSUME TypeOK, NEW r \in Requests, Done(r)
  PROVE  \A q \in Requests : req'[q].code \in {req[q].code, None}
  BY DEF TypeOK, Done, Idle

LEMMA GotoNoCode ==
  ASSUME TypeOK, NEW r \in Requests, NEW step, Goto(r, step)
  PROVE  \A q \in Requests : req'[q].code \in {req[q].code, None}
  BY DEF TypeOK, Goto, RequestState

LEMMA RevokeNoCode ==
  ASSUME TypeOK, NEW e, RevokeSessions(e)
  PROVE  \A s \in Sessions : sessions'[s].code \in {sessions[s].code, None}
  BY RevokeSources DEF SameSources

\* Codes held by requests and sessions may only be dropped.
LEMMA CodesDropped ==
  ASSUME TypeOK, TypeOK', RecoveryCodeInv, NoNewCode, StaySpent
  PROVE  RecoveryCodeInv'
<1>1. /\ \A r \in Requests : req[r].code \in RecoveryCodes \cup {None}
      /\ \A s \in Sessions : sessions[s].code \in RecoveryCodes \cup {None}
  BY DEF TypeOK, RequestState, SessionRow
<1>2. OneSessionPerRecoveryCode'
  BY <1>1 DEF RecoveryCodeInv, OneSessionPerRecoveryCode, NoNewCode, StaySpent, Spent
<1>3. ASSUME NEW r \in Requests, req'[r].code # None
      PROVE  /\ codes'[req'[r].code] \in Spent
             /\ \A s \in Sessions : sessions'[s].code # req'[r].code
  BY <1>1, <1>3 DEF RecoveryCodeInv, NoNewCode, StaySpent, Spent
<1>4. ASSUME NEW r \in Requests, NEW q \in Requests,
             req'[r].code # None, req'[r].code = req'[q].code
      PROVE  r = q
  BY <1>4 DEF RecoveryCodeInv, NoNewCode
<1>5. QED
  BY <1>2, <1>3, <1>4 DEF RecoveryCodeInv, Spent

\* ConsumeRecoveryCode gives the one request that finds it unused a code.
LEMMA SpendStep ==
  ASSUME TypeOK, RecoveryCodeInv,
         NEW r \in Requests, NEW k \in RecoveryCodes, VerifyRecoveryCode(r, k)
  PROVE  RecoveryCodeInv'
<1>1. /\ codes[k] = "unused" /\ codes'[k] = "used" /\ req'[r].code = k
      /\ \A l \in RecoveryCodes \ {k} : codes'[l] = codes[l]
      /\ \A q \in Requests \ {r} : req'[q] = req[q]
      /\ UNCHANGED sessions
  BY DEF TypeOK, RequestState, VerifyRecoveryCode
<1>2. /\ \A s \in Sessions : sessions[s].code \in (RecoveryCodes \cup {None}) \ {k}
      /\ \A q \in Requests : req[q].code \in (RecoveryCodes \cup {None}) \ {k}
  BY <1>1 DEF TypeOK, RequestState, SessionRow, RecoveryCodeInv, OneSessionPerRecoveryCode
<1>3. OneSessionPerRecoveryCode'
  BY <1>1, <1>2 DEF RecoveryCodeInv, OneSessionPerRecoveryCode
<1>4. ASSUME NEW q \in Requests, req'[q].code # None
      PROVE  /\ codes'[req'[q].code] \in {"used", "deleted"}
             /\ \A s \in Sessions : sessions'[s].code # req'[q].code
  BY <1>1, <1>2, <1>4 DEF RecoveryCodeInv
<1>5. ASSUME NEW q \in Requests, NEW u \in Requests,
             req'[q].code # None, req'[q].code = req'[u].code
      PROVE  q = u
  BY <1>1, <1>2, <1>5 DEF RecoveryCodeInv
<1>6. QED
  BY <1>3, <1>4, <1>5 DEF RecoveryCodeInv

\* completeLogin hands the code of the request to the session.
LEMMA CashStep ==
  ASSUME TypeOK, RecoveryCodeInv,
         NEW r \in Requests, NEW s \in Sessions, CompleteLogin(r, s)
  PROVE  RecoveryCodeInv'
<1> DEFINE k == req[r].code
<1>1. /\ sessions'[s].code = k /\ \A u \in Sessions \ {s} : sessions'[u] = sessions[u]
      /\ req'[r].code = None /\ \A q \in Requests \ {r} : req'[q] = req[q]
      /\ UNCHANGED codes
  BY IssueSources DEF TypeOK, CompleteLogin, Done, Idle
<1>2. k # None => /\ codes[k] \in {"used", "deleted"}
                  /\ \A u \in Sessions : sessions[u].code # k
                  /\ \A q \in Requests \ {r} : req[q].code # k
  BY DEF RecoveryCodeInv
<1>3. OneSessionPerRecoveryCode'
  BY <1>1, <1>2 DEF RecoveryCodeInv, OneSessionPerRecoveryCode
<1>4. ASSUME NEW q \in Requests, req'[q].code # None
      PROVE  /\ codes'[req'[q].code] \in {"used", "deleted"}
             /\ \A u \in Sessions : sessions'[u].code # req'[q].code
  BY <1>1, <1>2, <1>4 DEF RecoveryCodeInv
<1>5. ASSUME NEW q \in Requests, NEW u \in Requests,
             req'[q].code # None, req'[q].code = req'[u].code
      PROVE  q = u
  BY <1>1, <1>5 DEF RecoveryCodeInv
<1>6. QED
  BY <1>3, <1>4, <1>5 DEF RecoveryCodeInv

LEMMA RecoveryCodeStep ==
  TypeOK /\ TypeOK' /\ RecoveryCodeInv /\ [Next]_vars => RecoveryCodeInv'
<1> SUFFICES ASSUME TypeOK, TypeOK', RecoveryCodeInv, [Next]_vars
             PROVE  RecoveryCodeInv'
  OBVIOUS
<1> DEFINE Requested == \A q \in Requests : req'[q].code \in {req[q].code, None}
           Stored    == \A s \in Sessions : sessions'[s].code \in {sessions[s].code, None}
<1>1. ASSUME Requested, Stored, StaySpent
      PROVE  RecoveryCodeInv'
  BY <1>1, CodesDropped DEF NoNewCode
<1>2. UNCHANGED req => Requested
  OBVIOUS
<1>3. UNCHANGED sessions => Stored
  OBVIOUS
<1>4. UNCHANGED codes => StaySpent
  BY DEF StaySpent
<1>5. ASSUME NEW r \in Requests, Done(r)
      PROVE  Requested
  BY <1>5, DoneNoCode
<1>6. ASSUME NEW r \in Requests, NEW step, Goto(r, step)
      PROVE  Requested
  BY <1>6, GotoNoCode
<1> HIDE DEF Requested, Stored
<1>7. ASSUME NEW r \in Requests, Login(r)
      PROVE  RecoveryCodeInv'
  <2>1. CASE LoginVerify(r)
    <3>1. Requested
      BY <2>1 DEF LoginVerify, Idle, TypeOK, Requested
    <3>2. QED
      BY <1>1, <1>3, <1>4, <2>1, <3>1 DEF LoginVerify
  <2>2. CASE LoginDecide(r)
    BY <1>1, <1>3, <1>4, <1>6, <2>2 DEF LoginDecide
  <2>3. ASSUME NEW c \in Challenges, StartChallenge(r, c)
        PROVE  RecoveryCodeInv'
    BY <1>1, <1>3, <1>4, <1>5, <2>3 DEF StartChallenge
  <2>4. QED
    BY <1>7, <2>1, <2>2, <2>3, CashStep DEF Login
<1>8. ASSUME NEW r \in Requests, VerifyMFA(r)
      PROVE  RecoveryCodeInv'
  <2>1. ASSUME NEW c \in Challenges, VerifyLoad(r, c)
        PROVE  RecoveryCodeInv'
    <3>1. Requested
      BY <2>1 DEF VerifyLoad, Idle, TypeOK, Requested
    <3>2. QED
      BY <1>1, <1>3, <1>4, <2>1, <3>1 DEF VerifyLoad
  <2>2. CASE VerifyCount(r) \/ VerifyTotp(r) \/ VerifyConsume(r)
    BY <1>1, <1>3, <1>4, <1>6, <2>2 DEF VerifyCount, VerifyTotp, VerifyConsume
  <2>3. QED
    BY <1>8, <2>1, <2>2, SpendStep DEF VerifyMFA
<1>9. ASSUME NEW r \in Requests, SelfService(r)
      PROVE  RecoveryCodeInv'
  <2>1. ASSUME NEW s \in Sessions, Authenticate(r, s)
        PROVE  RecoveryCodeInv'
    <3>1. Requested
      BY <2>1 DEF Authenticate, Idle, TypeOK, Requested
    <3>2. QED
      BY <1>1, <1>3, <1>4, <2>1, <3>1 DEF Authenticate
  <2>2. ASSUME NEW s \in Sessions, SignOut(r, s)
        PROVE  RecoveryCodeInv'
    <3>1. Stored
      BY <2>2 DEF SignOut, TypeOK, SessionRow, Stored
    <3>2. QED
      BY <1>1, <1>4, <1>5, <2>2, <3>1 DEF SignOut
  <2>3. CASE RevokeOtherSessions(r) \/ ChangePassword(r)
    <3>1. Stored
      BY <2>3, RevokeNoCode DEF RevokeOtherSessions, ChangePassword, Stored
    <3>2. QED
      BY <1>1, <1>4, <1>5, <2>3, <3>1 DEF RevokeOtherSessions, ChangePassword
  <2>4. CASE ConfirmPassword(r)
    <3>1. Requested
      BY <2>4 DEF ConfirmPassword, TypeOK, RequestState, Requested
    <3>2. QED
      BY <1>1, <1>3, <1>4, <2>4, <3>1 DEF ConfirmPassword
  <2>5. ASSUME NEW fresh, RegenerateRecoveryCodes(r, fresh)
        PROVE  RecoveryCodeInv'
    BY <1>1, <1>3, <1>5, <2>5, ReplaceSpends DEF RegenerateRecoveryCodes
  <2>6. ASSUME NEW m \in Methods, DeleteMFA(r, m)
        PROVE  RecoveryCodeInv'
    BY <1>1, <1>3, <1>4, <1>5, <2>6 DEF DeleteMFA
  <2>7. QED
    BY <1>9, <2>1, <2>2, <2>3, <2>4, <2>5, <2>6 DEF SelfService
<1>10. ASSUME NEW r \in Requests, Enrolment(r)
       PROVE  RecoveryCodeInv'
  <2>1. ASSUME NEW c \in Challenges, EnrolSubject(r, c)
        PROVE  RecoveryCodeInv'
    <3>1. Requested
      BY <2>1 DEF EnrolSubject, Idle, TypeOK, Requested
    <3>2. QED
      BY <1>1, <1>3, <1>4, <2>1, <3>1 DEF EnrolSubject
  <2>2. ASSUME NEW m \in Methods, StartEnrolment(r, m)
        PROVE  RecoveryCodeInv'
    BY <1>1, <1>3, <1>4, <1>5, <2>2 DEF StartEnrolment
  <2>3. ASSUME NEW m \in Methods, EnrolProve(r, m)
        PROVE  RecoveryCodeInv'
    <3>1. Requested
      BY <2>3 DEF EnrolProve, TypeOK, RequestState, Requested
    <3>2. QED
      BY <1>1, <1>3, <1>4, <2>3, <3>1 DEF EnrolProve
  <2>4. ASSUME NEW fresh, EnrolCommit(r, fresh)
        PROVE  RecoveryCodeInv'
    <3>1. Requested /\ ReplaceRecoveryCodes(fresh) /\ UNCHANGED sessions
      BY <1>5, <2>4 DEF EnrolCommit
    <3>2. Stored
      BY <1>3, <3>1
    <3>3. QED
      BY <1>1, <3>1, <3>2, ReplaceSpends
  <2>5. ASSUME NEW fresh, NEW s \in Sessions, EnrolCommitAndIssue(r, fresh, s)
        PROVE  RecoveryCodeInv'
    <3>1. Done(r) /\ ReplaceRecoveryCodes(fresh)
          /\ IssueSession(s, TRUE, req[r].chal, None, req[r].password)
      BY <2>5 DEF EnrolCommitAndIssue
    <3>2. sessions'[s].code = None /\ \A u \in Sessions \ {s} : sessions'[u] = sessions[u]
      BY <3>1 DEF TypeOK, IssueSession
    <3>3. Stored
      BY <3>2 DEF Stored
    <3>4. QED
      BY <1>1, <1>5, <3>1, <3>3, ReplaceSpends
  <2>6. QED
    BY <1>10, <2>1, <2>2, <2>3, <2>4, <2>5 DEF Enrolment
<1>11. CASE Recovery
  <2>1. ASSUME ResetPassword
        PROVE  RecoveryCodeInv'
    <3>1. Stored
      BY <2>1, RevokeNoCode DEF ResetPassword, Stored
    <3>2. QED
      BY <1>1, <1>2, <1>4, <2>1, <3>1 DEF ResetPassword
  <2>2. QED
    BY <1>1, <1>2, <1>3, <1>4, <1>11, <2>1 DEF Recovery, ResetRevokes, ResetFails
<1>12. ASSUME NEW r \in Requests, Abandon(r)
       PROVE  RecoveryCodeInv'
  BY <1>1, <1>3, <1>4, <1>5, <1>12 DEF Abandon
<1>13. CASE Operator \/ (\E c \in Challenges : ExpireChallenge(c)) \/ UNCHANGED vars
  BY <1>1, <1>2, <1>3, <1>4, <1>13 DEF Operator, OperatorChanges, ExpireChallenge
<1>14. QED
  BY <1>7, <1>8, <1>9, <1>10, <1>11, <1>12, <1>13 DEF Next

\* A recovery code is spent in a transaction of its own, before the challenge;
\* still, whatever is regenerated or abandoned in between, it pays for at most
\* one session, and is spent by then.
THEOREM RecoveryCodeSingleUse == Spec => []OneSessionPerRecoveryCode
<1>1. Init => RecoveryCodeInv
  BY DEF Init, RecoveryCodeInv, OneSessionPerRecoveryCode, Idle
<1>2. RecoveryCodeInv => OneSessionPerRecoveryCode
  BY DEF RecoveryCodeInv
<1>3. QED
  BY <1>1, <1>2, RecoveryCodeStep, TypeCorrect, PTL DEF Spec

-----------------------------------------------------------------------------
(* Guesses                                                                 *)

\* A step that loads nothing for a challenge at its maximum, and counts nothing.
Quiet == \A c \in Challenges :
    \/ challenges'[c].attempts < MaxAttempts
    \/ /\ challenges'[c].attempts = challenges[c].attempts
       /\ Uncounted(c)' \subseteq Uncounted(c)

SameAttempts == \A c \in Challenges : challenges'[c].attempts = challenges[c].attempts

NobodyLoads == \A q \in Requests : req'[q].at = "loaded" =>
                   req[q].at = "loaded" /\ req'[q].chal = req[q].chal

LEMMA UncountedFinite ==
  ASSUME NEW c
  PROVE  /\ IsFiniteSet(Uncounted(c)) /\ Cardinality(Uncounted(c)) \in Nat
         /\ Cardinality(Uncounted(c)) <= Cardinality(Requests)
         /\ Cardinality(Requests) \in Nat
<1>1. Uncounted(c) \in SUBSET Requests
  BY DEF Uncounted
<1>2. IsFiniteSet(Uncounted(c)) /\ Cardinality(Uncounted(c)) <= Cardinality(Requests)
  BY <1>1, FS_Subset, RequestsAssumption
<1>3. QED
  BY <1>2, RequestsAssumption, FS_CardinalityType

LEMMA QuietStep ==
  ASSUME TypeOK, TypeOK', AttemptsInv, Quiet
  PROVE  AttemptsInv'
<1> SUFFICES ASSUME NEW c \in Challenges, ~(challenges'[c].attempts < MaxAttempts)
             PROVE  challenges'[c].attempts + Cardinality(Uncounted(c)')
                        <= MaxAttempts - 1 + Cardinality(Requests)
  BY DEF AttemptsInv
<1>1. /\ challenges'[c].attempts = challenges[c].attempts
      /\ Uncounted(c)' \subseteq Uncounted(c)
  BY DEF Quiet
<1>2. challenges[c].attempts \in Nat
  BY DEF TypeOK, ChallengeRow
<1>3. challenges[c].attempts + Cardinality(Uncounted(c))
          <= MaxAttempts - 1 + Cardinality(Requests)
  BY <1>1 DEF AttemptsInv
<1>4. /\ Cardinality(Uncounted(c)') <= Cardinality(Uncounted(c))
      /\ Cardinality(Uncounted(c)') \in Nat
  BY <1>1, UncountedFinite, FS_Subset, FS_CardinalityType
<1>5. QED
  BY <1>1, <1>2, <1>3, <1>4, UncountedFinite

\* What most steps do.
LEMMA NothingLoaded ==
  ASSUME TypeOK, TypeOK', AttemptsInv, SameAttempts, NobodyLoads
  PROVE  AttemptsInv'
<1>1. Quiet
  BY DEF Quiet, SameAttempts, NobodyLoads, Uncounted
<1>2. QED
  BY <1>1, QuietStep

LEMMA DoneLoadsNothing ==
  ASSUME TypeOK, NEW r \in Requests, Done(r)
  PROVE  NobodyLoads
  BY DEF TypeOK, Done, Idle, NobodyLoads

LEMMA GotoLoadsNothing ==
  ASSUME TypeOK, NEW r \in Requests, NEW step, step # "loaded", Goto(r, step)
  PROVE  NobodyLoads
  BY DEF TypeOK, Goto, RequestState, NobodyLoads

\* LoadChallenge still finds a guess left.
LEMMA LoadStep ==
  ASSUME TypeOK, TypeOK', AttemptsInv,
         NEW r \in Requests, NEW c \in Challenges, VerifyLoad(r, c)
  PROVE  AttemptsInv'
<1>1. /\ challenges'[c].attempts < MaxAttempts
      /\ SameAttempts
      /\ req'[r].chal = c /\ \A q \in Requests \ {r} : req'[q] = req[q]
  BY DEF TypeOK, VerifyLoad, Loadable, SameAttempts, Idle
<1>2. Quiet
  BY <1>1 DEF Quiet, SameAttempts, Uncounted
<1>3. QED
  BY <1>2, QuietStep

\* RecordChallengeAttempt: one guess more, one request fewer that has to count.
LEMMA CountStep ==
  ASSUME TypeOK, TypeOK', AttemptsInv, NEW r \in Requests, VerifyCount(r)
  PROVE  AttemptsInv'
<1> SUFFICES ASSUME NEW c \in Challenges, ~(challenges'[c].attempts < MaxAttempts)
             PROVE  challenges'[c].attempts + Cardinality(Uncounted(c)')
                        <= MaxAttempts - 1 + Cardinality(Requests)
  BY DEF AttemptsInv
<1>0. challenges[c].attempts \in Nat
  BY DEF TypeOK, ChallengeRow
<1>1. /\ req[r].at = "loaded" /\ req'[r].at # "loaded"
      /\ \A q \in Requests \ {r} : req'[q] = req[q]
  BY DEF TypeOK, VerifyCount, Goto, RequestState
<1>2. Uncounted(c)' = Uncounted(c) \ {r}
  BY <1>1 DEF Uncounted
<1>3. Cardinality(Uncounted(c)') =
          IF r \in Uncounted(c) THEN Cardinality(Uncounted(c)) - 1
                                ELSE Cardinality(Uncounted(c))
  BY <1>2, UncountedFinite, FS_RemoveElement
<1>4. CASE c = req[r].chal
  <2>1. r \in Uncounted(c) /\ challenges'[c].attempts = challenges[c].attempts + 1
    BY <1>1, <1>4 DEF Uncounted, VerifyCount, TypeOK, ChallengeRow
  <2>2. CASE challenges[c].attempts < MaxAttempts
    BY <1>0, <1>3, <2>1, <2>2, UncountedFinite
  <2>3. CASE ~(challenges[c].attempts < MaxAttempts)
    BY <1>0, <1>3, <2>1, <2>3, UncountedFinite DEF AttemptsInv
  <2>4. QED
    BY <2>2, <2>3
<1>5. CASE c # req[r].chal
  <2>1. r \notin Uncounted(c) /\ challenges'[c].attempts = challenges[c].attempts
    BY <1>5 DEF Uncounted, VerifyCount, TypeOK
  <2>2. QED
    BY <1>3, <2>1 DEF AttemptsInv
<1>6. QED
  BY <1>4, <1>5

LEMMA AttemptsStep == TypeOK /\ TypeOK' /\ AttemptsInv /\ [Next]_vars => AttemptsInv'
<1> SUFFICES ASSUME TypeOK, TypeOK', AttemptsInv, [Next]_vars
             PROVE  AttemptsInv'
  OBVIOUS
<1>1. ASSUME SameAttempts, NobodyLoads
      PROVE  AttemptsInv'
  BY <1>1, NothingLoaded
<1>2. UNCHANGED challenges => SameAttempts
  BY DEF SameAttempts
<1>3. UNCHANGED req => NobodyLoads
  BY DEF NobodyLoads
<1>4. ASSUME NEW r \in Requests, Login(r)
      PROVE  AttemptsInv'
  <2>1. CASE LoginVerify(r)
    <3>1. NobodyLoads
      BY <2>1 DEF LoginVerify, Idle, TypeOK, NobodyLoads
    <3>2. QED
      BY <1>1, <1>2, <2>1, <3>1 DEF LoginVerify
  <2>2. CASE LoginDecide(r)
    BY <1>1, <1>2, <2>2, GotoLoadsNothing DEF LoginDecide
  <2>3. ASSUME NEW c \in Challenges, StartChallenge(r, c)
        PROVE  AttemptsInv'
    <3>1. \A d \in Challenges : \/ challenges'[d].attempts = challenges[d].attempts
                                \/ challenges'[d].attempts = 0
      BY <2>3 DEF StartChallenge, TypeOK
    <3>2. Quiet
      BY <2>3, <3>1, DoneLoadsNothing DEF StartChallenge, Quiet, NobodyLoads, Uncounted
    <3>3. QED
      BY <3>2, QuietStep
  <2>4. ASSUME NEW s \in Sessions, CompleteLogin(r, s)
        PROVE  AttemptsInv'
    BY <1>1, <1>2, <2>4, DoneLoadsNothing DEF CompleteLogin
  <2>5. QED
    BY <1>4, <2>1, <2>2, <2>3, <2>4 DEF Login
<1>5. ASSUME NEW r \in Requests, VerifyMFA(r)
      PROVE  AttemptsInv'
  <2>1. CASE VerifyTotp(r)
    BY <1>1, <1>2, <2>1, GotoLoadsNothing DEF VerifyTotp
  <2>2. ASSUME NEW k \in RecoveryCodes, VerifyRecoveryCode(r, k)
        PROVE  AttemptsInv'
    <3>1. NobodyLoads
      BY <2>2 DEF VerifyRecoveryCode, TypeOK, RequestState, NobodyLoads
    <3>2. QED
      BY <1>1, <1>2, <2>2, <3>1 DEF VerifyRecoveryCode
  <2>3. CASE VerifyConsume(r)
    <3>1. SameAttempts
      BY <2>3 DEF VerifyConsume, TypeOK, ChallengeRow, SameAttempts
    <3>2. QED
      BY <1>1, <2>3, <3>1, GotoLoadsNothing DEF VerifyConsume
  <2>4. QED
    BY <1>5, <2>1, <2>2, <2>3, LoadStep, CountStep DEF VerifyMFA
<1>6. ASSUME NEW r \in Requests, SelfService(r)
      PROVE  AttemptsInv'
  <2>1. ASSUME NEW s \in Sessions, Authenticate(r, s)
        PROVE  AttemptsInv'
    <3>1. NobodyLoads
      BY <2>1 DEF Authenticate, Idle, TypeOK, NobodyLoads
    <3>2. QED
      BY <1>1, <1>2, <2>1, <3>1 DEF Authenticate
  <2>2. CASE ConfirmPassword(r)
    <3>1. NobodyLoads
      BY <2>2 DEF ConfirmPassword, TypeOK, RequestState, NobodyLoads
    <3>2. QED
      BY <1>1, <1>2, <2>2, <3>1 DEF ConfirmPassword
  <2>3. ASSUME \/ \E s \in Sessions : SignOut(r, s)
               \/ RevokeOtherSessions(r) \/ ChangePassword(r)
               \/ \E fresh \in SUBSET RecoveryCodes : RegenerateRecoveryCodes(r, fresh)
               \/ \E m \in Methods : DeleteMFA(r, m)
        PROVE  AttemptsInv'
    <3>1. Done(r) /\ UNCHANGED challenges
      BY <2>3 DEF SignOut, RevokeOtherSessions, ChangePassword, RegenerateRecoveryCodes, DeleteMFA
    <3>2. QED
      BY <1>1, <1>2, <3>1, DoneLoadsNothing
  <2>4. QED
    BY <1>6, <2>1, <2>2, <2>3 DEF SelfService
<1>7. ASSUME NEW r \in Requests, Enrolment(r)
      PROVE  AttemptsInv'
  <2>1. ASSUME NEW c \in Challenges, EnrolSubject(r, c)
        PROVE  AttemptsInv'
    <3>1. NobodyLoads
      BY <2>1 DEF EnrolSubject, Idle, TypeOK, NobodyLoads
    <3>2. QED
      BY <1>1, <1>2, <2>1, <3>1 DEF EnrolSubject
  <2>2. ASSUME NEW m \in Methods, StartEnrolment(r, m)
        PROVE  AttemptsInv'
    <3>1. SameAttempts
      BY <2>2 DEF StartEnrolment, TypeOK, ChallengeRow, SameAttempts
    <3>2. QED
      BY <1>1, <2>2, <3>1, DoneLoadsNothing DEF StartEnrolment
  <2>3. ASSUME NEW m \in Methods, EnrolProve(r, m)
        PROVE  AttemptsInv'
    <3>1. NobodyLoads
      BY <2>3 DEF EnrolProve, TypeOK, RequestState, NobodyLoads
    <3>2. QED
      BY <1>1, <1>2, <2>3, <3>1 DEF EnrolProve
  <2>4. ASSUME NEW fresh, EnrolCommit(r, fresh)
        PROVE  AttemptsInv'
    BY <1>1, <1>2, <2>4, DoneLoadsNothing DEF EnrolCommit
  <2>5. ASSUME NEW fresh, NEW s \in Sessions, EnrolCommitAndIssue(r, fresh, s)
        PROVE  AttemptsInv'
    <3>1. SameAttempts
      BY <2>5 DEF EnrolCommitAndIssue, TypeOK, ChallengeRow, SameAttempts
    <3>2. QED
      BY <1>1, <2>5, <3>1, DoneLoadsNothing DEF EnrolCommitAndIssue
  <2>6. QED
    BY <1>7, <2>1, <2>2, <2>3, <2>4, <2>5 DEF Enrolment
<1>8. ASSUME NEW r \in Requests, Abandon(r)
      PROVE  AttemptsInv'
  BY <1>1, <1>2, <1>8, DoneLoadsNothing DEF Abandon
<1>9. ASSUME NEW c \in Challenges, ExpireChallenge(c)
      PROVE  AttemptsInv'
  <2>1. SameAttempts
    BY <1>9 DEF ExpireChallenge, TypeOK, ChallengeRow, SameAttempts
  <2>2. QED
    BY <1>1, <1>3, <1>9, <2>1 DEF ExpireChallenge
<1>10. CASE Recovery \/ Operator \/ UNCHANGED vars
  BY <1>1, <1>2, <1>3, <1>10 DEF Recovery, ResetRevokes, ResetPassword, ResetFails,
     Operator, OperatorChanges
<1>11. QED
  BY <1>4, <1>5, <1>6, <1>7, <1>8, <1>9, <1>10 DEF Next

\* Checking and counting a guess are separate statements, so the maximum is
\* overshot, but by less than one guess for each request in flight.
THEOREM GuessesBounded == Spec => []AttemptsBounded
<1>1. Init => AttemptsInv
  BY DEF Init, AttemptsInv
<1>2. TypeOK /\ AttemptsInv => AttemptsBounded
  <2> SUFFICES ASSUME TypeOK, AttemptsInv, NEW c \in Challenges
               PROVE  challenges[c].attempts <= MaxAttempts - 1 + Cardinality(Requests)
    BY DEF AttemptsBounded
  <2>1. challenges[c].attempts \in Nat
    BY DEF TypeOK, ChallengeRow
  <2>2. QED
    BY <2>1, UncountedFinite DEF AttemptsInv
<1>3. QED
  BY <1>1, <1>2, AttemptsStep, TypeCorrect, PTL DEF Spec

-----------------------------------------------------------------------------
(* SignIn implements SignInPromise: a step of a handler is one or none     *)

\* A session row that was never issued was earned with nothing.
BlankRows == \A s \in Sessions : sessions[s].state = "absent" => sessions[s].chal = None

PromiseInv == TypeOK /\ ChallengeInv /\ BlankRows

SameStates == \A c \in Challenges : challenges'[c].state = challenges[c].state
SameSessions == \A s \in Sessions : /\ sessions'[s].chal = sessions[s].chal
                                    /\ sessions'[s].state = sessions[s].state

\* A step that changes neither is no step of the promise.
LEMMA Stutters ==
  ASSUME SameStates, SameSessions
  PROVE  UNCHANGED Promise!promiseVars
<1>1. \A c \in Challenges : Redeemed(c)' <=> Redeemed(c)
  BY DEF SameSessions, Redeemed
<1>2. QED
  BY <1>1 DEF Promise!promiseVars, SameStates, SameSessions

\* StartChallenge opens.
LEMMA Opens ==
  ASSUME PromiseInv, NEW r \in Requests, NEW c \in Challenges, StartChallenge(r, c)
  PROVE  Promise!Open(c)
<1>1. /\ challenges[c].state = "absent" /\ challenges'[c].state = "open"
      /\ \A d \in Challenges \ {c} : challenges'[d] = challenges[d]
      /\ UNCHANGED sessions
  BY DEF PromiseInv, TypeOK, StartChallenge
<1>2. \A d \in Challenges : Redeemed(d)' <=> Redeemed(d)
  BY <1>1 DEF Redeemed
<1>3. QED
  BY <1>1, <1>2 DEF Promise!Open

\* VerifyConsume spends.
LEMMA Spends ==
  ASSUME PromiseInv, NEW r \in Requests, VerifyConsume(r)
  PROVE  \E c \in Challenges : Promise!Spend(c)
<1>1. PICK c \in Challenges : c = req[r].chal
  BY DEF PromiseInv, ChallengeInv, RequestShape, TypeOK, RequestState, VerifyConsume
<1>2. /\ challenges[c].state = "open" /\ challenges'[c].state = "consumed"
      /\ \A d \in Challenges \ {c} : challenges'[d] = challenges[d]
      /\ UNCHANGED sessions
  BY <1>1 DEF PromiseInv, TypeOK, VerifyConsume, ChallengeRow
<1>3. /\ \A d \in Challenges : Redeemed(d)' <=> Redeemed(d)
      /\ ~Redeemed(c)
  <2>1. \A s \in Sessions : sessions[s].chal = c /\ c # None => challenges[c].state = "consumed"
    BY DEF PromiseInv, ChallengeInv, OneSessionPerChallenge
  <2>2. ~Redeemed(c)
    BY <1>2, <2>1 DEF Redeemed
  <2>3. \A d \in Challenges : Redeemed(d)' <=> Redeemed(d)
    BY <1>2 DEF Redeemed
  <2>4. QED
    BY <2>2, <2>3
<1> DEFINE stage(d) == IF challenges[d].state # "consumed" THEN challenges[d].state
                       ELSE IF Redeemed(d) THEN "redeemed" ELSE "spent"
<1>4. /\ stage(c) = "open"
      /\ \A d \in Challenges : stage(d)' = IF d = c THEN "spent" ELSE stage(d)
  BY <1>2, <1>3
<1> HIDE DEF stage
<1>5. [d \in Challenges |-> stage(d)]' = [[d \in Challenges |-> stage(d)] EXCEPT ![c] = "spent"]
  BY <1>4
<1>6. QED
  BY <1>1, <1>2, <1>4, <1>5 DEF Promise!Spend, stage

\* IssueSession, seen from the promise.
Issued(s, c) == /\ sessions[s].state = "absent"
                /\ sessions'[s].state = "live" /\ sessions'[s].chal = c
                /\ \A u \in Sessions \ {s} : sessions'[u] = sessions[u]
                /\ \A d \in Challenges : Redeemed(d)' <=> Redeemed(d) \/ d = c

LEMMA Issues ==
  ASSUME PromiseInv, NEW s \in Sessions, NEW mfa, NEW c, NEW k, NEW p,
         IssueSession(s, mfa, c, k, p)
  PROVE  Issued(s, c) /\ Promise!Issue(s, c)
<1>1. /\ sessions[s].state = "absent" /\ sessions[s].chal = None
      /\ sessions'[s].state = "live" /\ sessions'[s].chal = c
      /\ \A u \in Sessions \ {s} : sessions'[u] = sessions[u]
  BY DEF PromiseInv, TypeOK, BlankRows, IssueSession
<1>2. Promise!Issue(s, c)
  BY <1>1 DEF Promise!Issue
<1>3. \A d \in Challenges : Redeemed(d)' <=> Redeemed(d) \/ d = c
  BY <1>1 DEF Redeemed
<1>4. QED
  BY <1>1, <1>2, <1>3 DEF Issued

\* CompleteLogin admits, or redeems the challenge that was spent.
LEMMA Completes ==
  ASSUME PromiseInv, NEW r \in Requests, NEW s \in Sessions, CompleteLogin(r, s)
  PROVE  \/ Promise!Admit(s)
         \/ \E c \in Challenges : Promise!Redeem(c, s)
<1>0. PICK c \in Challenges \cup {None} : c = req[r].chal
  BY DEF PromiseInv, TypeOK, RequestState
<1>1. Issued(s, c) /\ Promise!Issue(s, c)
  <2>1. IssueSession(s, c # None, c, req[r].code, req[r].password)
    BY <1>0 DEF CompleteLogin, IssueSession
  <2>2. QED
    BY <2>1, Issues
<1>2. UNCHANGED challenges
  BY DEF CompleteLogin
<1>3. CASE c = None
  <2>1. \A d \in Challenges : Redeemed(d)' <=> Redeemed(d)
    BY <1>1, <1>3 DEF Issued
  <2>2. QED
    BY <1>1, <1>2, <1>3, <2>1 DEF Promise!Admit
<1>4. CASE c \in Challenges
  <2>1. c # None
    BY <1>4
  <2>2. challenges[c].state = "consumed" /\ ~Redeemed(c)
    BY <1>0, <2>1 DEF PromiseInv, ChallengeInv, Claims, CompleteLogin, Redeemed
  <2>3. QED
    BY <1>1, <1>2, <1>4, <2>2 DEF Issued, Promise!Redeem
<1>5. QED
  BY <1>0, <1>3, <1>4

\* Enrolment in the middle of a sign-in spends and redeems.
LEMMA Enrols ==
  ASSUME PromiseInv, NEW r \in Requests, NEW s \in Sessions, NEW fresh,
         EnrolCommitAndIssue(r, fresh, s)
  PROVE  \E c \in Challenges : Promise!SpendAndRedeem(c, s)
<1>1. PICK c \in Challenges : c = req[r].chal
  BY DEF PromiseInv, TypeOK, RequestState, EnrolCommitAndIssue
<1>2. /\ challenges[c].state = "open" /\ challenges'[c].state = "consumed"
      /\ \A d \in Challenges \ {c} : challenges'[d] = challenges[d]
  BY <1>1 DEF PromiseInv, TypeOK, ChallengeRow, EnrolCommitAndIssue
<1>3. Issued(s, c) /\ Promise!Issue(s, c)
  <2>1. IssueSession(s, TRUE, c, None, req[r].password)
    BY <1>1 DEF EnrolCommitAndIssue, IssueSession
  <2>2. QED
    BY <2>1, Issues
<1>4. QED
  BY <1>1, <1>2, <1>3 DEF Issued, Promise!SpendAndRedeem

\* The sessions that a step takes away were live.
LEMMA Revokes ==
  ASSUME PromiseInv, UNCHANGED challenges, NEW gone \in SUBSET Sessions,
         \A s \in gone : sessions[s].state = "live",
         sessions' = [s \in Sessions |->
             IF s \in gone THEN [sessions[s] EXCEPT !.state = "revoked"] ELSE sessions[s]]
  PROVE  Promise!Revoke(gone)
<1>1. \A s \in Sessions :
          /\ sessions'[s].chal = sessions[s].chal
          /\ sessions'[s].state = IF s \in gone THEN "revoked" ELSE sessions[s].state
  BY DEF PromiseInv, TypeOK, SessionRow
<1>2. \A c \in Challenges : Redeemed(c)' <=> Redeemed(c)
  BY <1>1 DEF Redeemed
<1>3. QED
  BY <1>1, <1>2 DEF Promise!Revoke

LEMMA RevokesAll ==
  ASSUME PromiseInv, UNCHANGED challenges, NEW those, RevokeSessions(those)
  PROVE  \E gone \in SUBSET Sessions : Promise!Revoke(gone)
<1>1. PICK gone \in SUBSET Sessions :
              gone = {s \in Sessions : sessions[s].state = "live" /\ s \in those}
  OBVIOUS
<1>2. sessions' = [s \in Sessions |->
          IF s \in gone THEN [sessions[s] EXCEPT !.state = "revoked"] ELSE sessions[s]]
  BY <1>1 DEF RevokeSessions
<1>3. \A s \in gone : sessions[s].state = "live"
  BY <1>1
<1>4. Promise!Revoke(gone)
  BY <1>2, <1>3, Revokes
<1>5. QED
  BY <1>4

\* A session that is already revoked may be signed out again: nothing happens.
LEMMA SignsOut ==
  ASSUME PromiseInv, NEW r \in Requests, NEW s \in Sessions, SignOut(r, s)
  PROVE  \/ \E gone \in SUBSET Sessions : Promise!Revoke(gone)
         \/ UNCHANGED Promise!promiseVars
<1>1. sessions[s].state \in {"live", "revoked"} /\ UNCHANGED challenges
  BY DEF PromiseInv, TypeOK, SessionRow, SignOut
<1>2. CASE sessions[s].state = "live"
  <2>1. sessions' = [u \in Sessions |->
            IF u \in {s} THEN [sessions[u] EXCEPT !.state = "revoked"] ELSE sessions[u]]
    BY DEF PromiseInv, TypeOK, SignOut
  <2>2. Promise!Revoke({s})
    BY <1>1, <1>2, <2>1, Revokes
  <2>3. QED
    BY <2>2
<1>3. CASE sessions[s].state = "revoked"
  <2>1. SameStates /\ SameSessions
    BY <1>1, <1>3 DEF SameStates, SameSessions, PromiseInv, TypeOK, SessionRow, SignOut
  <2>2. QED
    BY <2>1, Stutters
<1>4. QED
  BY <1>1, <1>2, <1>3

LEMMA PromiseStep == PromiseInv /\ [Next]_vars => [Promise!PromiseNext]_(Promise!promiseVars)
<1> SUFFICES ASSUME PromiseInv, [Next]_vars
             PROVE  Promise!PromiseNext \/ UNCHANGED Promise!promiseVars
  OBVIOUS
<1>1. ASSUME SameStates, UNCHANGED sessions
      PROVE  UNCHANGED Promise!promiseVars
  BY <1>1, Stutters DEF SameSessions
<1>2. UNCHANGED challenges => SameStates
  BY DEF SameStates
<1>3. ASSUME NEW r \in Requests, Login(r)
      PROVE  Promise!PromiseNext \/ UNCHANGED Promise!promiseVars
  BY <1>1, <1>2, <1>3, Opens, Completes DEF Login, LoginVerify, LoginDecide, Promise!PromiseNext
<1>4. ASSUME NEW r \in Requests, VerifyMFA(r)
      PROVE  Promise!PromiseNext \/ UNCHANGED Promise!promiseVars
  <2>1. VerifyCount(r) => SameStates
    BY DEF VerifyCount, SameStates, PromiseInv, TypeOK, ChallengeRow
  <2>2. QED
    BY <1>1, <1>2, <1>4, <2>1, Spends DEF VerifyMFA, VerifyLoad, VerifyCount, VerifyTotp,
       VerifyRecoveryCode, Promise!PromiseNext
<1>5. ASSUME NEW r \in Requests, SelfService(r)
      PROVE  Promise!PromiseNext \/ UNCHANGED Promise!promiseVars
  <2>1. CASE RevokeOtherSessions(r) \/ ChangePassword(r)
    BY <2>1, RevokesAll DEF RevokeOtherSessions, ChangePassword, Promise!PromiseNext
  <2>2. ASSUME NEW s \in Sessions, SignOut(r, s)
        PROVE  Promise!PromiseNext \/ UNCHANGED Promise!promiseVars
    BY <2>2, SignsOut DEF Promise!PromiseNext
  <2>3. QED
    BY <1>1, <1>2, <1>5, <2>1, <2>2 DEF SelfService, Authenticate, ConfirmPassword,
       RegenerateRecoveryCodes, DeleteMFA
<1>6. ASSUME NEW r \in Requests, Enrolment(r)
      PROVE  Promise!PromiseNext \/ UNCHANGED Promise!promiseVars
  <2>1. ASSUME NEW m \in Methods, StartEnrolment(r, m)
        PROVE  SameStates /\ UNCHANGED sessions
    BY <2>1 DEF StartEnrolment, SameStates, PromiseInv, TypeOK, ChallengeRow
  <2>2. QED
    BY <1>1, <1>2, <1>6, <2>1, Enrols DEF Enrolment, EnrolSubject, EnrolProve, EnrolCommit,
       Promise!PromiseNext
<1>7. CASE Recovery
  BY <1>1, <1>2, <1>7, RevokesAll DEF Recovery, ResetRevokes, ResetPassword, ResetFails,
     Promise!PromiseNext
<1>8. ASSUME NEW c \in Challenges, ExpireChallenge(c)
      PROVE  UNCHANGED Promise!promiseVars
  <2>1. SameStates
    BY <1>8 DEF ExpireChallenge, SameStates, PromiseInv, TypeOK, ChallengeRow
  <2>2. QED
    BY <1>1, <1>8, <2>1 DEF ExpireChallenge
<1>9. ASSUME \/ \E r \in Requests : Abandon(r)
             \/ Operator
             \/ UNCHANGED vars
      PROVE  UNCHANGED Promise!promiseVars
  BY <1>1, <1>2, <1>9 DEF Abandon, Operator, OperatorChanges
<1>10. QED
  BY <1>3, <1>4, <1>5, <1>6, <1>7, <1>8, <1>9 DEF Next

LEMMA BlankStep == PromiseInv /\ [Next]_vars => BlankRows'
<1> SUFFICES ASSUME PromiseInv, [Next]_vars
             PROVE  BlankRows'
  OBVIOUS
<1>1. ASSUME \A s \in Sessions : sessions'[s].state = "absent" => sessions'[s] = sessions[s]
      PROVE  BlankRows'
  BY <1>1 DEF PromiseInv, BlankRows
<1>2. ASSUME UNCHANGED sessions
      PROVE  BlankRows'
  BY <1>1, <1>2
<1>3. ASSUME NEW s \in Sessions, NEW mfa, NEW c, NEW k, NEW p, IssueSession(s, mfa, c, k, p)
      PROVE  BlankRows'
  BY <1>1, <1>3 DEF PromiseInv, TypeOK, IssueSession
<1>4. ASSUME NEW except, RevokeSessions(except)
      PROVE  BlankRows'
  <2>1. \A s \in Sessions : sessions'[s].state = "absent" => sessions'[s] = sessions[s]
    BY <1>4 DEF PromiseInv, TypeOK, SessionRow, RevokeSessions
  <2>2. QED
    BY <1>1, <2>1
<1>5. ASSUME NEW r \in Requests, Login(r) \/ VerifyMFA(r) \/ Abandon(r)
      PROVE  BlankRows'
  BY <1>2, <1>3, <1>5 DEF Login, LoginVerify, LoginDecide, StartChallenge, CompleteLogin,
     VerifyMFA, VerifyLoad, VerifyCount, VerifyTotp, VerifyRecoveryCode, VerifyConsume, Abandon
<1>6. ASSUME NEW r \in Requests, SelfService(r)
      PROVE  BlankRows'
  <2>1. ASSUME NEW s \in Sessions, SignOut(r, s)
        PROVE  BlankRows'
    <3>1. \A u \in Sessions : sessions'[u].state = "absent" => sessions'[u] = sessions[u]
      BY <2>1 DEF SignOut, PromiseInv, TypeOK, SessionRow
    <3>2. QED
      BY <1>1, <3>1
  <2>2. QED
    BY <1>2, <1>4, <1>6, <2>1 DEF SelfService, Authenticate, RevokeOtherSessions,
       ConfirmPassword, ChangePassword, RegenerateRecoveryCodes, DeleteMFA
<1>7. ASSUME NEW r \in Requests, Enrolment(r)
      PROVE  BlankRows'
  BY <1>2, <1>3, <1>7 DEF Enrolment, EnrolSubject, StartEnrolment, EnrolProve, EnrolCommit,
     EnrolCommitAndIssue
<1>8. CASE Recovery
  BY <1>2, <1>4, <1>8 DEF Recovery, ResetRevokes, ResetPassword, ResetFails
<1>9. CASE Operator \/ (\E c \in Challenges : ExpireChallenge(c)) \/ UNCHANGED vars
  BY <1>2, <1>9 DEF Operator, OperatorChanges, ExpireChallenge
<1>10. QED
  BY <1>5, <1>6, <1>7, <1>8, <1>9 DEF Next

LEMMA InitKeeps == Init => Promise!PromiseInit /\ BlankRows
<1> SUFFICES ASSUME Init
             PROVE  Promise!PromiseInit /\ BlankRows
  OBVIOUS
<1>1. \A c \in Challenges : challenges[c].state = "absent"
  BY DEF Init
<1>2. \A s \in Sessions : sessions[s].state = "absent" /\ sessions[s].chal = None
  BY DEF Init
<1>3. QED
  BY <1>1, <1>2 DEF Promise!PromiseInit, BlankRows

LEMMA PromiseInvariant == Spec => []PromiseInv
<1>1. Init => BlankRows
  BY InitKeeps
<1>2. TypeOK /\ ChallengeInv /\ BlankRows /\ [Next]_vars => BlankRows'
  BY BlankStep DEF PromiseInv
<1>3. QED
  BY <1>1, <1>2, TypeCorrect, ChallengeInvariant, PTL DEF Spec, PromiseInv

\* What requests read, spend and give up on the way never shows: seen from
\* outside, a challenge is opened, spent once and pays for one session, and no
\* session changes what it was earned with or comes back once revoked.
THEOREM SignInKeepsPromise == Spec => KeepsSignInPromise
<1>1. Init => Promise!PromiseInit
  BY InitKeeps
<1>2. PromiseInv /\ [Next]_vars => [Promise!PromiseNext]_(Promise!promiseVars)
  BY PromiseStep
<1>3. QED
  BY <1>1, <1>2, PromiseInvariant, PTL DEF Spec, KeepsSignInPromise, Promise!PromiseSpec

\* The session of the challenge that verified a factor is written with it.
LEMMA MidLoginStep ==
  PromiseInv /\ EnrolledMidLoginHasSession /\ [Next]_vars => EnrolledMidLoginHasSession'
<1> SUFFICES ASSUME PromiseInv, EnrolledMidLoginHasSession, [Next]_vars
             PROVE  EnrolledMidLoginHasSession'
  OBVIOUS
<1> DEFINE Kept == \A s \in Sessions : sessions[s].state # "absent" =>
                      /\ sessions'[s].state # "absent"
                      /\ sessions'[s].chal = sessions[s].chal
           SameBy == \A m \in Methods : methods'[m].by \in {methods[m].by, None}
<1>1. ASSUME Kept, SameBy
      PROVE  EnrolledMidLoginHasSession'
  <2> SUFFICES ASSUME NEW m \in Methods, methods'[m].by # None
               PROVE  \E s \in Sessions : /\ sessions'[s].state # "absent"
                                          /\ sessions'[s].chal = methods'[m].by
    BY DEF EnrolledMidLoginHasSession
  <2>1. methods'[m].by = methods[m].by
    BY <1>1
  <2>2. PICK s \in Sessions : sessions[s].state # "absent" /\ sessions[s].chal = methods[m].by
    BY <2>1 DEF EnrolledMidLoginHasSession
  <2>3. QED
    BY <1>1, <2>1, <2>2
<1>2. UNCHANGED methods => SameBy
  OBVIOUS
<1>3. UNCHANGED sessions => Kept
  OBVIOUS
<1>4. ASSUME NEW s \in Sessions, NEW mfa, NEW c, NEW k, NEW p, IssueSession(s, mfa, c, k, p)
      PROVE  Kept
  BY <1>4 DEF IssueSession, PromiseInv, TypeOK
<1>5. ASSUME NEW except, RevokeSessions(except)
      PROVE  Kept
  BY <1>5 DEF RevokeSessions, PromiseInv, TypeOK, SessionRow
<1>6. ASSUME NEW r \in Requests, VerifyMFAMethod(r)
      PROVE  \A m \in Methods : methods'[m].by \in {methods[m].by, req[r].chal}
  BY <1>6 DEF VerifyMFAMethod, PromiseInv, TypeOK, MethodRow
<1> HIDE DEF Kept, SameBy
<1>7. ASSUME NEW r \in Requests, Login(r) \/ VerifyMFA(r) \/ Abandon(r)
      PROVE  EnrolledMidLoginHasSession'
  <2>1. Kept
    BY <1>3, <1>4, <1>7 DEF Login, LoginVerify, LoginDecide, StartChallenge, CompleteLogin,
       VerifyMFA, VerifyLoad, VerifyCount, VerifyTotp, VerifyRecoveryCode, VerifyConsume, Abandon
  <2>2. UNCHANGED methods
    BY <1>7 DEF Login, LoginVerify, LoginDecide, StartChallenge, CompleteLogin,
       VerifyMFA, VerifyLoad, VerifyCount, VerifyTotp, VerifyRecoveryCode, VerifyConsume, Abandon
  <2>3. QED
    BY <1>1, <1>2, <2>1, <2>2
<1>8. ASSUME NEW r \in Requests, SelfService(r)
      PROVE  EnrolledMidLoginHasSession'
  <2>1. ASSUME NEW s \in Sessions, SignOut(r, s)
        PROVE  Kept
    BY <2>1 DEF SignOut, PromiseInv, TypeOK, SessionRow, Kept
  <2>2. ASSUME NEW m \in Methods, DeleteMFA(r, m)
        PROVE  SameBy
    BY <2>2 DEF DeleteMFA, PromiseInv, TypeOK, MethodRow, SameBy
  <2>3. QED
    BY <1>1, <1>2, <1>3, <1>5, <1>8, <2>1, <2>2 DEF SelfService, Authenticate, SignOut,
       RevokeOtherSessions, ConfirmPassword, ChangePassword, RegenerateRecoveryCodes, DeleteMFA
<1>9. ASSUME NEW r \in Requests, NEW fresh, EnrolCommit(r, fresh)
      PROVE  EnrolledMidLoginHasSession'
  <2>1. SameBy
    BY <1>6, <1>9 DEF EnrolCommit, SameBy
  <2>2. QED
    BY <1>1, <1>3, <1>9, <2>1 DEF EnrolCommit
<1>10. ASSUME NEW r \in Requests, NEW fresh, NEW s \in Sessions,
              EnrolCommitAndIssue(r, fresh, s)
       PROVE  EnrolledMidLoginHasSession'
  <2>1. /\ sessions'[s].state = "live" /\ sessions'[s].chal = req[r].chal
        /\ \A u \in Sessions : sessions[u].state # "absent" => sessions'[u] = sessions[u]
    BY <1>10 DEF EnrolCommitAndIssue, IssueSession, PromiseInv, TypeOK
  <2>2. \A m \in Methods : methods'[m].by \in {methods[m].by, req[r].chal}
    BY <1>6, <1>10 DEF EnrolCommitAndIssue
  <2>3. QED
    BY <2>1, <2>2 DEF EnrolledMidLoginHasSession
<1>11. ASSUME NEW r \in Requests, NEW m \in Methods, StartEnrolment(r, m)
       PROVE  SameBy
  BY <1>11 DEF StartEnrolment, PromiseInv, TypeOK, MethodRow, SameBy
<1>12. ASSUME NEW r \in Requests, Enrolment(r)
       PROVE  EnrolledMidLoginHasSession'
  BY <1>1, <1>2, <1>3, <1>9, <1>10, <1>11, <1>12 DEF Enrolment, EnrolSubject, StartEnrolment,
     EnrolProve
<1>13. CASE Recovery
  BY <1>1, <1>2, <1>3, <1>5, <1>13 DEF Recovery, ResetRevokes, ResetPassword, ResetFails
<1>14. CASE Operator \/ (\E c \in Challenges : ExpireChallenge(c)) \/ UNCHANGED vars
  BY <1>1, <1>2, <1>3, <1>14 DEF Operator, OperatorChanges, ExpireChallenge
<1>15. QED
  BY <1>7, <1>8, <1>12, <1>13, <1>14 DEF Next

\* Whoever enrols in the middle of a sign-in is never left enrolled and signed
\* out, whatever else happens to the challenge, the session or the method.
THEOREM EnrolmentSignsIn == Spec => []EnrolledMidLoginHasSession
<1>1. Init => EnrolledMidLoginHasSession
  BY DEF Init, EnrolledMidLoginHasSession
<1>2. QED
  BY <1>1, PromiseInvariant, MidLoginStep, PTL DEF Spec
=============================================================================
