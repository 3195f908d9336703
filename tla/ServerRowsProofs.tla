--------------------------- MODULE ServerRowsProofs ---------------------------
(***************************************************************************)
(* What TLAPS proves about ServerRows, for any number of requests and rows *)
(* and any limits: types, and sign-in through a provider.                  *)
(***************************************************************************)
EXTENDS ServerRows, TLAPS

-----------------------------------------------------------------------------
(* What the steps write into a request leaves it one.                      *)

ReadSteps == {"idle", "missed", "fetched", "served", "committed"}

LEMMA SettingsRequests ==
  ASSUME NEW q \in Settings!Request
  PROVE  /\ \A step \in ReadSteps : [q EXCEPT !.at = step] \in Settings!Request
         /\ \A step \in ReadSteps, v \in Settings!Versions :
               [q EXCEPT !.at = step, !.value = v] \in Settings!Request
         /\ \A t \in 0..SettingsTime, v \in Settings!Versions :
               [q EXCEPT !.begun = t, !.floor = v] \in Settings!Request
         /\ \A step \in ReadSteps, v \in Settings!Versions, t \in 0..SettingsTime :
               [q EXCEPT !.at = step, !.value = v, !.took = t] \in Settings!Request
         /\ \A step \in ReadSteps, v \in Settings!Versions, b \in BOOLEAN :
               [q EXCEPT !.at = step, !.value = v, !.failed = b] \in Settings!Request
  BY DEF Settings!Request, ReadSteps

LEMMA ReadStepsKnown == {"missed", "fetched", "served", "committed"} \subseteq ReadSteps
  BY DEF ReadSteps

LEMMA SessionRequests ==
  ASSUME NEW q \in Sess!Request
  PROVE  /\ \A t \in Sess!Time, b \in BOOLEAN, e \in Sess!Horizon, a \in Sess!Time :
               [q EXCEPT !.at = "read", !.begun = t, !.live = b, !.expires = e, !.activity = a]
                  \in Sess!Request
         /\ \A t \in Sess!Time, b \in BOOLEAN :
               [q EXCEPT !.at = "touching", !.stamp = t, !.renew = b] \in Sess!Request
  BY DEF Sess!Request

LEMMA FactorRequests ==
  ASSUME NEW q \in Mfa!Request, NEW step \in Mfa!Steps
  PROVE  /\ \A b \in BOOLEAN : [q EXCEPT !.at = step, !.primary = b] \in Mfa!Request
         /\ \A mark \in {"none", "verified", "revoked"} :
               [q EXCEPT !.at = step, !.mark = mark] \in Mfa!Request
         /\ \A doomed \in SUBSET Mfa!Sets :
               [q EXCEPT !.at = step, !.doomed = doomed] \in Mfa!Request
  BY DEF Mfa!Request

LEMMA FactorSteps == {"proven", "marking", "marked", "clearing", "revoking", "removed"} \subseteq Mfa!Steps
  BY DEF Mfa!Steps

\* The callbacks of SsoLogin, with the type its TypeOK gives them.
CallbackSteps == {"free", "load", "identify", "find", "check", "issue"} \cup Sso!InTx

CallbackState ==
    [at : CallbackSteps, state : Sso!Starts \cup {0}, jit : BOOLEAN,
     email : Addresses \cup {None}, verified : BOOLEAN, subject : Addresses \cup {None},
     made : BOOLEAN, links : BOOLEAN]

LEMMA CallbackRequests ==
  ASSUME NEW q \in CallbackState, NEW step \in CallbackSteps
  PROVE  /\ [q EXCEPT !.at = step] \in CallbackState
         /\ [q EXCEPT !.at = step, !.made = FALSE, !.links = FALSE] \in CallbackState
         /\ \A b \in BOOLEAN : /\ [q EXCEPT !.at = step, !.jit = b] \in CallbackState
                               /\ [q EXCEPT !.at = step, !.links = b] \in CallbackState
         /\ \A a \in Addresses \cup {None} : [q EXCEPT !.at = step, !.subject = a] \in CallbackState
         /\ \A a \in Addresses \cup {None}, b \in BOOLEAN :
               /\ [q EXCEPT !.at = step, !.email = a, !.verified = b] \in CallbackState
               /\ [q EXCEPT !.at = step, !.subject = a, !.made = b] \in CallbackState
  BY DEF CallbackState

LEMMA CallbackStepsKnown ==
  /\ {"load", "identify", "find", "check", "issue"} \subseteq CallbackSteps
  /\ {"match", "provision", "linking", "commit"} \subseteq CallbackSteps
  BY DEF CallbackSteps, Sso!InTx

USE RowsBounds, StoreBounds DEF Settings!Bounds, Sess!Bounds, Mfa!Bounds, Sso!Bounds

-----------------------------------------------------------------------------
(* Type correctness                                                        *)

USE DEF Settings!TypeOK, Settings!StoreTypeOK

LEMMA SettingsType == Settings!TypeOK /\ Settings!Next => Settings!TypeOK'
<1> SUFFICES ASSUME Settings!TypeOK, Settings!Next
             PROVE  Settings!TypeOK'
  OBVIOUS
<1> DEFINE Entry == [valid : BOOLEAN, value : Settings!Versions, at : 0..SettingsTime]
<1>0. /\ now \in 0..SettingsTime /\ table \in Settings!Versions /\ 0 \in Settings!Versions
      /\ \A i \in Instances : cache[i].value \in Settings!Versions
      /\ \A i \in Instances : promised[i] \in Settings!Versions
      /\ \A r \in Requests : req[r] \in Settings!Request
  BY DEF Settings!Versions
<1>f. \A r \in Requests : req[r].inst \in Instances /\ req[r].value \in Settings!Versions
  BY <1>0 DEF Settings!Request
<1>1. ASSUME NEW r \in Requests, NEW q \in Settings!Request, req' = [req EXCEPT ![r] = q]
      PROVE  req' \in [Requests -> Settings!Request]
  BY <1>1
<1>2. ASSUME NEW i \in Instances
      PROVE  Settings!Idle(i) \in Settings!Request
  BY <1>0 DEF Settings!Idle, Settings!Defaults, Settings!Request
<1>3. ASSUME Settings!CommitSettings
      PROVE  table' \in Settings!Versions /\ replaced' \in [Settings!Versions -> 0..SettingsTime]
  BY <1>3 DEF Settings!CommitSettings, Settings!Versions
<1>4. ASSUME NEW i \in Instances, NEW v \in Settings!Versions,
             Settings!Fill(i, v) \/ Settings!Invalidate(i)
      PROVE  cache' \in [Instances -> Entry]
  <2> DEFINE entry == [valid |-> TRUE, value |-> v, at |-> now]
  <2>1. entry \in Entry /\ Settings!Empty \in Entry
    BY <1>0 DEF Settings!Empty, Settings!Defaults
  <2>2. cache' = [cache EXCEPT ![i] = entry] \/ cache' = [cache EXCEPT ![i] = Settings!Empty]
    BY <1>4 DEF Settings!Fill, Settings!Invalidate
  <2> HIDE DEF entry
  <2>3. QED
    BY <2>1, <2>2
<1>5. ASSUME NEW r \in Requests
      PROVE  Settings!Begin(r) \in Settings!Request
  BY <1>0, <1>f, SettingsRequests DEF Settings!Begin
<1>6. ASSUME NEW r \in Requests, Settings!ReadCached(r)
      PROVE  Settings!TypeOK'
  <2>1. [Settings!Begin(r) EXCEPT !.at = "served", !.value = cache[req[r].inst].value]
            \in Settings!Request
    BY <1>0, <1>f, <1>5, SettingsRequests, ReadStepsKnown
  <2>2. QED
    BY <1>1, <1>6, <2>1 DEF Settings!ReadCached
<1>7. ASSUME NEW r \in Requests, Settings!ReadMisses(r)
      PROVE  Settings!TypeOK'
  <2>1. [Settings!Begin(r) EXCEPT !.at = "missed"] \in Settings!Request
    BY <1>5, SettingsRequests, ReadStepsKnown
  <2>2. QED
    BY <1>1, <1>7, <2>1 DEF Settings!ReadMisses
<1>8. ASSUME NEW r \in Requests, Settings!Query(r) \/ Settings!QueryFails(r)
      PROVE  Settings!TypeOK'
  <2>1. /\ [req[r] EXCEPT !.at = "fetched", !.value = table, !.took = now] \in Settings!Request
        /\ [req[r] EXCEPT !.at = "served", !.value = 0, !.failed = TRUE] \in Settings!Request
    BY <1>0, SettingsRequests, ReadStepsKnown
  <2>2. \/ req' = [req EXCEPT ![r] = [req[r] EXCEPT !.at = "fetched", !.value = table, !.took = now]]
        \/ req' = [req EXCEPT ![r] = [req[r] EXCEPT !.at = "served", !.value = 0, !.failed = TRUE]]
    BY <1>8 DEF Settings!Query, Settings!QueryFails, Settings!Defaults
  <2>3. req' \in [Requests -> Settings!Request]
    BY <1>1, <2>1, <2>2
  <2>4. QED
    BY <1>8, <2>3 DEF Settings!Query, Settings!QueryFails
<1>9. ASSUME NEW r \in Requests, Settings!FillCache(r)
      PROVE  Settings!TypeOK'
  <2>1. cache' \in [Instances -> Entry]
    BY <1>f, <1>4, <1>9 DEF Settings!FillCache
  <2>2. [req[r] EXCEPT !.at = "served"] \in Settings!Request
    BY <1>0, SettingsRequests, ReadStepsKnown
  <2>3. req' \in [Requests -> Settings!Request]
    BY <1>1, <1>9, <2>2 DEF Settings!FillCache
  <2>4. QED
    BY <1>9, <2>1, <2>3 DEF Settings!FillCache
<1>10. ASSUME NEW r \in Requests, Settings!Finish(r)
       PROVE  Settings!TypeOK'
  <2>1. req' \in [Requests -> Settings!Request]
    BY <1>f, <1>1, <1>2, <1>10 DEF Settings!Finish
  <2>2. QED
    BY <1>10, <2>1 DEF Settings!Finish
<1>11. ASSUME NEW r \in Requests, Settings!SetSetting(r)
       PROVE  Settings!TypeOK'
  <2>1. [req[r] EXCEPT !.at = "committed"] \in Settings!Request
    BY <1>0, SettingsRequests, ReadStepsKnown
  <2>2. req' \in [Requests -> Settings!Request]
    BY <1>1, <1>11, <2>1 DEF Settings!SetSetting
  <2>3. QED
    BY <1>3, <1>11, <2>2 DEF Settings!SetSetting
<1>12. ASSUME NEW r \in Requests, Settings!InvalidateCache(r)
       PROVE  Settings!TypeOK'
  <2>1. req' \in [Requests -> Settings!Request]
    BY <1>f, <1>1, <1>2, <1>12 DEF Settings!InvalidateCache
  <2>2. cache' \in [Instances -> Entry]
    BY <1>0, <1>f, <1>4, <1>12 DEF Settings!InvalidateCache
  <2>3. QED
    BY <1>0, <1>12, <2>1, <2>2 DEF Settings!InvalidateCache
<1>13. CASE Settings!SetElsewhere
  BY <1>3, <1>13 DEF Settings!SetElsewhere
<1>14. ASSUME NEW i \in Instances, Settings!Restart(i)
       PROVE  Settings!TypeOK'
  <2>1. cache' \in [Instances -> Entry]
    BY <1>0, <1>4, <1>14 DEF Settings!Restart
  <2>2. req' \in [Requests -> Settings!Request]
    BY <1>0, <1>2, <1>14 DEF Settings!Restart
  <2>3. QED
    BY <1>14, <2>1, <2>2 DEF Settings!Restart
<1>15. CASE Settings!Tick
  BY <1>15 DEF Settings!Tick, Settings!Advance
<1>16. QED
  BY <1>6, <1>7, <1>8, <1>9, <1>10, <1>11, <1>12, <1>13, <1>14, <1>15 DEF Settings!Next

USE DEF Sess!TypeOK, Sess!Time, Sess!Horizon

\* A request that is under way carries a session.
Carries == \A r \in Requests : req[r].at # "idle" => req[r].sess \in Sessions

LEMMA SessionsType == Sess!TypeOK /\ Carries /\ Sess!Next => Sess!TypeOK'
<1> SUFFICES ASSUME Sess!TypeOK, Carries, Sess!Next
             PROVE  Sess!TypeOK'
  OBVIOUS
<1>0. /\ now \in Sess!Time /\ now + Absolute \in Sess!Horizon /\ 0 \in Sess!Time
      /\ \A s \in Sessions : rows[s] \in Sess!Row
      /\ \A r \in Requests : req[r] \in Sess!Request
  OBVIOUS
<1>1. ASSUME NEW r \in Requests, NEW q \in Sess!Request, req' = [req EXCEPT ![r] = q]
      PROVE  req' \in [Requests -> Sess!Request]
  BY <1>1
<1>2. ASSUME NEW s, NEW x \in Sess!Row, rows' = [rows EXCEPT ![s] = x]
      PROVE  rows' \in [Sessions -> Sess!Row]
  BY <1>2
<1>3. ASSUME NEW r \in Requests,
             NEW step \in {"idle", "sent", "read", "accepted", "touching", "ok", "refused"}
      PROVE  [req[r] EXCEPT !.at = step] \in Sess!Request
  BY <1>0 DEF Sess!Request
<1>4. ASSUME NEW r \in Requests,
             NEW step \in {"idle", "sent", "read", "accepted", "touching", "ok", "refused"},
             req' = [req EXCEPT ![r].at = step]
      PROVE  req' \in [Requests -> Sess!Request]
  BY <1>1, <1>3, <1>4
<1>5. Sess!Quiet \in Sess!Request /\ Sess!Empty \in [sess : Sessions \cup {None}, until : Sess!Horizon]
  BY <1>0 DEF Sess!Quiet, Sess!Request, Sess!Empty
<1>6. ASSUME NEW s \in Sessions, Sess!SignIn(s)
      PROVE  Sess!TypeOK'
  <2> DEFINE x == [state |-> "live", issued |-> now, expires |-> now + Absolute,
                   activity |-> now, used |-> now, missed |-> FALSE]
             y == [sess |-> s, until |-> now + Absolute]
  <2>1. x \in Sess!Row /\ y \in [sess : Sessions \cup {None}, until : Sess!Horizon]
    BY <1>0 DEF Sess!Row
  <2>2. rows' = [rows EXCEPT ![s] = x] /\ jar' = y /\ UNCHANGED <<now, req>>
    BY <1>6 DEF Sess!SignIn
  <2> HIDE DEF x, y
  <2>3. QED
    BY <1>2, <2>1, <2>2
<1>7. ASSUME NEW s \in Sessions, Sess!RevokeSession(s)
      PROVE  Sess!TypeOK'
  <2>1. [rows[s] EXCEPT !.state = "revoked"] \in Sess!Row
    BY <1>0 DEF Sess!Row
  <2>2. rows' \in [Sessions -> Sess!Row]
    BY <1>7, <2>1 DEF Sess!RevokeSession
  <2>3. QED
    BY <1>5, <1>7, <2>2 DEF Sess!RevokeSession
<1>8. ASSUME NEW r \in Requests, Sess!Send(r)
      PROVE  Sess!TypeOK'
  <2>1. [Sess!Quiet EXCEPT !.at = "sent", !.sess = jar.sess] \in Sess!Request
    BY <1>5 DEF Sess!Request
  <2>2. QED
    BY <1>1, <1>8, <2>1 DEF Sess!Send
<1>9. ASSUME NEW r \in Requests, Sess!Lookup(r)
      PROVE  Sess!TypeOK'
  <2>1. PICK b \in BOOLEAN : b = (rows[req[r].sess].state = "live")
    OBVIOUS
  <2>2. PICK e \in Sess!Horizon, a \in Sess!Time :
            e = rows[req[r].sess].expires /\ a = rows[req[r].sess].activity
    BY <1>0, <1>9 DEF Sess!Lookup, Carries, Sess!Row
  <2> DEFINE q == [req[r] EXCEPT !.at = "read", !.begun = now, !.live = b,
                                 !.expires = e, !.activity = a]
  <2>3. q \in Sess!Request
    BY <1>0, <2>2, SessionRequests
  <2>4. req' = [req EXCEPT ![r] = q] /\ UNCHANGED <<now, rows, jar>>
    BY <1>9, <2>1, <2>2 DEF Sess!Lookup
  <2> HIDE DEF q
  <2>5. QED
    BY <1>1, <2>3, <2>4
<1>10. ASSUME NEW r \in Requests,
              \/ Sess!LookupFails(r) \/ Sess!RefuseDead(r) \/ Sess!ResolveGrantsFails(r)
              \/ Sess!Answer(r) \/ Sess!AnswerUnauthorized(r)
       PROVE  Sess!TypeOK'
  BY <1>1, <1>4, <1>5, <1>10 DEF Sess!LookupFails, Sess!RefuseDead, Sess!ResolveGrantsFails,
     Sess!Answer, Sess!AnswerUnauthorized
<1>11. ASSUME NEW r \in Requests, Sess!Accept(r)
       PROVE  Sess!TypeOK'
  <2>1. PICK s \in Sessions : s = req[r].sess
    BY <1>11 DEF Sess!Accept, Carries
  <2>2. [rows[s] EXCEPT !.used = now] \in Sess!Row
    BY <1>0 DEF Sess!Row
  <2>3. rows' = [rows EXCEPT ![s] = [rows[s] EXCEPT !.used = now]]
    BY <1>11, <2>1 DEF Sess!Accept
  <2>4. rows' \in [Sessions -> Sess!Row]
    BY <1>2, <2>2, <2>3
  <2>5. QED
    BY <1>4, <1>11, <2>4 DEF Sess!Accept
<1>12. ASSUME NEW r \in Requests, Sess!DecideTouch(r)
       PROVE  Sess!TypeOK'
  <2>1. PICK b \in BOOLEAN : b = Sess!Renews(req[r])
    BY DEF Sess!Renews
  <2> DEFINE q == [req[r] EXCEPT !.at = "touching", !.stamp = now, !.renew = b]
  <2>2. q \in Sess!Request
    BY <1>0, SessionRequests
  <2>3. req' = [req EXCEPT ![r] = q] \/ req' = [req EXCEPT ![r].at = "ok"]
    BY <1>12, <2>1 DEF Sess!DecideTouch
  <2> HIDE DEF q
  <2>4. req' \in [Requests -> Sess!Request]
    BY <1>1, <1>4, <2>2, <2>3
  <2>5. QED
    BY <1>12, <2>4 DEF Sess!DecideTouch
<1>13. ASSUME NEW r \in Requests, Sess!TouchSession(r)
       PROVE  Sess!TypeOK'
  <2>1. PICK s \in Sessions : s = req[r].sess
    BY <1>13 DEF Sess!TouchSession, Carries
  <2>0. PICK b \in BOOLEAN : b = (rows[s].missed /\ rows[s].used > req[r].stamp)
    BY <1>0 DEF Sess!Row
  <2> DEFINE x == [rows[s] EXCEPT !.activity = req[r].stamp, !.missed = b,
                      !.expires = IF req[r].renew THEN req[r].stamp + Absolute ELSE @]
  <2>2. req[r].stamp \in Sess!Time /\ req[r].stamp + Absolute \in Sess!Horizon
    BY <1>0 DEF Sess!Request
  <2>3. x \in Sess!Row
    BY <1>0, <2>2 DEF Sess!Row
  <2>4. rows' = [rows EXCEPT ![s] = x] \/ rows' = rows
    BY <1>13, <2>0, <2>1 DEF Sess!TouchSession
  <2> HIDE DEF x
  <2>5. rows' \in [Sessions -> Sess!Row]
    BY <1>2, <2>3, <2>4
  <2>6. req' \in [Requests -> Sess!Request]
    BY <1>4, <1>13 DEF Sess!TouchSession
  <2>7. QED
    BY <1>13, <2>5, <2>6 DEF Sess!TouchSession
<1>14. ASSUME NEW r \in Requests, Sess!TouchFails(r)
       PROVE  Sess!TypeOK'
  <2>1. PICK s \in Sessions : s = req[r].sess
    BY <1>14 DEF Sess!TouchFails, Carries
  <2>2. [rows[s] EXCEPT !.missed = TRUE] \in Sess!Row
    BY <1>0 DEF Sess!Row
  <2>3. rows' = [rows EXCEPT ![s] = [rows[s] EXCEPT !.missed = TRUE]]
    BY <1>14, <2>1 DEF Sess!TouchFails
  <2>4. rows' \in [Sessions -> Sess!Row]
    BY <1>2, <2>2, <2>3
  <2>5. QED
    BY <1>4, <1>14, <2>4 DEF Sess!TouchFails
<1>15. CASE Sess!Tick
  BY <1>15 DEF Sess!Tick
<1>16. QED
  BY <1>6, <1>7, <1>8, <1>9, <1>10, <1>11, <1>12, <1>13, <1>14, <1>15 DEF Sess!Next

LEMMA CarriesStep == Sess!TypeOK /\ Carries /\ Sess!Next => Carries'
<1> SUFFICES ASSUME Sess!TypeOK, Carries, Sess!Next
             PROVE  Carries'
  OBVIOUS
<1>1. ASSUME \A r \in Requests : \/ req'[r].at = "idle"
                                 \/ req[r].at # "idle" /\ req'[r].sess = req[r].sess
                                 \/ req'[r].sess \in Sessions
      PROVE  Carries'
  BY <1>1 DEF Carries
<1>2. CASE UNCHANGED req
  BY <1>2 DEF Carries
<1>3. CASE \E r \in Requests : Sess!Send(r)
  BY <1>1, <1>3 DEF Sess!Send, Sess!Quiet, Carries
<1>4. CASE \E r \in Requests : Sess!Answer(r) \/ Sess!AnswerUnauthorized(r)
  BY <1>1, <1>4 DEF Sess!Answer, Sess!AnswerUnauthorized, Sess!Quiet, Carries
<1>5. ASSUME NEW r \in Requests,
             \/ Sess!Lookup(r) \/ Sess!LookupFails(r) \/ Sess!Accept(r) \/ Sess!RefuseDead(r)
             \/ Sess!DecideTouch(r) \/ Sess!TouchSession(r) \/ Sess!TouchFails(r)
             \/ Sess!ResolveGrantsFails(r)
      PROVE  Carries'
  <2>1. \A q \in Requests : req'[q].sess = req[q].sess /\ (q # r => req'[q] = req[q])
    BY <1>5 DEF Sess!Lookup, Sess!LookupFails, Sess!Accept, Sess!RefuseDead, Sess!DecideTouch,
       Sess!TouchSession, Sess!TouchFails, Sess!ResolveGrantsFails, Sess!Request
  <2>2. req[r].at # "idle"
    BY <1>5 DEF Sess!Lookup, Sess!LookupFails, Sess!Accept, Sess!RefuseDead, Sess!DecideTouch,
       Sess!TouchSession, Sess!TouchFails, Sess!ResolveGrantsFails
  <2>3. QED
    BY <2>1, <2>2 DEF Carries
<1>6. CASE Sess!Tick \/ \E s \in Sessions : Sess!SignIn(s) \/ Sess!RevokeSession(s)
  BY <1>2, <1>6 DEF Sess!Tick, Sess!SignIn, Sess!RevokeSession
<1>7. QED
  BY <1>3, <1>4, <1>5, <1>6 DEF Sess!Next

USE DEF Mfa!TypeOK

LEMMA MarkType ==
  ASSUME Mfa!TypeOK, NEW r \in Requests, Mfa!ApplyMark(r)
  PROVE  methods' \in [Methods -> Mfa!Method]
<1>1. PICK b \in BOOLEAN : b = (req[r].mark = "verified" /\ req[r].primary)
  BY DEF Mfa!Request
<1>2. [state |-> req[r].mark, primary |-> b] \in Mfa!Method \/ req[r].mark = "none"
  BY DEF Mfa!Request, Mfa!Method
<1>3. methods' = [m \in Methods |->
          IF m # req[r].method \/ req[r].mark = "none" THEN methods[m]
          ELSE [state |-> req[r].mark, primary |-> b]]
  BY <1>1 DEF Mfa!ApplyMark
<1>4. QED
  BY <1>2, <1>3

LEMMA FactorsType == Mfa!TypeOK /\ Mfa!Next => Mfa!TypeOK'
<1> SUFFICES ASSUME Mfa!TypeOK, Mfa!Next
             PROVE  Mfa!TypeOK'
  OBVIOUS
<1>0. Mfa!Idle \in Mfa!Request
  BY DEF Mfa!Idle, Mfa!Request, Mfa!Steps
<1>1. ASSUME NEW r \in Requests, NEW q \in Mfa!Request, req' = [req EXCEPT ![r] = q]
      PROVE  req' \in [Requests -> Mfa!Request]
  BY <1>1
<1>2. ASSUME NEW r \in Requests, NEW step \in Mfa!Steps, Mfa!Goto(r, step)
      PROVE  req' \in [Requests -> Mfa!Request]
  <2>1. [req[r] EXCEPT !.at = step] \in Mfa!Request
    BY DEF Mfa!Request
  <2>2. QED
    BY <1>1, <1>2, <2>1 DEF Mfa!Goto
<1>3. ASSUME NEW r \in Requests, (\E x : Mfa!Take(r, x)) \/ Mfa!Release(r)
      PROVE  locks' \in [Mfa!Rows -> Requests \cup {None}]
  BY <1>3 DEF Mfa!Take, Mfa!Release
<1>4. ASSUME NEW m \in Methods, Mfa!StartTOTPEnrollment(m)
      PROVE  Mfa!TypeOK'
  BY <1>4 DEF Mfa!StartTOTPEnrollment, Mfa!Method
<1>5. ASSUME NEW r \in Requests, NEW m \in Methods,
             \/ Mfa!ProvePossession(r, m, "verify") \/ Mfa!ProvePossession(r, m, "enrol")
             \/ Mfa!AuthoriseRemoval(r, m)
      PROVE  Mfa!TypeOK'
  <2>1. \A kind \in {"verify", "enrol"} :
            [Mfa!Idle EXCEPT !.at = "proven", !.kind = kind, !.method = m] \in Mfa!Request
    BY DEF Mfa!Idle, Mfa!Request, Mfa!Steps
  <2>2. [Mfa!Idle EXCEPT !.at = "authorised", !.kind = "remove", !.method = m,
                         !.required = required] \in Mfa!Request
    BY DEF Mfa!Idle, Mfa!Request, Mfa!Steps
  <2>3. req' \in [Requests -> Mfa!Request]
    BY <1>1, <1>5, <2>1, <2>2 DEF Mfa!ProvePossession, Mfa!AuthoriseRemoval
  <2>4. QED
    BY <1>5, <2>3 DEF Mfa!ProvePossession, Mfa!AuthoriseRemoval
<1>6. ASSUME NEW r \in Requests, Mfa!VerifySnapshot(r)
      PROVE  Mfa!TypeOK'
  <2>1. PICK b \in BOOLEAN : b = (Mfa!Verified \ {req[r].method} = {})
    OBVIOUS
  <2>2. [req[r] EXCEPT !.at = "marking", !.primary = b] \in Mfa!Request
    BY FactorRequests, FactorSteps
  <2>3. req' = [req EXCEPT ![r] = [req[r] EXCEPT !.at = "marking", !.primary = b]]
    BY <1>6, <2>1 DEF Mfa!VerifySnapshot
  <2>4. req' \in [Requests -> Mfa!Request]
    BY <1>1, <2>2, <2>3
  <2>5. QED
    BY <1>6, <2>4 DEF Mfa!VerifySnapshot
<1>7. ASSUME NEW r \in Requests, Mfa!VerifyMFAMethod(r) \/ Mfa!RevokeMFAMethod(r)
      PROVE  Mfa!TypeOK'
  <2>1. PICK step \in Mfa!Steps, mark \in {"none", "verified", "revoked"} :
            req' = [req EXCEPT ![r] = [req[r] EXCEPT !.at = step, !.mark = mark]]
    <3>1. CASE Mfa!VerifyMFAMethod(r)
      BY <3>1, FactorSteps DEF Mfa!VerifyMFAMethod
    <3>2. CASE Mfa!RevokeMFAMethod(r)
      BY <3>2, FactorSteps DEF Mfa!RevokeMFAMethod
    <3>3. QED
      BY <1>7, <3>1, <3>2
  <2>2. [req[r] EXCEPT !.at = step, !.mark = mark] \in Mfa!Request
    BY FactorRequests
  <2>3. req' \in [Requests -> Mfa!Request]
    BY <1>1, <2>1, <2>2
  <2>4. QED
    BY <1>3, <1>7, <2>3 DEF Mfa!VerifyMFAMethod, Mfa!RevokeMFAMethod
<1>8. ASSUME NEW r \in Requests, Mfa!Regenerate(r)
      PROVE  Mfa!TypeOK'
  <2>1. [Mfa!Idle EXCEPT !.at = "marked", !.kind = "regenerate"] \in Mfa!Request
    BY DEF Mfa!Idle, Mfa!Request, Mfa!Steps
  <2>2. QED
    BY <1>1, <1>8, <2>1 DEF Mfa!Regenerate
<1>9. ASSUME NEW r \in Requests, Mfa!ReplaceSnapshot(r)
      PROVE  Mfa!TypeOK'
  <2>1. [req[r] EXCEPT !.at = "clearing", !.doomed = codeSets] \in Mfa!Request
    BY FactorRequests, FactorSteps
  <2>2. QED
    BY <1>1, <1>9, <2>1 DEF Mfa!ReplaceSnapshot
<1>10. ASSUME NEW r \in Requests, Mfa!ReplaceRecoveryCodes(r)
       PROVE  Mfa!TypeOK'
  <2>1. generated' \in 0..MaxSets
    BY <1>10 DEF Mfa!ReplaceRecoveryCodes
  <2>2. locks' \in [Mfa!Rows -> Requests \cup {None}]
    BY <1>10 DEF Mfa!ReplaceRecoveryCodes
  <2>3. req' \in [Requests -> Mfa!Request]
    BY <1>2, <1>10 DEF Mfa!ReplaceRecoveryCodes, Mfa!Steps
  <2>4. QED
    BY <1>10, <2>1, <2>2, <2>3 DEF Mfa!ReplaceRecoveryCodes
<1>11. ASSUME NEW r \in Requests, Mfa!RecordLogin(r) \/ Mfa!LockSubject(r)
       PROVE  Mfa!TypeOK'
  BY <1>2, <1>3, <1>11 DEF Mfa!RecordLogin, Mfa!LockSubject, Mfa!Steps
<1>12. ASSUME NEW r \in Requests, Mfa!CommitReplace(r) \/ Mfa!CommitRemoval(r)
       PROVE  Mfa!TypeOK'
  <2>1. methods' \in [Methods -> Mfa!Method] /\ req' \in [Requests -> Mfa!Request]
    BY <1>0, <1>1, <1>12, MarkType DEF Mfa!CommitReplace, Mfa!CommitRemoval
  <2>2. codeSets' \subseteq Mfa!Sets
    BY <1>12 DEF Mfa!CommitReplace, Mfa!CommitRemoval
  <2>3. QED
    BY <1>3, <1>12, <2>1, <2>2 DEF Mfa!CommitReplace, Mfa!CommitRemoval
<1>13. ASSUME NEW r \in Requests, Mfa!CountVerified(r) \/ Mfa!Rollback(r)
       PROVE  Mfa!TypeOK'
  <2>1. "revoking" \in Mfa!Steps
    BY DEF Mfa!Steps
  <2>2. req' \in [Requests -> Mfa!Request] /\ locks' \in [Mfa!Rows -> Requests \cup {None}]
    BY <1>0, <1>1, <1>2, <1>3, <1>13, <2>1 DEF Mfa!CountVerified, Mfa!Rollback
  <2>3. QED
    BY <1>13, <2>2 DEF Mfa!CountVerified, Mfa!Rollback
<1>14. CASE Mfa!SetPolicy
  BY <1>14 DEF Mfa!SetPolicy
<1>15. QED
  BY <1>4, <1>5, <1>6, <1>7, <1>8, <1>9, <1>10, <1>11, <1>12, <1>13, <1>14
     DEF Mfa!Next, Mfa!DeadlockAbort, Mfa!Disconnect

\* What a callback knows at each of its steps.
Knows == \A r \in Requests :
    /\ req[r].at # "free" => req[r].state \in Sso!Starts
    /\ req[r].at \in {"find", "check", "issue"} \cup Sso!InTx => req[r].email \in Addresses
    /\ req[r].at \in {"linking", "commit", "check", "issue"} => req[r].subject \in Addresses

USE DEF Sso!TypeOK, Sso!Providers

LEMMA SsoType == Sso!TypeOK /\ Knows /\ Sso!Next => Sso!TypeOK'
<1> SUFFICES ASSUME Sso!TypeOK, Knows, Sso!Next
             PROVE  Sso!TypeOK'
  OBVIOUS
<1>0. /\ Sso!Free \in CallbackState
      /\ \A r \in Requests : req[r] \in CallbackState /\ req[r].email \in Addresses \cup {None}
  BY DEF Sso!Free, CallbackState, CallbackSteps
<1>1. ASSUME NEW r \in Requests, NEW q \in CallbackState, Sso!Goes(r, q)
      PROVE  req' \in [Requests -> CallbackState]
  BY <1>0, <1>1 DEF Sso!Goes
<1>2. ASSUME req' \in [Requests -> CallbackState], UNCHANGED <<Sso!tables, Sso!outside>>
      PROVE  Sso!TypeOK'
  BY <1>2 DEF CallbackState, CallbackSteps, Sso!tables, Sso!outside
<1>3. ASSUME NEW r \in Requests, NEW q \in CallbackState, Sso!Goes(r, q) \/ Sso!Ends(r),
             UNCHANGED <<Sso!tables, Sso!outside>>
      PROVE  Sso!TypeOK'
  BY <1>0, <1>1, <1>2, <1>3 DEF Sso!Ends
<1>4. ASSUME NEW r \in Requests, NEW t \in Sso!Starts, Sso!ConsumeState(r, t)
      PROVE  Sso!TypeOK'
  <2>1. [Sso!Free EXCEPT !.at = "load", !.state = t] \in CallbackState
    BY DEF Sso!Free, CallbackState, CallbackSteps
  <2>2. req' \in [Requests -> CallbackState]
    BY <1>1, <1>4, <2>1 DEF Sso!ConsumeState
  <2>3. QED
    BY <1>4, <2>2 DEF Sso!ConsumeState, CallbackState, CallbackSteps, Sso!outside
<1>5. ASSUME NEW r \in Requests, Sso!LoadProvider(r)
      PROVE  Sso!TypeOK'
  <2>1. ASSUME provider # None
        PROVE  [req[r] EXCEPT !.at = "identify", !.jit = provider.jit] \in CallbackState
    <3>1. provider.jit \in BOOLEAN
      BY <2>1
    <3>2. QED
      BY <1>0, <3>1, CallbackRequests, CallbackStepsKnown
  <2>2. QED
    BY <1>0, <1>3, <1>5, <2>1 DEF Sso!LoadProvider
<1>6. ASSUME NEW r \in Requests, Sso!FetchIdentity(r)
      PROVE  Sso!TypeOK'
  <2>1. [req[r] EXCEPT !.at = "find", !.email = person.email, !.verified = person.verified]
            \in CallbackState
    <3>1. person.email \in Addresses /\ person.verified \in BOOLEAN
      OBVIOUS
    <3>2. QED
      BY <1>0, <3>1, CallbackRequests, CallbackStepsKnown
  <2>2. QED
    BY <1>3, <1>6, <2>1 DEF Sso!FetchIdentity
<1>7. ASSUME NEW r \in Requests, Sso!FindLink(r)
      PROVE  Sso!TypeOK'
  <2>1. /\ [req[r] EXCEPT !.at = "check", !.subject = link] \in CallbackState
        /\ [req[r] EXCEPT !.at = "match"] \in CallbackState
    <3>1. link \in Addresses \cup {None}
      OBVIOUS
    <3>2. QED
      BY <1>0, <3>1, CallbackRequests, CallbackStepsKnown
  <2>2. QED
    BY <1>3, <1>7, <2>1 DEF Sso!FindLink
<1>8. ASSUME NEW r \in Requests, Sso!MatchEmail(r)
      PROVE  Sso!TypeOK'
  <2>1. /\ [req[r] EXCEPT !.at = "linking", !.subject = req[r].email] \in CallbackState
        /\ [req[r] EXCEPT !.at = "provision"] \in CallbackState
    BY <1>0, CallbackRequests, CallbackStepsKnown
  <2>2. QED
    BY <1>3, <1>8, <2>1 DEF Sso!MatchEmail
<1>9. ASSUME NEW r \in Requests, Sso!Provision(r)
      PROVE  Sso!TypeOK'
  <2>1. [req[r] EXCEPT !.at = "linking", !.subject = req[r].email, !.made = TRUE] \in CallbackState
    BY <1>0, CallbackRequests, CallbackStepsKnown
  <2>2. QED
    BY <1>3, <1>9, <2>1 DEF Sso!Provision
<1>10. ASSUME NEW r \in Requests, Sso!linkIdentity(r)
       PROVE  Sso!TypeOK'
  <2>1. PICK b \in BOOLEAN : b = (link = None)
    OBVIOUS
  <2>2. [req[r] EXCEPT !.at = "commit", !.links = b] \in CallbackState
    BY <1>0, CallbackRequests, CallbackStepsKnown
  <2>3. Sso!Goes(r, [req[r] EXCEPT !.at = "commit", !.links = b]) \/ Sso!Ends(r)
    BY <1>10, <2>1 DEF Sso!linkIdentity, Sso!Goes, Sso!Joins
  <2>4. QED
    BY <1>3, <1>10, <2>2, <2>3 DEF Sso!linkIdentity
<1>11. ASSUME NEW r \in Requests, Sso!Commit(r)
       PROVE  Sso!TypeOK'
  <2>1. [req[r] EXCEPT !.at = "check", !.made = FALSE, !.links = FALSE] \in CallbackState
    BY <1>0, CallbackRequests, CallbackStepsKnown
  <2>2. req' \in [Requests -> CallbackState]
    BY <1>1, <1>11, <2>1 DEF Sso!Commit
  <2>3. accounts' \in [Addresses -> {"none", "active", "suspended"}]
    BY <1>11 DEF Sso!Commit
  <2>4. link' \in Addresses \cup {None}
    BY <1>0, <1>11 DEF Sso!Commit, CallbackState
  <2>5. provisioned' \in SUBSET Addresses
    BY <1>11 DEF Sso!Commit, Knows, Sso!InTx
  <2>6. QED
    BY <1>11, <2>2, <2>3, <2>4, <2>5 DEF Sso!Commit, CallbackState, CallbackSteps
<1>12. ASSUME NEW r \in Requests, Sso!CheckAccountStatus(r) \/ Sso!Fail(r)
       PROVE  Sso!TypeOK'
  <2>1. [req[r] EXCEPT !.at = "issue"] \in CallbackState
    BY <1>0, CallbackRequests, CallbackStepsKnown
  <2>2. QED
    BY <1>3, <1>12, <2>1 DEF Sso!CheckAccountStatus, Sso!Fail
<1>13. ASSUME NEW r \in Requests, Sso!IssueSession(r)
       PROVE  Sso!TypeOK'
  <2>1. req' \in [Requests -> CallbackState]
    BY <1>0, <1>1, <1>13 DEF Sso!IssueSession, Sso!Ends
  <2>2. issued' \in [Sso!Starts -> Nat]
    BY <1>13 DEF Sso!IssueSession, Knows
  <2>3. QED
    BY <1>13, <2>1, <2>2 DEF Sso!IssueSession, Sso!tables, CallbackState, CallbackSteps
<1>14. CASE Sso!Rename
  <2>1. person' \in [email : Addresses, verified : BOOLEAN] /\ crossed' \in BOOLEAN
    BY <1>14 DEF Sso!Rename
  <2>2. QED
    BY <1>14, <2>1 DEF Sso!Rename, Sso!tables
<1>15. CASE \/ \E t \in Sso!Starts : Sso!StartSSO(t) \/ Sso!Expire(t)
            \/ \E a \in Addresses : Sso!Signup(a) \/ Sso!Suspend(a)
            \/ Sso!Configure \/ Sso!DeleteProvider
  BY <1>15 DEF Sso!StartSSO, Sso!Expire, Sso!Signup, Sso!Suspend, Sso!Configure,
     Sso!DeleteProvider, Sso!outside
<1>16. QED
  BY <1>4, <1>5, <1>6, <1>7, <1>8, <1>9, <1>10, <1>11, <1>12, <1>13, <1>14, <1>15
     DEF Sso!Next, Sso!Callback

LEMMA KnowsStep == Sso!TypeOK /\ Knows /\ Sso!Next => Knows'
<1> SUFFICES ASSUME Sso!TypeOK, Knows, Sso!Next
             PROVE  Knows'
  OBVIOUS
<1> DEFINE KnowsOf(r) ==
      /\ req'[r].at # "free" => req'[r].state \in Sso!Starts
      /\ req'[r].at \in {"find", "check", "issue"} \cup Sso!InTx => req'[r].email \in Addresses
      /\ req'[r].at \in {"linking", "commit", "check", "issue"} => req'[r].subject \in Addresses
<1>1. ASSUME NEW r \in Requests, NEW q, Sso!Goes(r, q), KnowsOf(r)
      PROVE  Knows'
  BY <1>1 DEF Knows, Sso!Goes
<1>2. ASSUME NEW r \in Requests, Sso!Ends(r)
      PROVE  Knows'
  BY <1>2 DEF Knows, Sso!Ends, Sso!Goes, Sso!Free, Sso!InTx
<1>3. ASSUME UNCHANGED req
      PROVE  Knows'
  BY <1>3 DEF Knows
<1>4. ASSUME NEW r \in Requests, NEW t \in Sso!Starts, Sso!ConsumeState(r, t)
      PROVE  Knows'
  BY <1>4 DEF Sso!ConsumeState, Sso!Free, Sso!InTx, Sso!Goes, Knows
<1>5. ASSUME NEW r \in Requests, Sso!LoadProvider(r)
      PROVE  Knows'
  <2>1. req[r].state \in Sso!Starts
    BY <1>5 DEF Sso!LoadProvider, Knows
  <2>2. ASSUME provider # None
        PROVE  KnowsOf(r)
    <3>1. Sso!Goes(r, [req[r] EXCEPT !.at = "identify", !.jit = provider.jit])
      BY <1>5, <2>2 DEF Sso!LoadProvider
    <3>2. req'[r].at = "identify" /\ req'[r].state = req[r].state
      BY <3>1 DEF Sso!Goes
    <3>3. QED
      BY <2>1, <3>2 DEF Sso!InTx
  <2>3. QED
    BY <1>1, <1>2, <1>5, <2>2 DEF Sso!LoadProvider
<1>6. ASSUME NEW r \in Requests, Sso!FetchIdentity(r)
      PROVE  Knows'
  <2>1. req[r].state \in Sso!Starts /\ person.email \in Addresses
    BY <1>6 DEF Sso!FetchIdentity, Knows
  <2>2. KnowsOf(r)
    BY <1>6, <2>1 DEF Sso!FetchIdentity, Sso!Goes
  <2>3. QED
    BY <1>1, <1>6, <2>2 DEF Sso!FetchIdentity
<1>7. ASSUME NEW r \in Requests,
             \/ Sso!FindLink(r) \/ Sso!MatchEmail(r) \/ Sso!Provision(r)
             \/ Sso!linkIdentity(r) \/ Sso!Commit(r)
      PROVE  Knows'
  <2>1. req[r].state \in Sso!Starts /\ req[r].email \in Addresses
    BY <1>7 DEF Sso!FindLink, Sso!MatchEmail, Sso!Provision, Sso!linkIdentity, Sso!Commit,
       Knows, Sso!InTx
  <2>2. CASE Sso!FindLink(r)
    <3>1. KnowsOf(r)
      BY <2>1, <2>2 DEF Sso!FindLink, Sso!Goes
    <3>2. QED
      BY <1>1, <2>2, <3>1 DEF Sso!FindLink
  <2>3. ASSUME Sso!Goes(r, [req[r] EXCEPT !.at = "linking", !.subject = req[r].email])
        PROVE  Knows'
    <3>1. KnowsOf(r)
      BY <2>1, <2>3 DEF Sso!Goes
    <3>2. QED
      BY <1>1, <2>3, <3>1
  <2>4. ASSUME Sso!Goes(r, [req[r] EXCEPT !.at = "provision"])
        PROVE  Knows'
    <3>1. KnowsOf(r)
      BY <2>1, <2>4 DEF Sso!Goes
    <3>2. QED
      BY <1>1, <2>4, <3>1
  <2>5. ASSUME Sso!Goes(r, [req[r] EXCEPT !.at = "linking", !.subject = req[r].email, !.made = TRUE])
        PROVE  Knows'
    <3>1. KnowsOf(r)
      BY <2>1, <2>5 DEF Sso!Goes
    <3>2. QED
      BY <1>1, <2>5, <3>1
  <2>6. CASE Sso!MatchEmail(r) \/ Sso!Provision(r)
    BY <1>2, <2>3, <2>4, <2>5, <2>6 DEF Sso!MatchEmail, Sso!Provision
  <2>7. CASE Sso!linkIdentity(r)
    <3>1. req[r].subject \in Addresses
      BY <2>7 DEF Sso!linkIdentity, Knows
    <3>2. ASSUME provider # None
          PROVE  KnowsOf(r)
      <4>1. Sso!Goes(r, [req[r] EXCEPT !.at = "commit", !.links = Sso!Joins(r)])
        BY <2>7, <3>2 DEF Sso!linkIdentity
      <4>2. /\ req'[r].at = "commit" /\ req'[r].state = req[r].state
            /\ req'[r].email = req[r].email /\ req'[r].subject = req[r].subject
        BY <4>1 DEF Sso!Goes
      <4>3. QED
        BY <2>1, <3>1, <4>2
    <3>3. QED
      BY <1>1, <1>2, <2>7, <3>2 DEF Sso!linkIdentity
  <2>8. CASE Sso!Commit(r)
    <3>1. req[r].subject \in Addresses
      BY <2>8 DEF Sso!Commit, Knows
    <3>2. KnowsOf(r)
      BY <2>1, <2>8, <3>1 DEF Sso!Commit, Sso!Goes
    <3>3. QED
      BY <1>1, <2>8, <3>2 DEF Sso!Commit
  <2>9. QED
    BY <1>7, <2>2, <2>6, <2>7, <2>8
<1>8. ASSUME NEW r \in Requests, Sso!CheckAccountStatus(r)
      PROVE  Knows'
  <2>1. ASSUME ~Sso!Ends(r)
        PROVE  KnowsOf(r)
    BY <1>8, <2>1 DEF Sso!CheckAccountStatus, Sso!Goes, Knows
  <2>2. QED
    BY <1>1, <1>2, <1>8, <2>1 DEF Sso!CheckAccountStatus
<1>9. ASSUME NEW r \in Requests, Sso!IssueSession(r) \/ Sso!Fail(r)
      PROVE  Knows'
  BY <1>2, <1>9 DEF Sso!IssueSession, Sso!Fail
<1>10. CASE \/ \E t \in Sso!Starts : Sso!StartSSO(t) \/ Sso!Expire(t)
            \/ \E a \in Addresses : Sso!Signup(a) \/ Sso!Suspend(a)
            \/ Sso!Rename \/ Sso!Configure \/ Sso!DeleteProvider
  BY <1>3, <1>10 DEF Sso!StartSSO, Sso!Expire, Sso!Signup, Sso!Suspend, Sso!Rename,
     Sso!Configure, Sso!DeleteProvider
<1>11. QED
  BY <1>4, <1>5, <1>6, <1>7, <1>8, <1>9, <1>10 DEF Sso!Next, Sso!Callback

\* Where each part starts.
LEMMA SettingsInit == Settings!Init => Settings!TypeOK
<1> SUFFICES ASSUME Settings!Init
             PROVE  Settings!TypeOK
  OBVIOUS
<1>1. \A i \in Instances : Settings!Idle(i) \in Settings!Request
  BY DEF Settings!Idle, Settings!Defaults, Settings!Request, Settings!Versions
<1>2. req \in [Requests -> Settings!Request]
  BY <1>1 DEF Settings!Init
<1>3. Settings!StoreTypeOK
  BY DEF Settings!Init, Settings!StoreInit, Settings!Empty, Settings!Defaults, Settings!Versions
<1>4. QED
  BY <1>2, <1>3 DEF Settings!Init, Settings!Versions

LEMMA SessionsInit == Sess!Init => Sess!TypeOK /\ Carries
  BY DEF Sess!Init, Sess!NoRow, Sess!Row, Sess!Quiet, Sess!Request, Sess!Empty, Carries

LEMMA FactorsInit == Mfa!Init => Mfa!TypeOK
  BY DEF Mfa!Init, Mfa!Method, Mfa!Idle, Mfa!Request, Mfa!Steps

LEMMA SsoInit == Sso!Init => Sso!TypeOK /\ Knows
<1> SUFFICES ASSUME Sso!Init
             PROVE  Sso!TypeOK /\ Knows
  OBVIOUS
<1>1. Sso!Free \in CallbackState
  BY DEF Sso!Free, CallbackState, CallbackSteps
<1>2. req \in [Requests -> CallbackState]
  BY <1>1 DEF Sso!Init
<1>3. Knows
  BY DEF Sso!Init, Sso!Free, Sso!InTx, Knows
<1>4. QED
  BY <1>2, <1>3 DEF Sso!Init, CallbackState, CallbackSteps

\* Of the parts of ServerRows only the one a behaviour follows has state.
RowsInv == /\ TypeOK
           /\ site = "sessions" => Carries
           /\ site = "sso" => Knows

LEMMA RowsStay == ASSUME RowsInv, UNCHANGED vars PROVE RowsInv'
  BY DEF RowsInv, TypeOK, vars, settingsVars, sessionVars, factorVars, ssoVars, Carries, Knows,
     Mfa!Verified

HIDE DEF Settings!TypeOK, Settings!StoreTypeOK, Sess!TypeOK, Sess!Time, Sess!Horizon, Mfa!TypeOK, Sso!TypeOK

LEMMA RowsStep == RowsInv /\ [Next]_vars => RowsInv'
<1> SUFFICES ASSUME RowsInv, [Next]_vars
             PROVE  RowsInv'
  OBVIOUS
<1>1. CASE SettingsStep
  BY <1>1, SettingsType DEF SettingsStep, RowsInv, TypeOK
<1>2. CASE SessionsStep
  BY <1>2, SessionsType, CarriesStep DEF SessionsStep, RowsInv, TypeOK
<1>3. CASE FactorsStep
  BY <1>3, FactorsType DEF FactorsStep, RowsInv, TypeOK
<1>4. CASE SsoStep
  BY <1>4, SsoType, KnowsStep DEF SsoStep, RowsInv, TypeOK
<1>5. CASE UNCHANGED vars
  BY <1>5, RowsStay
<1>6. QED
  BY <1>1, <1>2, <1>3, <1>4, <1>5 DEF Next, Ended

LEMMA RowsInvariant == Spec => []RowsInv
<1>1. Init => RowsInv
  BY SettingsInit, SessionsInit, FactorsInit, SsoInit DEF Init, RowsInv, TypeOK
<1>2. QED
  BY <1>1, RowsStep, PTL DEF Spec

\* The rows and the requests of settings, sessions, second factors and sign-in
\* through a provider have their types, whatever the requests interleave.
THEOREM RowsTypeCorrect == Spec => []TypeOK
<1>1. RowsInv => TypeOK
  BY DEF RowsInv
<1>2. QED
  BY <1>1, RowsInvariant, PTL
=============================================================================
