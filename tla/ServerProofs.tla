----------------------------- MODULE ServerProofs -----------------------------
(***************************************************************************)
(* What the components composed in ServerRows guarantee, for any number of *)
(* requests, processes and rows.  A state of a sign-in through a provider  *)
(* pays once, accounts made that way are linked, and the session goes to   *)
(* the account that is linked; the row locks of MfaMethods keep the second *)
(* factors consistent; and the clocks of settings and sessions are kept.   *)
(***************************************************************************)
EXTENDS ServerRowsProofs, FiniteSetTheorems

-----------------------------------------------------------------------------
(* Sign-in through a provider                                              *)

\* What every invariant below builds on.
SsoBase == Sso!TypeOK /\ Knows

\* A callback goes on as it is, or is over.
KeepsState == \A r \in Requests : req'[r].state \in {req[r].state, 0}

LEMMA GoesKeeps ==
  ASSUME SsoBase, NEW r \in Requests, NEW q, Sso!Goes(r, q), q.state \in {req[r].state, 0}
  PROVE  KeepsState
  BY DEF SsoBase, Sso!TypeOK, Sso!Goes, KeepsState

\* Only ConsumeState gives a callback a state.
LEMMA CallbackKeeps ==
  ASSUME SsoBase, NEW r \in Requests,
         \/ Sso!LoadProvider(r) \/ Sso!FetchIdentity(r) \/ Sso!FindLink(r) \/ Sso!MatchEmail(r)
         \/ Sso!Provision(r) \/ Sso!linkIdentity(r) \/ Sso!Commit(r)
         \/ Sso!CheckAccountStatus(r) \/ Sso!IssueSession(r) \/ Sso!Fail(r)
  PROVE  KeepsState
<1>1. Sso!Free.state = 0
  BY DEF Sso!Free
<1>2. /\ \A j : [req[r] EXCEPT !.at = "identify", !.jit = j].state = req[r].state
      /\ \A e, v : [req[r] EXCEPT !.at = "find", !.email = e, !.verified = v].state = req[r].state
      /\ \A s : [req[r] EXCEPT !.at = "check", !.subject = s].state = req[r].state
      /\ \A to : [req[r] EXCEPT !.at = to].state = req[r].state
      /\ \A s : [req[r] EXCEPT !.at = "linking", !.subject = s].state = req[r].state
      /\ \A s : [req[r] EXCEPT !.at = "linking", !.subject = s, !.made = TRUE].state = req[r].state
      /\ \A j : [req[r] EXCEPT !.at = "commit", !.links = j].state = req[r].state
      /\ [req[r] EXCEPT !.at = "check", !.made = FALSE, !.links = FALSE].state = req[r].state
  BY DEF SsoBase, Sso!TypeOK
<1>3. ASSUME Sso!Ends(r)
      PROVE  KeepsState
  BY <1>1, <1>3, GoesKeeps DEF Sso!Ends
<1>4. CASE Sso!LoadProvider(r) \/ Sso!FetchIdentity(r) \/ Sso!FindLink(r)
  <2>1. CASE Sso!LoadProvider(r)
    BY <1>2, <1>3, <2>1, GoesKeeps DEF Sso!LoadProvider
  <2>2. CASE Sso!FetchIdentity(r)
    BY <1>2, <2>2, GoesKeeps DEF Sso!FetchIdentity
  <2>3. CASE Sso!FindLink(r)
    BY <1>2, <2>3, GoesKeeps DEF Sso!FindLink
  <2>4. QED
    BY <1>4, <2>1, <2>2, <2>3
<1>5. CASE Sso!MatchEmail(r) \/ Sso!Provision(r)
  <2>1. CASE Sso!MatchEmail(r)
    BY <1>2, <1>3, <2>1, GoesKeeps DEF Sso!MatchEmail
  <2>2. CASE Sso!Provision(r)
    BY <1>2, <1>3, <2>2, GoesKeeps DEF Sso!Provision
  <2>3. QED
    BY <1>5, <2>1, <2>2
<1>6. CASE Sso!linkIdentity(r) \/ Sso!Commit(r)
  <2>1. CASE Sso!linkIdentity(r)
    BY <1>2, <1>3, <2>1, GoesKeeps DEF Sso!linkIdentity
  <2>2. CASE Sso!Commit(r)
    BY <1>2, <2>2, GoesKeeps DEF Sso!Commit
  <2>3. QED
    BY <1>6, <2>1, <2>2
<1>7. CASE Sso!CheckAccountStatus(r) \/ Sso!IssueSession(r) \/ Sso!Fail(r)
  <2>1. CASE Sso!CheckAccountStatus(r)
    BY <1>2, <1>3, <2>1, GoesKeeps DEF Sso!CheckAccountStatus
  <2>2. CASE Sso!IssueSession(r) \/ Sso!Fail(r)
    BY <1>3, <2>2 DEF Sso!IssueSession, Sso!Fail
  <2>3. QED
    BY <1>7, <2>1, <2>2
<1>8. QED
  BY <1>4, <1>5, <1>6, <1>7

-----------------------------------------------------------------------------
(* A state pays once                                                       *)

\* Whoever holds a state is alone with it, found it open, and was not paid yet.
PaysInv == \A t \in Sso!Starts :
    /\ \/ issued[t] = 0
       \/ issued[t] = 1 /\ states[t] = "consumed" /\ \A r \in Requests : req[r].state # t
    /\ \A r \in Requests : req[r].state = t => states[t] = "consumed"
    /\ \A r, q \in Requests : req[r].state = t /\ req[q].state = t => r = q

ConsumedStay == \A t \in Sso!Starts : states[t] = "consumed" => states'[t] = "consumed"

LEMMA PaysKept ==
  ASSUME SsoBase, PaysInv, KeepsState, ConsumedStay, UNCHANGED issued
  PROVE  PaysInv'
<1>1. \A t \in Sso!Starts : t # 0
  BY RowsBounds DEF Sso!Starts, Sso!Bounds
<1>2. \A r \in Requests, t \in Sso!Starts : req'[r].state = t => req[r].state = t
  BY <1>1 DEF KeepsState
<1>3. QED
  BY <1>2 DEF PaysInv, ConsumedStay

LEMMA ConsumePays ==
  ASSUME SsoBase, PaysInv, NEW r \in Requests, NEW t \in Sso!Starts, Sso!ConsumeState(r, t)
  PROVE  PaysInv'
<1>1. /\ req'[r].state = t /\ \A q \in Requests \ {r} : req'[q] = req[q]
      /\ states[t] = "open" /\ states'[t] = "consumed"
      /\ \A u \in Sso!Starts \ {t} : states'[u] = states[u]
      /\ UNCHANGED issued
  BY DEF SsoBase, Sso!TypeOK, Sso!ConsumeState, Sso!Goes, Sso!Free, Sso!outside
<1>2. issued[t] = 0 /\ \A q \in Requests : req[q].state # t
  BY <1>1 DEF PaysInv
<1>3. QED
  BY <1>1, <1>2 DEF PaysInv

LEMMA IssuePays ==
  ASSUME SsoBase, PaysInv, NEW r \in Requests, Sso!IssueSession(r)
  PROVE  PaysInv'
<1>1. PICK t \in Sso!Starts : t = req[r].state
  BY DEF SsoBase, Knows, Sso!IssueSession
<1>2. t # 0
  BY RowsBounds DEF Sso!Starts, Sso!Bounds
<1>3. issued[t] = 0 /\ states[t] = "consumed" /\ \A q \in Requests \ {r} : req[q].state # t
  BY <1>1 DEF PaysInv
<1>4. /\ req'[r].state = 0 /\ \A q \in Requests \ {r} : req'[q] = req[q]
      /\ issued'[t] = issued[t] + 1 /\ \A u \in Sso!Starts \ {t} : issued'[u] = issued[u]
      /\ UNCHANGED states
  BY <1>1 DEF SsoBase, Sso!TypeOK, Sso!IssueSession, Sso!Ends, Sso!Goes, Sso!Free, Sso!tables
<1>5. issued'[t] = 1 /\ \A q \in Requests : req'[q].state # t
  BY <1>2, <1>3, <1>4
<1>6. \A u \in Sso!Starts : u # 0
  BY RowsBounds DEF Sso!Starts, Sso!Bounds
<1>7. QED
  BY <1>1, <1>3, <1>4, <1>5, <1>6 DEF PaysInv

LEMMA PaysStep == SsoBase /\ PaysInv /\ Sso!Next => PaysInv'
<1> SUFFICES ASSUME SsoBase, PaysInv, Sso!Next
             PROVE  PaysInv'
  OBVIOUS
<1>1. ASSUME UNCHANGED req
      PROVE  KeepsState
  BY <1>1 DEF KeepsState
<1>2. ASSUME UNCHANGED states
      PROVE  ConsumedStay
  BY <1>2 DEF ConsumedStay
<1>3. ASSUME NEW r \in Requests,
             \/ Sso!LoadProvider(r) \/ Sso!FetchIdentity(r) \/ Sso!FindLink(r)
             \/ Sso!MatchEmail(r) \/ Sso!Provision(r) \/ Sso!linkIdentity(r) \/ Sso!Commit(r)
             \/ Sso!CheckAccountStatus(r) \/ Sso!Fail(r)
      PROVE  PaysInv'
  <2>1. UNCHANGED <<states, issued>>
    BY <1>3 DEF Sso!LoadProvider, Sso!FetchIdentity, Sso!FindLink, Sso!MatchEmail, Sso!Provision,
       Sso!linkIdentity, Sso!Commit, Sso!CheckAccountStatus, Sso!Fail, Sso!tables, Sso!outside
  <2>2. QED
    BY <1>2, <1>3, <2>1, CallbackKeeps, PaysKept
<1>4. CASE \/ \E a \in Addresses : Sso!Signup(a) \/ Sso!Suspend(a)
           \/ Sso!Rename \/ Sso!Configure
  BY <1>1, <1>2, <1>4, PaysKept
     DEF Sso!Signup, Sso!Suspend, Sso!Rename, Sso!Configure, Sso!tables, Sso!outside
<1>5. CASE \/ \E t \in Sso!Starts : Sso!StartSSO(t) \/ Sso!Expire(t)
           \/ Sso!DeleteProvider
  <2>1. ConsumedStay
    BY <1>5 DEF Sso!StartSSO, Sso!Expire, Sso!DeleteProvider, ConsumedStay, SsoBase, Sso!TypeOK
  <2>2. UNCHANGED <<req, issued>>
    BY <1>5 DEF Sso!StartSSO, Sso!Expire, Sso!DeleteProvider, Sso!outside
  <2>3. QED
    BY <1>1, <2>1, <2>2, PaysKept
<1>6. QED
  BY <1>3, <1>4, <1>5, ConsumePays, IssuePays DEF Sso!Next, Sso!Callback

\* Nothing of the above changes while a behaviour follows another part.
LEMMA PaysInvariant == Spec => [](site = "sso" => PaysInv)
<1>1. Init => (site = "sso" => PaysInv)
  <2>1. ASSUME Sso!Init
        PROVE  PaysInv
    <3>1. \A t \in Sso!Starts : t # 0
      BY RowsBounds DEF Sso!Starts, Sso!Bounds
    <3>2. QED
      BY <2>1, <3>1 DEF Sso!Init, Sso!Free, PaysInv
  <2>2. QED
    BY <2>1 DEF Init
<1>2. RowsInv /\ (site = "sso" => PaysInv) /\ [Next]_vars => (site = "sso" => PaysInv)'
  <2> SUFFICES ASSUME RowsInv, site = "sso" => PaysInv, [Next]_vars, site' = "sso"
               PROVE  PaysInv'
    OBVIOUS
  <2>1. CASE SsoStep
    BY <2>1, PaysStep DEF SsoStep, RowsInv, TypeOK, SsoBase
  <2>2. CASE UNCHANGED vars
    BY <2>2 DEF vars, ssoVars, PaysInv
  <2>3. QED
    BY <2>1, <2>2 DEF Next, Ended, SettingsStep, SessionsStep, FactorsStep
<1>3. QED
  BY <1>1, <1>2, RowsInvariant, PTL DEF Spec

\* "A replayed callback URL matches no row and cannot mint a second session":
\* however often and at once the browser comes back with a state.
THEOREM SsoStatePaysOnce == Spec => []StatePaysOnce
<1>1. (site = "sso" => PaysInv) => StatePaysOnce
  BY DEF PaysInv, StatePaysOnce, Sso!StatePaysOnce
<1>2. QED
  BY <1>1, PaysInvariant, PTL

-----------------------------------------------------------------------------
(* Who inserts the link                                                    *)

\* Whoever has inserted the link knows whether there was one, is alone, and has the
\* provider's row.
LinkInv ==
    /\ \A r \in Requests : req[r].at = "commit" =>
          /\ provider # None
          /\ (req[r].links => link = None) /\ (~req[r].links => link # None)
    /\ \A r, q \in Requests : req[r].at = "commit" /\ req[q].at = "commit" => r = q

NobodyCommits == \A r \in Requests : req'[r].at = "commit" => req'[r] = req[r]

LEMMA LinkKept ==
  ASSUME LinkInv, NobodyCommits, UNCHANGED <<provider, link>>
  PROVE  LinkInv'
  BY DEF LinkInv, NobodyCommits

LEMMA GoesElsewhere ==
  ASSUME SsoBase, NEW r \in Requests, NEW q, Sso!Goes(r, q), q.at # "commit"
  PROVE  NobodyCommits
  BY DEF SsoBase, Sso!TypeOK, Sso!Goes, NobodyCommits

LEMMA EndsElsewhere ==
  ASSUME SsoBase, NEW r \in Requests, Sso!Ends(r)
  PROVE  NobodyCommits
<1>1. Sso!Free.at # "commit"
  BY DEF Sso!Free
<1>2. QED
  BY <1>1, GoesElsewhere DEF Sso!Ends

LEMMA OthersElsewhere ==
  ASSUME SsoBase, NEW r \in Requests,
         \/ Sso!LoadProvider(r) \/ Sso!FetchIdentity(r) \/ Sso!FindLink(r) \/ Sso!MatchEmail(r)
         \/ Sso!Provision(r) \/ Sso!Commit(r)
         \/ Sso!CheckAccountStatus(r) \/ Sso!IssueSession(r) \/ Sso!Fail(r)
  PROVE  NobodyCommits
<1>1. /\ \A j : [req[r] EXCEPT !.at = "identify", !.jit = j].at # "commit"
      /\ \A e, v : [req[r] EXCEPT !.at = "find", !.email = e, !.verified = v].at # "commit"
      /\ \A s : [req[r] EXCEPT !.at = "check", !.subject = s].at # "commit"
      /\ \A to \in {"match", "provision", "issue"} : [req[r] EXCEPT !.at = to].at # "commit"
      /\ \A s : [req[r] EXCEPT !.at = "linking", !.subject = s].at # "commit"
      /\ \A s : [req[r] EXCEPT !.at = "linking", !.subject = s, !.made = TRUE].at # "commit"
      /\ [req[r] EXCEPT !.at = "check", !.made = FALSE, !.links = FALSE].at # "commit"
  BY DEF SsoBase, Sso!TypeOK
<1>2. CASE Sso!LoadProvider(r) \/ Sso!FetchIdentity(r) \/ Sso!FindLink(r)
  BY <1>1, <1>2, EndsElsewhere, GoesElsewhere DEF Sso!LoadProvider, Sso!FetchIdentity, Sso!FindLink
<1>3. CASE Sso!MatchEmail(r) \/ Sso!Provision(r)
  BY <1>1, <1>3, EndsElsewhere, GoesElsewhere DEF Sso!MatchEmail, Sso!Provision
<1>4. CASE Sso!Commit(r)
  BY <1>1, <1>4, GoesElsewhere DEF Sso!Commit
<1>5. CASE Sso!CheckAccountStatus(r) \/ Sso!IssueSession(r) \/ Sso!Fail(r)
  BY <1>1, <1>5, EndsElsewhere, GoesElsewhere DEF Sso!CheckAccountStatus, Sso!IssueSession, Sso!Fail
<1>6. QED
  BY <1>2, <1>3, <1>4, <1>5

\* The INSERT waits for whoever has inserted, so what it finds is what is committed.
LEMMA InsertLinks ==
  ASSUME SsoBase, LinkInv, NEW r \in Requests, Sso!linkIdentity(r)
  PROVE  LinkInv'
<1>1. UNCHANGED <<provider, link>>
  BY DEF Sso!linkIdentity, Sso!tables, Sso!outside
<1>2. CASE provider = None
  BY <1>1, <1>2, EndsElsewhere, LinkKept DEF Sso!linkIdentity
<1>3. CASE provider # None
  <2>1. Sso!Goes(r, [req[r] EXCEPT !.at = "commit", !.links = Sso!Joins(r)])
    BY <1>3 DEF Sso!linkIdentity
  <2>2. /\ req'[r].at = "commit" /\ req'[r].links = Sso!Joins(r)
        /\ \A q \in Requests \ {r} : req'[q] = req[q]
    BY <2>1 DEF SsoBase, Sso!TypeOK, Sso!Goes
  <2>3. \A q \in Requests : req[q].at # "commit"
    BY DEF Sso!linkIdentity, Sso!HoldsLink
  <2>4. \A q \in Requests : req'[q].at = "commit" => q = r
    BY <2>2, <2>3
  <2>5. (req'[r].links => link' = None) /\ (~req'[r].links => link' # None)
    BY <1>1, <2>2 DEF Sso!Joins
  <2>6. QED
    BY <1>1, <1>3, <2>4, <2>5 DEF LinkInv
<1>4. QED
  BY <1>2, <1>3

LEMMA CommitLinks ==
  ASSUME SsoBase, LinkInv, NEW r \in Requests, Sso!Commit(r)
  PROVE  LinkInv'
<1>1. req[r].at = "commit"
  BY DEF Sso!Commit
<1>2. req'[r].at = "check" /\ \A q \in Requests \ {r} : req'[q] = req[q]
  BY DEF Sso!Commit, Sso!Goes, SsoBase, Sso!TypeOK
<1>3. \A q \in Requests : req'[q].at # "commit"
  BY <1>1, <1>2 DEF LinkInv
<1>4. QED
  BY <1>3 DEF LinkInv

LEMMA LinkStep == SsoBase /\ LinkInv /\ Sso!Next => LinkInv'
<1> SUFFICES ASSUME SsoBase, LinkInv, Sso!Next
             PROVE  LinkInv'
  OBVIOUS
<1>1. ASSUME UNCHANGED req
      PROVE  NobodyCommits
  BY <1>1 DEF NobodyCommits
<1>2. ASSUME NEW r \in Requests, NEW t \in Sso!Starts, Sso!ConsumeState(r, t)
      PROVE  LinkInv'
  <2>1. [Sso!Free EXCEPT !.at = "load", !.state = t].at # "commit"
    BY DEF Sso!Free
  <2>2. NobodyCommits
    BY <1>2, <2>1, GoesElsewhere DEF Sso!ConsumeState
  <2>3. QED
    BY <1>2, <2>2, LinkKept DEF Sso!ConsumeState, Sso!outside
<1>3. ASSUME NEW r \in Requests,
             \/ Sso!LoadProvider(r) \/ Sso!FetchIdentity(r) \/ Sso!FindLink(r)
             \/ Sso!MatchEmail(r) \/ Sso!Provision(r)
             \/ Sso!CheckAccountStatus(r) \/ Sso!IssueSession(r) \/ Sso!Fail(r)
      PROVE  LinkInv'
  <2>1. UNCHANGED <<provider, link>>
    BY <1>3 DEF Sso!LoadProvider, Sso!FetchIdentity, Sso!FindLink, Sso!MatchEmail, Sso!Provision,
       Sso!CheckAccountStatus, Sso!IssueSession, Sso!Fail, Sso!tables, Sso!outside
  <2>2. QED
    BY <1>3, <2>1, OthersElsewhere, LinkKept
<1>4. CASE \/ \E t \in Sso!Starts : Sso!StartSSO(t) \/ Sso!Expire(t)
           \/ \E a \in Addresses : Sso!Signup(a) \/ Sso!Suspend(a)
           \/ Sso!Rename
  BY <1>1, <1>4, LinkKept DEF Sso!StartSSO, Sso!Expire, Sso!Signup, Sso!Suspend, Sso!Rename,
     Sso!tables, Sso!outside
<1>5. CASE Sso!Configure
  <2>1. provider' # None
    BY <1>5, RowsBounds DEF Sso!Configure, Sso!Bounds, Sso!Providers
  <2>2. QED
    BY <1>5, <2>1 DEF Sso!Configure, Sso!outside, LinkInv
<1>6. CASE Sso!DeleteProvider
  BY <1>6 DEF Sso!DeleteProvider, Sso!outside, LinkInv, Sso!HoldsLink
<1>7. QED
  BY <1>2, <1>3, <1>4, <1>5, <1>6, InsertLinks, CommitLinks DEF Sso!Next, Sso!Callback

LEMMA LinkInvariant == Spec => [](site = "sso" => LinkInv)
<1>1. Init => (site = "sso" => LinkInv)
  BY DEF Init, Sso!Init, Sso!Free, LinkInv
<1>2. RowsInv /\ (site = "sso" => LinkInv) /\ [Next]_vars => (site = "sso" => LinkInv)'
  <2> SUFFICES ASSUME RowsInv, site = "sso" => LinkInv, [Next]_vars, site' = "sso"
               PROVE  LinkInv'
    OBVIOUS
  <2>1. CASE SsoStep
    BY <2>1, LinkStep DEF SsoStep, RowsInv, TypeOK, SsoBase
  <2>2. CASE UNCHANGED vars
    BY <2>2 DEF vars, ssoVars, LinkInv
  <2>3. QED
    BY <2>1, <2>2 DEF Next, Ended, SettingsStep, SessionsStep, FactorsStep
<1>3. QED
  BY <1>1, <1>2, RowsInvariant, PTL DEF Spec

-----------------------------------------------------------------------------
(* The session goes to the account that is linked                          *)

\* While nobody takes another address, all callbacks in flight mean the same one,
\* and whatever they find or make is the link.
Agreed == \A r \in Requests :
    /\ req[r].email # None => req[r].email = person.email
    /\ req[r].at \in Sso!InTx => link = None \/ link = person.email
    /\ req[r].at \in {"linking", "commit"} => req[r].subject = person.email
    /\ req[r].at \in {"check", "issue"} => req[r].subject = link

AgreedInv == crossed \/ provider = None \/ Agreed

\* Neither the address nor the link changes, and only r moves.
LEMMA AgreedKept ==
  ASSUME SsoBase, Agreed, UNCHANGED <<person, link>>, NEW r \in Requests, NEW q, Sso!Goes(r, q),
         q.email # None => q.email = person.email,
         q.at \in Sso!InTx => link = None \/ link = person.email,
         q.at \in {"linking", "commit"} => q.subject = person.email,
         q.at \in {"check", "issue"} => q.subject = link
  PROVE  Agreed'
  BY DEF SsoBase, Sso!TypeOK, Agreed, Sso!Goes

LEMMA AgreedEnds ==
  ASSUME SsoBase, Agreed, UNCHANGED <<person, link>>, NEW r \in Requests, Sso!Ends(r)
  PROVE  Agreed'
<1>1. Sso!Free.email = None /\ Sso!Free.at = "free"
  BY DEF Sso!Free
<1>2. QED
  BY <1>1, AgreedKept DEF Sso!Ends, Sso!InTx

LEMMA MatchAgrees ==
  ASSUME SsoBase, Agreed, NEW r \in Requests,
         Sso!FindLink(r) \/ Sso!MatchEmail(r) \/ Sso!Provision(r)
  PROVE  Agreed'
<1>0. UNCHANGED <<person, link>>
  BY DEF Sso!FindLink, Sso!MatchEmail, Sso!Provision, Sso!tables, Sso!outside
<1>1. req[r].email \in Addresses
  BY DEF Sso!FindLink, Sso!MatchEmail, Sso!Provision, SsoBase, Knows, Sso!InTx
<1>2. req[r].email = person.email
  BY <1>1, RowsBounds DEF Agreed, Sso!Bounds
<1>3. CASE Sso!FindLink(r)
  <2>1. CASE link # None
    <3>1. Sso!Goes(r, [req[r] EXCEPT !.at = "check", !.subject = link])
      BY <1>3, <2>1 DEF Sso!FindLink
    <3>2. /\ req'[r].email = req[r].email /\ req'[r].at = "check" /\ req'[r].subject = link
          /\ \A q \in Requests \ {r} : req'[q] = req[q]
      BY <3>1 DEF Sso!Goes, SsoBase, Sso!TypeOK
    <3>3. QED
      BY <1>0, <1>2, <3>2 DEF Agreed, Sso!InTx
  <2>2. CASE link = None
    <3>1. Sso!Goes(r, [req[r] EXCEPT !.at = "match"])
      BY <1>3, <2>2 DEF Sso!FindLink
    <3>2. /\ req'[r].email = req[r].email /\ req'[r].at = "match"
          /\ \A q \in Requests \ {r} : req'[q] = req[q]
      BY <3>1 DEF Sso!Goes, SsoBase, Sso!TypeOK
    <3>3. QED
      BY <1>0, <1>2, <2>2, <3>2 DEF Agreed, Sso!InTx
  <2>3. QED
    BY <2>1, <2>2
<1>4. CASE Sso!MatchEmail(r) \/ Sso!Provision(r)
  <2>0. link = None \/ link = person.email
    BY <1>4 DEF Sso!MatchEmail, Sso!Provision, Agreed, Sso!InTx
  <2>1. ASSUME Sso!Goes(r, [req[r] EXCEPT !.at = "provision"])
        PROVE  Agreed'
    <3>1. /\ req'[r].email = req[r].email /\ req'[r].at = "provision"
          /\ \A q \in Requests \ {r} : req'[q] = req[q]
      BY <2>1 DEF Sso!Goes, SsoBase, Sso!TypeOK
    <3>2. QED
      BY <1>0, <1>2, <2>0, <3>1 DEF Agreed, Sso!InTx
  <2>2. ASSUME Sso!Goes(r, [req[r] EXCEPT !.at = "linking", !.subject = req[r].email])
        PROVE  Agreed'
    <3>1. /\ req'[r].email = req[r].email /\ req'[r].at = "linking"
          /\ req'[r].subject = req[r].email
          /\ \A q \in Requests \ {r} : req'[q] = req[q]
      BY <2>2 DEF Sso!Goes, SsoBase, Sso!TypeOK
    <3>2. QED
      BY <1>0, <1>2, <2>0, <3>1 DEF Agreed, Sso!InTx
  <2>3. ASSUME Sso!Goes(r, [req[r] EXCEPT !.at = "linking", !.subject = req[r].email, !.made = TRUE])
        PROVE  Agreed'
    <3>1. /\ req'[r].email = req[r].email /\ req'[r].at = "linking"
          /\ req'[r].subject = req[r].email
          /\ \A q \in Requests \ {r} : req'[q] = req[q]
      BY <2>3 DEF Sso!Goes, SsoBase, Sso!TypeOK
    <3>2. QED
      BY <1>0, <1>2, <2>0, <3>1 DEF Agreed, Sso!InTx
  <2>4. QED
    BY <1>0, <1>4, <2>1, <2>2, <2>3, AgreedEnds DEF Sso!MatchEmail, Sso!Provision
<1>5. QED
  BY <1>3, <1>4

LEMMA InsertAgrees ==
  ASSUME SsoBase, Agreed, NEW r \in Requests, Sso!linkIdentity(r)
  PROVE  Agreed'
<1>1. UNCHANGED <<person, link>>
  BY DEF Sso!linkIdentity, Sso!tables, Sso!outside
<1>2. CASE provider = None
  BY <1>1, <1>2, AgreedEnds DEF Sso!linkIdentity
<1>3. CASE provider # None
  <2>1. Sso!Goes(r, [req[r] EXCEPT !.at = "commit", !.links = Sso!Joins(r)])
    BY <1>3 DEF Sso!linkIdentity
  <2>2. /\ req'[r].at = "commit" /\ req[r].at = "linking"
        /\ req'[r].email = req[r].email /\ req'[r].subject = req[r].subject
        /\ \A q \in Requests \ {r} : req'[q] = req[q]
    BY <2>1 DEF SsoBase, Sso!TypeOK, Sso!Goes, Sso!linkIdentity
  <2>3. QED
    BY <1>1, <2>2 DEF Agreed, Sso!InTx
<1>4. QED
  BY <1>2, <1>3

LEMMA CommitAgrees ==
  ASSUME SsoBase, LinkInv, Agreed, NEW r \in Requests, Sso!Commit(r)
  PROVE  Agreed'
<1>1. /\ req[r].at = "commit" /\ req[r].links \in BOOLEAN /\ UNCHANGED person
      /\ link' = IF req[r].links THEN req[r].subject ELSE link
  BY DEF Sso!Commit, SsoBase, Sso!TypeOK
<1>2. req[r].subject = person.email /\ (link = None \/ link = person.email)
  BY <1>1 DEF Agreed, Sso!InTx
<1>3. link' = person.email /\ (link # None => link' = link)
  BY <1>1, <1>2 DEF LinkInv
<1>4. /\ req'[r].at = "check" /\ req'[r].subject = req[r].subject
      /\ req'[r].email = req[r].email
      /\ \A q \in Requests \ {r} : req'[q] = req[q]
  BY DEF Sso!Commit, Sso!Goes, SsoBase, Sso!TypeOK
<1>5. \A q \in Requests : req[q].at \in {"check", "issue"} => link # None
  BY RowsBounds DEF Sso!Bounds, Agreed, SsoBase, Knows
<1>6. QED
  BY <1>1, <1>2, <1>3, <1>4, <1>5 DEF Agreed, Sso!InTx

LEMMA AgreedStep == SsoBase /\ LinkInv /\ AgreedInv /\ Sso!Next => AgreedInv'
<1> SUFFICES ASSUME SsoBase, LinkInv, AgreedInv, Sso!Next, ~crossed', provider' # None
             PROVE  Agreed'
  BY DEF AgreedInv
<1>0. Agreed
  <2>1. ~crossed
    BY DEF Sso!Next, Sso!Callback, Sso!ConsumeState, Sso!LoadProvider, Sso!FetchIdentity,
       Sso!FindLink, Sso!MatchEmail, Sso!Provision, Sso!linkIdentity, Sso!Commit,
       Sso!CheckAccountStatus, Sso!IssueSession, Sso!Fail, Sso!StartSSO, Sso!Expire, Sso!Signup,
       Sso!Suspend, Sso!Rename, Sso!Configure, Sso!DeleteProvider, Sso!tables, Sso!outside
  <2>2. provider # None
    BY DEF Sso!Next, Sso!Callback, Sso!ConsumeState, Sso!LoadProvider, Sso!FetchIdentity,
       Sso!FindLink, Sso!MatchEmail, Sso!Provision, Sso!linkIdentity, Sso!Commit,
       Sso!CheckAccountStatus, Sso!IssueSession, Sso!Fail, Sso!StartSSO, Sso!Expire, Sso!Signup,
       Sso!Suspend, Sso!Rename, Sso!Configure, Sso!DeleteProvider, Sso!tables, Sso!outside
  <2>3. QED
    BY <2>1, <2>2 DEF AgreedInv
<1>1. ASSUME NEW r \in Requests, NEW t \in Sso!Starts, Sso!ConsumeState(r, t)
      PROVE  Agreed'
  <2>1. /\ req'[r].at = "load" /\ req'[r].email = None
        /\ \A q \in Requests \ {r} : req'[q] = req[q]
        /\ UNCHANGED <<person, link>>
    BY <1>1 DEF Sso!ConsumeState, Sso!Goes, Sso!Free, SsoBase, Sso!TypeOK, Sso!outside
  <2>2. QED
    BY <1>0, <2>1 DEF Agreed, Sso!InTx
<1>2. ASSUME NEW r \in Requests, Sso!LoadProvider(r)
      PROVE  Agreed'
  <2>1. UNCHANGED <<person, link>> /\ provider # None
    BY <1>2 DEF Sso!LoadProvider, Sso!tables, Sso!outside
  <2>2. Sso!Goes(r, [req[r] EXCEPT !.at = "identify", !.jit = provider.jit])
    BY <1>2, <2>1 DEF Sso!LoadProvider
  <2>3. /\ req'[r].at = "identify" /\ req'[r].email = req[r].email
        /\ \A q \in Requests \ {r} : req'[q] = req[q]
    BY <2>2 DEF Sso!Goes, SsoBase, Sso!TypeOK
  <2>4. QED
    BY <1>0, <2>1, <2>3 DEF Agreed, Sso!InTx
<1>3. ASSUME NEW r \in Requests, Sso!FetchIdentity(r)
      PROVE  Agreed'
  <2>1. /\ req'[r].at = "find" /\ req'[r].email = person.email
        /\ \A q \in Requests \ {r} : req'[q] = req[q]
        /\ UNCHANGED <<person, link>>
    BY <1>3 DEF Sso!FetchIdentity, Sso!Goes, SsoBase, Sso!TypeOK, Sso!tables, Sso!outside
  <2>2. QED
    BY <1>0, <2>1 DEF Agreed, Sso!InTx
<1>4. ASSUME NEW r \in Requests, Sso!CheckAccountStatus(r)
      PROVE  Agreed'
  <2>1. UNCHANGED <<person, link>>
    BY <1>4 DEF Sso!CheckAccountStatus, Sso!tables, Sso!outside
  <2>2. CASE accounts[req[r].subject] = "active"
    <3>1. Sso!Goes(r, [req[r] EXCEPT !.at = "issue"])
      BY <1>4, <2>2 DEF Sso!CheckAccountStatus
    <3>2. /\ req[r].at = "check" /\ req'[r].at = "issue"
          /\ req'[r].email = req[r].email /\ req'[r].subject = req[r].subject
          /\ \A q \in Requests \ {r} : req'[q] = req[q]
      BY <1>4, <3>1 DEF Sso!CheckAccountStatus, Sso!Goes, SsoBase, Sso!TypeOK
    <3>3. QED
      BY <1>0, <2>1, <3>2 DEF Agreed, Sso!InTx
  <2>3. CASE accounts[req[r].subject] # "active"
    BY <1>0, <1>4, <2>1, <2>3, AgreedEnds DEF Sso!CheckAccountStatus
  <2>4. QED
    BY <2>2, <2>3
<1>5. ASSUME NEW r \in Requests, Sso!IssueSession(r) \/ Sso!Fail(r)
      PROVE  Agreed'
  BY <1>0, <1>5, AgreedEnds DEF Sso!IssueSession, Sso!Fail, Sso!tables, Sso!outside
<1>6. CASE Sso!Rename
  <2>1. \A r \in Requests : req[r].email # None => person'.email = req[r].email
    BY <1>6 DEF Sso!Rename
  <2>2. UNCHANGED <<req, link>>
    BY <1>6 DEF Sso!Rename, Sso!tables
  <2>3. \A r \in Requests :
            req[r].at \in {"find", "check", "issue"} \cup Sso!InTx => req[r].email # None
    BY RowsBounds DEF Sso!Bounds, SsoBase, Knows
  <2>4. QED
    BY <1>0, <2>1, <2>2, <2>3 DEF Agreed, Sso!InTx
<1>7. CASE \/ \E t \in Sso!Starts : Sso!StartSSO(t) \/ Sso!Expire(t)
           \/ \E a \in Addresses : Sso!Signup(a) \/ Sso!Suspend(a)
           \/ Sso!Configure
  BY <1>0, <1>7 DEF Sso!StartSSO, Sso!Expire, Sso!Signup, Sso!Suspend, Sso!Configure,
     Sso!outside, Agreed
<1>8. CASE Sso!DeleteProvider
  BY <1>8 DEF Sso!DeleteProvider
<1>9. QED
  BY <1>0, <1>1, <1>2, <1>3, <1>4, <1>5, <1>6, <1>7, <1>8, MatchAgrees, InsertAgrees, CommitAgrees
     DEF Sso!Next, Sso!Callback

LEMMA AgreedInvariant == Spec => [](site = "sso" => AgreedInv)
<1>1. Init => (site = "sso" => AgreedInv)
  <2>1. ASSUME Sso!Init
        PROVE  Agreed
    <3>1. \A r \in Requests : req[r].at = "free" /\ req[r].email = None
      BY <2>1 DEF Sso!Init, Sso!Free
    <3>2. QED
      BY <3>1 DEF Agreed, Sso!InTx
  <2>2. QED
    BY <2>1 DEF Init, AgreedInv
<1>2. /\ RowsInv /\ (site = "sso" => LinkInv) /\ (site = "sso" => AgreedInv)
      /\ [Next]_vars
      => (site = "sso" => AgreedInv)'
  <2> SUFFICES ASSUME RowsInv, site = "sso" => LinkInv, site = "sso" => AgreedInv, [Next]_vars,
                      site' = "sso"
               PROVE  AgreedInv'
    OBVIOUS
  <2>1. CASE SsoStep
    BY <2>1, AgreedStep DEF SsoStep, RowsInv, TypeOK, SsoBase
  <2>2. CASE UNCHANGED vars
    BY <2>2 DEF vars, ssoVars, AgreedInv, Agreed
  <2>3. QED
    BY <2>1, <2>2 DEF Next, Ended, SettingsStep, SessionsStep, FactorsStep
<1>3. QED
  BY <1>1, <1>2, RowsInvariant, LinkInvariant, PTL DEF Spec

\* "Matching is by provider subject first": unless the address changed between two
\* callbacks in flight or the provider is gone, nobody gets a session of another
\* account than the one that is linked.
THEOREM SsoSignsInTheLinked == Spec => []SignsInTheLinked
<1>1. (site = "sso" => AgreedInv) => SignsInTheLinked
  BY DEF AgreedInv, Agreed, SignsInTheLinked, Sso!SignsInTheLinked
<1>2. QED
  BY <1>1, AgreedInvariant, PTL

-----------------------------------------------------------------------------
(* What is made here is linked                                             *)

\* What Commit inserts it links, or finds linked.
LEMMA CommitsLinked ==
  ASSUME SsoBase, LinkInv, AgreedInv, NEW r \in Requests, Sso!Commit(r)
  PROVE  Sso!ProvisionedAreLinked
<1>1. /\ req[r].at = "commit" /\ req[r].links \in BOOLEAN /\ req[r].made \in BOOLEAN
      /\ req[r].subject \in Addresses /\ req[r].email \in Addresses
      /\ link' = IF req[r].links THEN req[r].subject ELSE link
      /\ provisioned' = IF req[r].made THEN provisioned \cup {req[r].email} ELSE provisioned
  BY DEF Sso!Commit, SsoBase, Knows, Sso!TypeOK, Sso!InTx
<1>2. /\ provider # None
      /\ req[r].links => link = None
      /\ ~req[r].links => link # None
  BY <1>1 DEF LinkInv
<1>3. link' # None
  BY <1>1, <1>2, RowsBounds DEF Sso!Bounds
<1>4. ASSUME ~crossed
      PROVE  link' = req[r].email
  <2>1. Agreed
    BY <1>2, <1>4 DEF AgreedInv
  <2>2. /\ req[r].email = person.email /\ req[r].subject = person.email
        /\ link = None \/ link = person.email
    BY <1>1, <2>1, RowsBounds DEF Agreed, Sso!InTx, Sso!Bounds
  <2>3. QED
    BY <1>1, <1>2, <2>2
<1>5. QED
  BY <1>1, <1>2, <1>3, <1>4 DEF Sso!ProvisionedAreLinked

LEMMA LinkedStep == SsoBase /\ LinkInv /\ AgreedInv /\ Sso!Next => Sso!ProvisionedAreLinked
<1> SUFFICES ASSUME SsoBase, LinkInv, AgreedInv, Sso!Next
             PROVE  Sso!ProvisionedAreLinked
  OBVIOUS
<1>1. ASSUME UNCHANGED <<link, provisioned>>
      PROVE  Sso!ProvisionedAreLinked
  BY <1>1 DEF Sso!ProvisionedAreLinked
<1>2. CASE Sso!DeleteProvider
  BY <1>2 DEF Sso!DeleteProvider, Sso!outside, Sso!ProvisionedAreLinked
<1>3. QED
  BY <1>1, <1>2, CommitsLinked DEF Sso!Next, Sso!Callback, Sso!ConsumeState, Sso!LoadProvider,
     Sso!FetchIdentity, Sso!FindLink, Sso!MatchEmail, Sso!Provision, Sso!linkIdentity,
     Sso!CheckAccountStatus, Sso!IssueSession, Sso!Fail, Sso!StartSSO, Sso!Expire, Sso!Signup,
     Sso!Suspend, Sso!Rename, Sso!Configure, Sso!tables, Sso!outside

\* However first sign-ins of one person, sign-ups and the deletion of the provider
\* interleave, an account made here is committed with its link, but for the second
\* one where the address changed in between; and no link moves.
THEOREM SsoProvisionedAreLinked == Spec => ProvisionedAreLinked
<1>1. ASSUME RowsInv, site = "sso" => LinkInv, site = "sso" => AgreedInv, [Next]_vars
      PROVE  [site = "sso" => Sso!ProvisionedAreLinked]_vars
  <2>1. CASE UNCHANGED vars
    BY <2>1
  <2>2. CASE SsoStep
    BY <1>1, <2>2, LinkedStep DEF SsoStep, RowsInv, TypeOK, SsoBase
  <2>3. CASE SettingsStep \/ SessionsStep \/ FactorsStep \/ Ended
    BY <2>3 DEF SettingsStep, SessionsStep, FactorsStep, Ended
  <2>4. QED
    BY <1>1, <2>1, <2>2, <2>3 DEF Next
<1>2. QED
  BY <1>1, RowsInvariant, LinkInvariant, AgreedInvariant, PTL DEF Spec, ProvisionedAreLinked

-----------------------------------------------------------------------------
(* Second factors                                                          *)

USE RowsBounds DEF Mfa!Bounds

-----------------------------------------------------------------------------
(* What a request relies on while it holds its locks                       *)

\* It writes a factor only while it has the row, and revives none.
MarkHolds(r) ==
    /\ req[r].mark = "verified" =>
         /\ req[r].at \in {"marked", "clearing", "cleared", "login"}
         /\ req[r].method \in Methods /\ locks[<<"method", req[r].method>>] = r
         /\ methods[req[r].method].state # "revoked"
    /\ req[r].mark = "revoked" =>
         /\ req[r].at = "removed"
         /\ req[r].method \in Methods /\ locks[<<"method", req[r].method>>] = r

\* What it counted stays counted while it has the account's row.
CountHolds(r) ==
    /\ req[r].at \in {"authorised", "counting", "revoking", "removed"} => req[r].kind = "remove"
    /\ req[r].at \in {"authorised", "proven", "marking", "revoking"} => req[r].method \in Methods
    /\ req[r].at \in {"counting", "revoking", "removed"} =>
         /\ req[r].method \in Methods
         /\ locks[<<"subject", 0>>] = r
    /\ (req[r].at \in {"revoking", "removed"} /\ req[r].required) =>
         \A m \in Methods : \E n \in Methods : n # m /\ methods[n].state = "verified"

\* A set of its own is there, not among those it saw.
CodesHold(r) ==
    /\ req[r].doomed \subseteq 1..generated
    /\ req[r].at \in {"cleared", "login"} =>
         \E n \in 1..generated : locks[<<"codes", n>>] = r /\ n \notin req[r].doomed

\* A set that is not generated yet is nobody's.
FreshCodes == \A n \in 1..MaxSets : n > generated => locks[<<"codes", n>>] = None

FactorInv == /\ FreshCodes
             /\ codeSets \subseteq 1..generated
             /\ (\E m \in Methods : methods[m].state = "verified") => codeSets # {}
             /\ \A r \in Requests : MarkHolds(r) /\ CountHolds(r) /\ CodesHold(r)

\* The locks of the others are left alone.
KeepsLocks(r) == \A x \in Mfa!Rows : locks[x] \notin {None, r} => locks'[x] = locks[x]

\* The Cardinality of the instance is that of the library's theorems.
LEMMA CountsAlike ==
  ASSUME NEW S
  PROVE  Mfa!Cardinality(S) = Cardinality(S)
  BY DEF Mfa!Cardinality, Cardinality

LEMMA TheRows ==
  /\ \A m \in Methods : <<"method", m>> \in Mfa!Rows
  /\ <<"subject", 0>> \in Mfa!Rows
  /\ \A n \in 1..MaxSets : <<"codes", n>> \in Mfa!Rows
  BY DEF Mfa!Rows, Mfa!Sets

LEMMA FactorFields ==
  ASSUME Mfa!TypeOK
  PROVE  /\ generated \in Nat /\ generated <= MaxSets /\ MaxSets \in Nat
         /\ None \notin Requests
         /\ \A r \in Requests : /\ req[r].mark \in {"none", "verified", "revoked"}
                                /\ req[r].method \in Methods \cup {None}
                                /\ req[r].required \in BOOLEAN /\ req[r].primary \in BOOLEAN
         /\ \A m \in Methods :
                methods[m].state \in {"absent", "pending", "verified", "revoked"}
  BY DEF Mfa!TypeOK, Mfa!Request, Mfa!Method

LEMMA LocksKept ==
  ASSUME Mfa!TypeOK, FreshCodes, NEW r \in Requests, UNCHANGED generated,
         \/ UNCHANGED locks \/ Mfa!Release(r)
         \/ Mfa!Take(r, <<"subject", 0>>) \/ \E m \in Methods : Mfa!Take(r, <<"method", m>>)
  PROVE  KeepsLocks(r) /\ FreshCodes'
<1>1. CASE UNCHANGED locks
  BY <1>1 DEF KeepsLocks, FreshCodes
<1>2. CASE Mfa!Release(r)
  BY <1>2, TheRows DEF KeepsLocks, FreshCodes, Mfa!Release
<1>3. ASSUME NEW x, \A n \in 1..MaxSets : x # <<"codes", n>>, Mfa!Take(r, x)
      PROVE  KeepsLocks(r) /\ FreshCodes'
  <2>1. KeepsLocks(r)
    BY <1>3 DEF KeepsLocks, Mfa!Take, Mfa!TypeOK
  <2>2. \A n \in 1..MaxSets : locks'[<<"codes", n>>] = locks[<<"codes", n>>]
    BY <1>3, TheRows DEF Mfa!Take, Mfa!TypeOK
  <2>3. QED
    BY <2>1, <2>2 DEF FreshCodes
<1>4. ASSUME NEW n \in 1..MaxSets
      PROVE  /\ <<"subject", 0>> # <<"codes", n>>
             /\ \A m \in Methods : <<"method", m>> # <<"codes", n>>
  OBVIOUS
<1>5. QED
  BY <1>1, <1>2, <1>3, <1>4

\* ApplyMark, factor by factor.
LEMMA MarkApplied ==
  ASSUME Mfa!TypeOK, NEW r \in Requests, Mfa!ApplyMark(r)
  PROVE  \A m \in Methods :
            methods'[m].state = IF m # req[r].method \/ req[r].mark = "none"
                                THEN methods[m].state ELSE req[r].mark
  BY DEF Mfa!ApplyMark

\* A step of r disturbs nothing another request relies on.
LEMMA OthersRely ==
  ASSUME Mfa!TypeOK, FactorInv, NEW r \in Requests, NEW q \in Requests, q # r,
         req'[q] = req[q], KeepsLocks(r), UNCHANGED methods \/ Mfa!ApplyMark(r),
         generated' \in {generated, generated + 1}
  PROVE  MarkHolds(q)' /\ CountHolds(q)' /\ CodesHold(q)'
<1>1. /\ MarkHolds(q) /\ CountHolds(q) /\ CodesHold(q)
      /\ MarkHolds(r) /\ CountHolds(r)
      /\ q \notin {None, r}
  BY FactorFields DEF FactorInv
<1>2. \A x \in Mfa!Rows : locks[x] = q => locks'[x] = q
  BY <1>1 DEF KeepsLocks
<1>3. ASSUME NEW m \in Methods, locks[<<"method", m>>] = q
      PROVE  methods'[m].state = methods[m].state
  BY <1>1, <1>3, MarkApplied, FactorFields DEF MarkHolds
<1>4. MarkHolds(q)'
  BY <1>1, <1>2, <1>3, TheRows DEF MarkHolds
<1>5. ASSUME locks[<<"subject", 0>>] = q, NEW m \in Methods, methods[m].state = "verified"
      PROVE  methods'[m].state = "verified"
  BY <1>1, <1>5, MarkApplied, FactorFields DEF MarkHolds, CountHolds
<1>6. CountHolds(q)'
  BY <1>1, <1>2, <1>5, TheRows DEF CountHolds
<1>7. CodesHold(q)'
  <2>1. 1..generated \subseteq 1..generated'
    BY FactorFields
  <2>2. \A n \in 1..generated : <<"codes", n>> \in Mfa!Rows
    <3>1. \A n \in 1..generated : n \in 1..MaxSets
      BY FactorFields
    <3>2. QED
      BY <3>1, TheRows
  <2>3. req[q].doomed \subseteq 1..generated'
    BY <1>1, <2>1 DEF CodesHold
  <2>4. ASSUME req[q].at \in {"cleared", "login"}
        PROVE  \E n \in 1..generated' : locks'[<<"codes", n>>] = q /\ n \notin req[q].doomed
    <3>1. PICK n \in 1..generated : locks[<<"codes", n>>] = q /\ n \notin req[q].doomed
      BY <1>1, <2>4 DEF CodesHold
    <3>2. n \in 1..generated' /\ locks'[<<"codes", n>>] = q
      BY <1>2, <2>1, <2>2, <3>1
    <3>3. QED
      BY <3>1, <3>2
  <2>5. QED
    BY <2>3, <2>4 DEF CodesHold
<1>8. QED
  BY <1>4, <1>6, <1>7

\* So what is left to show of a step that makes no factor count and drops no codes.
LEMMA FactorMoves ==
  ASSUME Mfa!TypeOK, FactorInv, NEW r \in Requests,
         \A q \in Requests \ {r} : req'[q] = req[q], KeepsLocks(r),
         UNCHANGED <<methods, codeSets>>, generated' \in {generated, generated + 1},
         FreshCodes', MarkHolds(r)', CountHolds(r)', CodesHold(r)'
  PROVE  FactorInv'
<1>1. \A q \in Requests : MarkHolds(q)' /\ CountHolds(q)' /\ CodesHold(q)'
  BY OthersRely
<1>2. codeSets' \subseteq 1..generated'
  BY FactorFields DEF FactorInv
<1>3. QED
  BY <1>1, <1>2 DEF FactorInv

LEMMA IdleRelies ==
  ASSUME NEW r \in Requests, req'[r] = Mfa!Idle
  PROVE  MarkHolds(r)' /\ CountHolds(r)' /\ CodesHold(r)'
  BY DEF Mfa!Idle, MarkHolds, CountHolds, CodesHold

-----------------------------------------------------------------------------
(* The steps                                                               *)

LEMMA FactorStep == Mfa!TypeOK /\ FactorInv /\ Mfa!Next => FactorInv'
<1> SUFFICES ASSUME Mfa!TypeOK, FactorInv, Mfa!Next
             PROVE  FactorInv'
  OBVIOUS
<1>0. FreshCodes /\ \A r \in Requests : MarkHolds(r) /\ CountHolds(r) /\ CodesHold(r)
  BY DEF FactorInv
<1>1. ASSUME NEW m \in Methods, Mfa!StartTOTPEnrollment(m)
      PROVE  FactorInv'
  <2>1. /\ UNCHANGED <<codeSets, generated, locks, req>>
        /\ \A n \in Methods : /\ methods'[n].state = "verified" <=> methods[n].state = "verified"
                              /\ methods'[n].state = "revoked" <=> methods[n].state = "revoked"
    BY <1>1 DEF Mfa!StartTOTPEnrollment, Mfa!TypeOK, Mfa!Method
  <2>2. \A r \in Requests : MarkHolds(r)' /\ CountHolds(r)' /\ CodesHold(r)'
    BY <1>0, <2>1 DEF MarkHolds, CountHolds, CodesHold
  <2>3. QED
    BY <2>1, <2>2 DEF FactorInv, FreshCodes
<1>2. CASE Mfa!SetPolicy
  <2>1. UNCHANGED <<methods, codeSets, generated, locks, req>>
    BY <1>2 DEF Mfa!SetPolicy
  <2>2. \A r \in Requests : MarkHolds(r)' /\ CountHolds(r)' /\ CodesHold(r)'
    BY <1>0, <2>1 DEF MarkHolds, CountHolds, CodesHold
  <2>3. QED
    BY <2>1, <2>2 DEF FactorInv, FreshCodes
<1>3. ASSUME NEW r \in Requests, NEW m \in Methods,
             \/ Mfa!ProvePossession(r, m, "verify") \/ Mfa!ProvePossession(r, m, "enrol")
             \/ Mfa!AuthoriseRemoval(r, m)
      PROVE  FactorInv'
  <2>1. /\ UNCHANGED <<methods, codeSets, generated, locks>>
        /\ \A q \in Requests \ {r} : req'[q] = req[q]
    BY <1>3 DEF Mfa!ProvePossession, Mfa!AuthoriseRemoval, Mfa!TypeOK
  <2>2. /\ req'[r].mark = "none" /\ req'[r].doomed = {} /\ req'[r].method = m
        /\ \/ req'[r].at = "proven"
           \/ req'[r].at = "authorised" /\ req'[r].kind = "remove"
    <3>1. ASSUME NEW kind, Mfa!ProvePossession(r, m, kind)
          PROVE  /\ req'[r].mark = "none" /\ req'[r].doomed = {} /\ req'[r].method = m
                 /\ req'[r].at = "proven"
      BY <3>1 DEF Mfa!ProvePossession, Mfa!Idle, Mfa!TypeOK
    <3>2. ASSUME Mfa!AuthoriseRemoval(r, m)
          PROVE  /\ req'[r].mark = "none" /\ req'[r].doomed = {} /\ req'[r].method = m
                 /\ req'[r].at = "authorised" /\ req'[r].kind = "remove"
      BY <3>2 DEF Mfa!AuthoriseRemoval, Mfa!Idle, Mfa!TypeOK
    <3>3. QED
      BY <1>3, <3>1, <3>2
  <2>3. MarkHolds(r)' /\ CountHolds(r)' /\ CodesHold(r)'
    BY <2>2 DEF MarkHolds, CountHolds, CodesHold
  <2>4. QED
    BY <1>0, <2>1, <2>3, LocksKept, FactorMoves
<1>4. ASSUME NEW r \in Requests, Mfa!VerifySnapshot(r)
      PROVE  FactorInv'
  <2>1. /\ UNCHANGED <<methods, codeSets, generated, locks>>
        /\ \A q \in Requests \ {r} : req'[q] = req[q]
        /\ req[r].at = "proven" /\ req'[r].at = "marking"
        /\ req'[r].mark = req[r].mark /\ req'[r].doomed = req[r].doomed
        /\ req'[r].method = req[r].method
    BY <1>4 DEF Mfa!VerifySnapshot, Mfa!TypeOK, Mfa!Request
  <2>2. MarkHolds(r)' /\ CountHolds(r)' /\ CodesHold(r)'
    <3>1. MarkHolds(r)'
      BY <1>0, <2>1 DEF MarkHolds
    <3>2. CountHolds(r)'
      BY <1>0, <2>1 DEF CountHolds
    <3>3. CodesHold(r)'
      BY <1>0, <2>1 DEF CodesHold
    <3>4. QED
      BY <3>1, <3>2, <3>3
  <2>3. QED
    BY <1>0, <2>1, <2>2, LocksKept, FactorMoves
<1>5. ASSUME NEW r \in Requests, Mfa!VerifyMFAMethod(r) \/ Mfa!RevokeMFAMethod(r)
      PROVE  FactorInv'
  <2>1. PICK m \in Methods : m = req[r].method
    BY <1>0, <1>5 DEF CountHolds, Mfa!VerifyMFAMethod, Mfa!RevokeMFAMethod
  <2>2. /\ UNCHANGED <<methods, codeSets, generated>>
        /\ \A q \in Requests \ {r} : req'[q] = req[q]
        /\ req'[r].method = m /\ req'[r].doomed = req[r].doomed
        /\ req'[r].kind = req[r].kind /\ req'[r].required = req[r].required
        /\ Mfa!Take(r, <<"method", m>>)
    BY <1>5, <2>1 DEF Mfa!VerifyMFAMethod, Mfa!RevokeMFAMethod, Mfa!TypeOK, Mfa!Request
  <2>3. /\ locks'[<<"method", m>>] = r
        /\ \A x \in Mfa!Rows : locks[x] = r => locks'[x] = r
    BY <2>2, TheRows DEF Mfa!Take, Mfa!TypeOK
  <2>4. \/ /\ req[r].at = "marking" /\ req'[r].at = "marked"
           /\ req'[r].mark = "none" \/ (req'[r].mark = "verified" /\ methods[m].state # "revoked")
        \/ /\ req[r].at = "revoking" /\ req'[r].at = "removed"
           /\ req'[r].mark \in {"none", "revoked"}
    BY <1>5, <2>1 DEF Mfa!VerifyMFAMethod, Mfa!RevokeMFAMethod, Mfa!TypeOK, Mfa!Request
  <2>5. MarkHolds(r)' /\ CodesHold(r)'
    BY <1>0, <2>2, <2>3, <2>4 DEF MarkHolds, CodesHold
  <2>6. CountHolds(r)'
    BY <1>0, <2>1, <2>2, <2>3, <2>4, TheRows DEF CountHolds
  <2>7. KeepsLocks(r) /\ FreshCodes'
    BY <1>0, <2>2, LocksKept
  <2>8. QED
    BY <2>2, <2>5, <2>6, <2>7, FactorMoves
<1>6. ASSUME NEW r \in Requests, Mfa!Regenerate(r)
      PROVE  FactorInv'
  <2>1. /\ UNCHANGED <<methods, codeSets, generated, locks>>
        /\ \A q \in Requests \ {r} : req'[q] = req[q]
        /\ req'[r].at = "marked" /\ req'[r].mark = "none" /\ req'[r].doomed = {}
    BY <1>6 DEF Mfa!Regenerate, Mfa!Idle, Mfa!TypeOK
  <2>2. MarkHolds(r)' /\ CountHolds(r)' /\ CodesHold(r)'
    BY <2>1 DEF MarkHolds, CountHolds, CodesHold
  <2>3. QED
    BY <1>0, <2>1, <2>2, LocksKept, FactorMoves
<1>7. ASSUME NEW r \in Requests, Mfa!ReplaceSnapshot(r)
      PROVE  FactorInv'
  <2>1. /\ UNCHANGED <<methods, codeSets, generated, locks>>
        /\ \A q \in Requests \ {r} : req'[q] = req[q]
        /\ req[r].at = "marked" /\ req'[r].at = "clearing" /\ req'[r].mark = req[r].mark
        /\ req'[r].doomed = codeSets /\ req'[r].method = req[r].method
    BY <1>7 DEF Mfa!ReplaceSnapshot, Mfa!TypeOK, Mfa!Request
  <2>2. MarkHolds(r)' /\ CountHolds(r)' /\ CodesHold(r)'
    BY <1>0, <2>1 DEF FactorInv, MarkHolds, CountHolds, CodesHold
  <2>3. QED
    BY <1>0, <2>1, <2>2, LocksKept, FactorMoves
<1>8. ASSUME NEW r \in Requests, Mfa!ReplaceRecoveryCodes(r)
      PROVE  FactorInv'
  <2>1. /\ UNCHANGED <<methods, codeSets>> /\ generated' = generated + 1 /\ generated < MaxSets
        /\ \A q \in Requests \ {r} : req'[q] = req[q]
        /\ req[r].at = "clearing" /\ req'[r].at = "cleared" /\ req'[r].mark = req[r].mark
        /\ req'[r].doomed = req[r].doomed /\ req'[r].method = req[r].method
    BY <1>8 DEF Mfa!ReplaceRecoveryCodes, Mfa!Goto, Mfa!TypeOK, Mfa!Request
  <2>2. PICK n \in Nat : n = generated + 1
    BY FactorFields
  <2>3. <<"codes", n>> \in Mfa!Rows
    BY <2>1, <2>2, FactorFields, TheRows
  <2>4. locks'[<<"codes", n>>] = r
    BY <1>8, <2>2, <2>3 DEF Mfa!ReplaceRecoveryCodes
  <2>5. \A m \in Methods : locks'[<<"method", m>>] = locks[<<"method", m>>]
    BY <1>8, TheRows DEF Mfa!ReplaceRecoveryCodes
  <2>6. n \notin req[r].doomed /\ n \in 1..generated'
    BY <1>0, <2>1, <2>2, FactorFields DEF CodesHold
  <2>7. MarkHolds(r)' /\ CountHolds(r)'
    BY <1>0, <2>1, <2>5 DEF MarkHolds, CountHolds
  <2>8. CodesHold(r)'
    <3>1. req'[r].doomed \subseteq 1..generated'
      BY <1>0, <2>1, FactorFields DEF CodesHold
    <3>2. QED
      BY <2>1, <2>4, <2>6, <3>1 DEF CodesHold
  <2>9. KeepsLocks(r)
    <3>1. ASSUME NEW x \in Mfa!Rows, locks[x] \notin {None, r}
          PROVE  locks'[x] = locks[x]
      <4>1. CASE x[1] = "codes" /\ x[2] \in (req[r].doomed \cap codeSets) \cup {n}
        <5>1. x = <<"codes", x[2]>>
          BY <4>1 DEF Mfa!Rows
        <5>2. locks[<<"codes", n>>] = None
          BY <1>0, <2>1, <2>2, FactorFields DEF FreshCodes
        <5>3. \A k \in req[r].doomed : locks[<<"codes", k>>] \in {None, r}
          BY <1>8 DEF Mfa!ReplaceRecoveryCodes
        <5>4. QED
          BY <3>1, <4>1, <5>1, <5>2, <5>3
      <4>2. CASE ~(x[1] = "codes" /\ x[2] \in (req[r].doomed \cap codeSets) \cup {n})
        BY <1>8, <2>2, <4>2 DEF Mfa!ReplaceRecoveryCodes
      <4>3. QED
        BY <4>1, <4>2
    <3>2. QED
      BY <3>1 DEF KeepsLocks
  <2>10. FreshCodes'
    <3>1. ASSUME NEW k \in 1..MaxSets, k > n
          PROVE  locks'[<<"codes", k>>] = None
      <4>1. locks[<<"codes", k>>] = None
        BY <1>0, <2>2, <3>1, FactorFields DEF FreshCodes
      <4>2. k \notin req[r].doomed /\ k # n
        BY <1>0, <2>2, <3>1, FactorFields DEF CodesHold
      <4>3. QED
        BY <1>8, <2>2, <4>1, <4>2, TheRows DEF Mfa!ReplaceRecoveryCodes
    <3>2. QED
      BY <2>1, <2>2, <3>1 DEF FreshCodes
  <2>11. QED
    BY <2>1, <2>7, <2>8, <2>9, <2>10, FactorMoves
<1>9. ASSUME NEW r \in Requests, Mfa!RecordLogin(r) \/ Mfa!LockSubject(r)
      PROVE  FactorInv'
  <2>1. /\ UNCHANGED <<methods, codeSets, generated>>
        /\ \A q \in Requests \ {r} : req'[q] = req[q]
        /\ req'[r].mark = req[r].mark /\ req'[r].doomed = req[r].doomed
        /\ req'[r].method = req[r].method /\ req'[r].kind = req[r].kind
        /\ req'[r].required = req[r].required
        /\ Mfa!Take(r, <<"subject", 0>>)
        /\ \/ req[r].at = "cleared" /\ req'[r].at = "login"
           \/ req[r].at = "authorised" /\ req'[r].at = "counting"
    BY <1>9 DEF Mfa!RecordLogin, Mfa!LockSubject, Mfa!Goto, Mfa!Subject, Mfa!TypeOK, Mfa!Request
  <2>2. /\ locks'[<<"subject", 0>>] = r
        /\ \A x \in Mfa!Rows : locks[x] = r => locks'[x] = r
    BY <2>1, TheRows DEF Mfa!Take, Mfa!TypeOK
  <2>3. MarkHolds(r)'
    BY <1>0, <2>1, <2>2, TheRows DEF MarkHolds
  <2>4. CountHolds(r)'
    BY <1>0, <2>1, <2>2 DEF CountHolds
  <2>5. CodesHold(r)'
    <3>1. req'[r].doomed \subseteq 1..generated'
      BY <1>0, <2>1 DEF CodesHold
    <3>2. ASSUME req[r].at = "cleared"
          PROVE  \E n \in 1..generated : locks'[<<"codes", n>>] = r /\ n \notin req[r].doomed
      <4>1. PICK n \in 1..generated : locks[<<"codes", n>>] = r /\ n \notin req[r].doomed
        BY <1>0, <3>2 DEF CodesHold
      <4>2. <<"codes", n>> \in Mfa!Rows
        BY FactorFields, TheRows
      <4>3. QED
        BY <2>2, <4>1, <4>2
    <3>3. QED
      BY <2>1, <3>1, <3>2 DEF CodesHold
  <2>6. QED
    BY <1>0, <2>1, <2>3, <2>4, <2>5, LocksKept, FactorMoves
<1>10. ASSUME NEW r \in Requests, Mfa!Release(r), req' = [req EXCEPT ![r] = Mfa!Idle],
              UNCHANGED <<methods, codeSets, generated>>
       PROVE  FactorInv'
  <2>1. req'[r] = Mfa!Idle /\ \A q \in Requests \ {r} : req'[q] = req[q]
    BY <1>10 DEF Mfa!TypeOK
  <2>2. MarkHolds(r)' /\ CountHolds(r)' /\ CodesHold(r)'
    BY <2>1, IdleRelies
  <2>3. QED
    BY <1>0, <1>10, <2>1, <2>2, LocksKept, FactorMoves
<1>11. ASSUME NEW r \in Requests, Mfa!CountVerified(r)
       PROVE  FactorInv'
  <2>1. CASE req[r].required /\ Mfa!Cardinality(Mfa!Verified) <= 1
    <3>1. /\ Mfa!Release(r) /\ req' = [req EXCEPT ![r] = Mfa!Idle]
          /\ UNCHANGED <<methods, codeSets, generated>>
      BY <1>11, <2>1 DEF Mfa!CountVerified
    <3>2. QED
      BY <1>10, <3>1
  <2>2. CASE ~(req[r].required /\ Mfa!Cardinality(Mfa!Verified) <= 1)
    <3>0. /\ req[r].at = "counting" /\ req' = [req EXCEPT ![r].at = "revoking"]
          /\ UNCHANGED <<methods, codeSets, generated, locks>>
      BY <1>11, <2>2 DEF Mfa!CountVerified, Mfa!Goto
    <3>1. /\ \A q \in Requests \ {r} : req'[q] = req[q]
          /\ req'[r].at = "revoking"
          /\ req'[r].mark = req[r].mark /\ req'[r].doomed = req[r].doomed
          /\ req'[r].method = req[r].method /\ req'[r].kind = req[r].kind
          /\ req'[r].required = req[r].required
      BY <3>0 DEF Mfa!TypeOK, Mfa!Request
    <3>2. ASSUME req[r].required, NEW m \in Methods
          PROVE  \E n \in Methods : n # m /\ methods[n].state = "verified"
      <4>1. SUFFICES ASSUME \A n \in Methods : methods[n].state = "verified" => n = m
                     PROVE  FALSE
        OBVIOUS
      <4>2. Mfa!Verified = {} \/ Mfa!Verified = {m}
        BY <4>1 DEF Mfa!Verified
      <4>3. Mfa!Cardinality(Mfa!Verified) \in {0, 1}
        BY <4>2, FS_EmptySet, FS_Singleton, CountsAlike
      <4>4. QED
        BY <2>2, <3>2, <4>3
    <3>3. MarkHolds(r)' /\ CountHolds(r)' /\ CodesHold(r)'
      <4>1. MarkHolds(r)'
        BY <1>0, <3>0, <3>1 DEF MarkHolds
      <4>2. CountHolds(r)'
        BY <1>0, <3>0, <3>1, <3>2 DEF CountHolds
      <4>3. CodesHold(r)'
        BY <1>0, <3>0, <3>1 DEF CodesHold
      <4>4. QED
        BY <4>1, <4>2, <4>3
    <3>4. QED
      BY <1>0, <3>0, <3>1, <3>3, LocksKept, FactorMoves
  <2>3. QED
    BY <2>1, <2>2
\* The commits: the factor that is written is the one the request holds.
<1>12. ASSUME NEW r \in Requests, Mfa!CommitReplace(r) \/ Mfa!CommitRemoval(r)
       PROVE  FactorInv'
  <2>1. /\ req'[r] = Mfa!Idle /\ \A q \in Requests \ {r} : req'[q] = req[q]
        /\ Mfa!ApplyMark(r) /\ Mfa!Release(r) /\ generated' = generated
    BY <1>12 DEF Mfa!CommitReplace, Mfa!CommitRemoval, Mfa!TypeOK
  <2>2. KeepsLocks(r) /\ FreshCodes'
    BY <1>0, <2>1, LocksKept
  <2>3. \A q \in Requests : MarkHolds(q)' /\ CountHolds(q)' /\ CodesHold(q)'
    BY <2>1, <2>2, OthersRely, IdleRelies
  <2>4. /\ codeSets' \subseteq 1..generated'
        /\ (\E m \in Methods : methods'[m].state = "verified") => codeSets' # {}
    <3>1. CASE Mfa!CommitReplace(r)
      <4>1. req[r].at \in {"cleared", "login"}
        BY <3>1 DEF Mfa!CommitReplace
      <4>2. PICK n \in 1..generated : locks[<<"codes", n>>] = r /\ n \notin req[r].doomed
        BY <1>0, <4>1 DEF CodesHold
      <4>3. n \in codeSets'
        BY <3>1, <4>2, FactorFields DEF Mfa!CommitReplace, Mfa!Sets
      <4>4. \A k \in 1..MaxSets : locks[<<"codes", k>>] = r => k \in 1..generated
        BY <1>0, FactorFields DEF FreshCodes
      <4>5. QED
        BY <2>1, <3>1, <4>3, <4>4 DEF FactorInv, Mfa!CommitReplace, Mfa!Sets
    <3>2. CASE Mfa!CommitRemoval(r)
      <4>1. req[r].mark # "verified" /\ codeSets' = codeSets
        BY <1>0, <3>2 DEF MarkHolds, Mfa!CommitRemoval
      <4>2. \A m \in Methods : methods'[m].state = "verified" => methods[m].state = "verified"
        BY <2>1, <4>1, MarkApplied
      <4>3. QED
        BY <2>1, <4>1, <4>2 DEF FactorInv
    <3>3. QED
      BY <1>12, <3>1, <3>2
  <2>5. QED
    BY <2>2, <2>3, <2>4 DEF FactorInv
<1>13. QED
  BY <1>1, <1>2, <1>3, <1>4, <1>5, <1>6, <1>7, <1>8, <1>9, <1>10, <1>11, <1>12
     DEF Mfa!Next, Mfa!DeadlockAbort, Mfa!Disconnect, Mfa!Rollback

LEMMA FactorInvariant == Spec => [](site = "factors" => FactorInv)
<1>1. Init => (site = "factors" => FactorInv)
  <2> SUFFICES ASSUME Mfa!Init
               PROVE  FactorInv
    BY DEF Init
  <2>1. /\ codeSets = {} /\ \A m \in Methods : methods[m].state = "absent"
        /\ \A x \in Mfa!Rows : locks[x] = None
    BY DEF Mfa!Init
  <2>2. \A r \in Requests : req[r] = Mfa!Idle
    BY DEF Mfa!Init
  <2>3. \A r \in Requests : MarkHolds(r) /\ CountHolds(r) /\ CodesHold(r)
    <3>1. ASSUME NEW r \in Requests
          PROVE  req[r].at = "idle" /\ req[r].mark = "none" /\ req[r].doomed = {}
      BY <2>2 DEF Mfa!Idle
    <3>2. QED
      BY <3>1 DEF MarkHolds, CountHolds, CodesHold
  <2>4. FreshCodes
    BY <2>1, TheRows DEF FreshCodes
  <2>5. QED
    BY <2>1, <2>3, <2>4 DEF FactorInv
<1>2. RowsInv /\ (site = "factors" => FactorInv) /\ [Next]_vars => (site = "factors" => FactorInv)'
  <2> SUFFICES ASSUME RowsInv, site = "factors" => FactorInv, [Next]_vars, site' = "factors"
               PROVE  FactorInv'
    OBVIOUS
  <2>1. CASE FactorsStep
    BY <2>1, FactorStep DEF FactorsStep, RowsInv, TypeOK
  <2>2. CASE UNCHANGED vars
    <3>1. UNCHANGED <<methods, codeSets, generated, locks, req>> /\ FactorInv
      BY <2>2 DEF vars, factorVars
    <3>2. \A r \in Requests : MarkHolds(r)' /\ CountHolds(r)' /\ CodesHold(r)'
      BY <3>1 DEF FactorInv, MarkHolds, CountHolds, CodesHold
    <3>3. QED
      BY <3>1, <3>2 DEF FactorInv, FreshCodes
  <2>3. QED
    BY <2>1, <2>2 DEF Next, Ended, SettingsStep, SessionsStep, SsoStep
<1>3. QED
  BY <1>1, <1>2, RowsInvariant, PTL DEF Spec

-----------------------------------------------------------------------------
(* What the owner of the account gets                                      *)

\* An account with a factor has recovery codes, whatever replacements overlap.
THEOREM CodesForEveryFactor == Spec => []AlwaysSomeCodes
<1>1. (site = "factors" => FactorInv) => AlwaysSomeCodes
  BY DEF FactorInv, AlwaysSomeCodes, Mfa!AlwaysSomeCodes, Mfa!Verified
<1>2. QED
  BY <1>1, FactorInvariant, PTL

LEMMA RemovalStep ==
  ASSUME Mfa!TypeOK, FactorInv, Mfa!Next
  PROVE  Mfa!RemovalHolds
<1>0. \A r \in Requests : MarkHolds(r) /\ CountHolds(r)
  BY DEF FactorInv
<1>1. CASE UNCHANGED methods
  BY <1>1 DEF Mfa!RemovalHolds, Mfa!Verified
<1>2. ASSUME NEW m \in Methods, Mfa!StartTOTPEnrollment(m)
      PROVE  Mfa!RemovalHolds
  <2>1. \A n \in Methods : /\ methods[n].state = "verified" => methods'[n].state = "verified"
                           /\ methods[n].state = "revoked" => methods'[n].state = "revoked"
    BY <1>2 DEF Mfa!StartTOTPEnrollment, Mfa!TypeOK, Mfa!Method
  <2>2. QED
    BY <2>1 DEF Mfa!RemovalHolds, Mfa!Verified
<1>3. ASSUME NEW r \in Requests, Mfa!ApplyMark(r)
      PROVE  \A m \in Methods : methods[m].state = "revoked" => methods'[m].state = "revoked"
  <2>1. SUFFICES ASSUME NEW m \in Methods, methods[m].state = "revoked",
                        m = req[r].method, req[r].mark # "none"
                 PROVE  req[r].mark = "revoked"
    BY <1>3, MarkApplied
  <2>2. QED
    BY <1>0, <2>1, FactorFields DEF MarkHolds
<1>4. ASSUME NEW r \in Requests, Mfa!CommitReplace(r)
      PROVE  Mfa!RemovalHolds
  <2>1. Mfa!ApplyMark(r) /\ req[r].mark # "revoked"
    BY <1>0, <1>4 DEF Mfa!CommitReplace, MarkHolds
  <2>2. \A m \in Methods : methods[m].state = "verified" => methods'[m].state = "verified"
    BY <2>1, MarkApplied, FactorFields
  <2>3. QED
    BY <1>3, <2>1, <2>2 DEF Mfa!RemovalHolds, Mfa!Verified
<1>5. ASSUME NEW r \in Requests, Mfa!CommitRemoval(r)
      PROVE  Mfa!RemovalHolds
  <2>1. Mfa!ApplyMark(r) /\ req[r].at = "removed" /\ req[r].kind = "remove"
    BY <1>0, <1>5 DEF Mfa!CommitRemoval, CountHolds
  <2>2. CASE ~req[r].required
    BY <1>3, <1>5, <2>1, <2>2 DEF Mfa!RemovalHolds
  <2>3. CASE req[r].required
    <3>1. PICK n \in Methods : n # req[r].method /\ methods[n].state = "verified"
      BY <1>0, <2>1, <2>3 DEF CountHolds
    <3>2. methods'[n].state = "verified"
      BY <2>1, <3>1, MarkApplied
    <3>3. QED
      BY <1>3, <2>1, <3>2 DEF Mfa!RemovalHolds, Mfa!Verified
  <2>4. QED
    BY <2>2, <2>3, FactorFields
<1>6. QED
  BY <1>1, <1>2, <1>4, <1>5 DEF Mfa!Next, Mfa!ProvePossession, Mfa!AuthoriseRemoval,
     Mfa!VerifySnapshot, Mfa!VerifyMFAMethod, Mfa!Regenerate, Mfa!ReplaceSnapshot,
     Mfa!ReplaceRecoveryCodes, Mfa!RecordLogin, Mfa!LockSubject, Mfa!CountVerified,
     Mfa!RevokeMFAMethod, Mfa!DeadlockAbort, Mfa!Disconnect, Mfa!Rollback, Mfa!SetPolicy

\* "You cannot remove your last factor": only a removal authorised while none
\* was required leaves the account without; and a removed factor never counts again.
THEOREM RemovalsHoldAlways == Spec => RemovalsHold
<1>1. RowsInv /\ (site = "factors" => FactorInv) /\ [Next]_vars
      => [site = "factors" => Mfa!RemovalHolds]_vars
  <2> SUFFICES ASSUME RowsInv, FactorInv, site = "factors", Next
               PROVE  Mfa!RemovalHolds
    OBVIOUS
  <2>1. Mfa!TypeOK /\ Mfa!Next
    BY DEF RowsInv, TypeOK, Next, Ended, SettingsStep, SessionsStep, FactorsStep, SsoStep
  <2>2. QED
    BY <2>1, RemovalStep
<1>2. QED
  BY <1>1, RowsInvariant, FactorInvariant, PTL DEF Spec, RemovalsHold

-----------------------------------------------------------------------------
(* Settings and sessions                                                   *)

HIDE DEF Mfa!Bounds
USE RowsBounds, StoreBounds DEF Settings!Bounds, Sess!Bounds

-----------------------------------------------------------------------------
(* The settings cache                                                      *)

\* An entry was current when it was read, at most MaxRead before its date.
EntryHolds(i) == cache[i].valid =>
    /\ cache[i].value <= table /\ cache[i].at <= now
    /\ cache[i].value < table => cache[i].at <= replaced[cache[i].value] + MaxRead

ReadHolds(r) ==
    /\ req[r].at \in {"missed", "fetched", "served"} => req[r].begun <= now
    /\ req[r].at = "fetched" =>
         /\ req[r].begun <= req[r].took /\ req[r].took <= now /\ now <= req[r].took + MaxRead
         /\ req[r].value <= table
         /\ req[r].value < table => req[r].took <= replaced[req[r].value]
    /\ (req[r].at = "served" /\ ~req[r].failed) =>
         /\ req[r].value <= table
         /\ req[r].value < table => req[r].begun < replaced[req[r].value] + CacheTTL + MaxRead

AgeInv == (\A i \in Instances : EntryHolds(i)) /\ (\A r \in Requests : ReadHolds(r))

LEMMA SettingsFields ==
  ASSUME Settings!TypeOK
  PROVE  /\ now \in Nat /\ table \in 0..MaxVersion
         /\ \A v \in 0..MaxVersion : replaced[v] \in Nat
         /\ \A i \in Instances : cache[i].value \in 0..MaxVersion /\ cache[i].at \in Nat
         /\ \A r \in Requests : /\ req[r].inst \in Instances /\ req[r].value \in 0..MaxVersion
                                /\ req[r].took \in Nat /\ req[r].begun \in Nat
  BY DEF Settings!TypeOK, Settings!StoreTypeOK, Settings!Versions, Settings!Request

\* Only r and the clock-free part of the state moved.
LEMMA OnlyReader ==
  ASSUME Settings!TypeOK, AgeInv, UNCHANGED <<now, table, replaced>>, NEW r \in Requests,
         \A q \in Requests \ {r} : req'[q] = req[q],
         \A i \in Instances : EntryHolds(i)', ReadHolds(r)'
  PROVE  AgeInv'
  BY SettingsFields DEF AgeInv, ReadHolds

LEMMA AgeStep == Settings!TypeOK /\ AgeInv /\ Settings!Next => AgeInv'
<1> SUFFICES ASSUME Settings!TypeOK, AgeInv, Settings!Next
             PROVE  AgeInv'
  OBVIOUS
<1>0. /\ \A i \in Instances : EntryHolds(i)
      /\ \A r \in Requests : ReadHolds(r)
      /\ MaxRead \in Nat /\ CacheTTL \in Nat \ {0}
  BY DEF AgeInv
<1>1. ASSUME UNCHANGED <<now, table, cache, replaced>>
      PROVE  \A i \in Instances : EntryHolds(i)'
  BY <1>0, <1>1 DEF EntryHolds
<1>2. ASSUME NEW r \in Requests, Settings!ReadCached(r)
      PROVE  AgeInv'
  <2>1. /\ req'[r].at = "served" /\ req'[r].begun = now
        /\ req'[r].value = cache[req[r].inst].value
        /\ cache[req[r].inst].valid /\ now - cache[req[r].inst].at < CacheTTL
        /\ \A q \in Requests \ {r} : req'[q] = req[q]
        /\ UNCHANGED <<now, table, cache, replaced>>
    BY <1>2 DEF Settings!ReadCached, Settings!Fresh, Settings!Begin, Settings!TypeOK, Settings!Request
  <2>2. EntryHolds(req[r].inst)
    BY <1>0, SettingsFields
  <2>3. ReadHolds(r)'
    BY <1>0, <2>1, <2>2, SettingsFields DEF ReadHolds, EntryHolds
  <2>4. QED
    BY <1>1, <2>1, <2>3, OnlyReader
<1>3. ASSUME NEW r \in Requests, Settings!ReadMisses(r)
      PROVE  AgeInv'
  <2>1. /\ req'[r].at = "missed" /\ req'[r].begun = now
        /\ \A q \in Requests \ {r} : req'[q] = req[q]
        /\ UNCHANGED <<now, table, cache, replaced>>
    BY <1>3 DEF Settings!ReadMisses, Settings!Begin, Settings!TypeOK, Settings!Request
  <2>2. ReadHolds(r)'
    BY <2>1, SettingsFields DEF ReadHolds
  <2>3. QED
    BY <1>1, <2>1, <2>2, OnlyReader
<1>4. ASSUME NEW r \in Requests, Settings!Query(r)
      PROVE  AgeInv'
  <2>1. /\ req[r].at = "missed" /\ req'[r].at = "fetched" /\ req'[r].begun = req[r].begun
        /\ req'[r].value = table /\ req'[r].took = now
        /\ \A q \in Requests \ {r} : req'[q] = req[q]
        /\ UNCHANGED <<now, table, cache, replaced>>
    BY <1>4 DEF Settings!Query, Settings!TypeOK, Settings!Request
  <2>2. ReadHolds(r)'
    BY <1>0, <2>1, SettingsFields DEF ReadHolds
  <2>3. QED
    BY <1>1, <2>1, <2>2, OnlyReader
<1>5. ASSUME NEW r \in Requests, Settings!QueryFails(r)
      PROVE  AgeInv'
  <2>1. /\ req[r].at = "missed" /\ req'[r].at = "served" /\ req'[r].begun = req[r].begun
        /\ req'[r].failed = TRUE
        /\ \A q \in Requests \ {r} : req'[q] = req[q]
        /\ UNCHANGED <<now, table, cache, replaced>>
    BY <1>5 DEF Settings!QueryFails, Settings!TypeOK, Settings!Request
  <2>2. ReadHolds(r)'
    BY <1>0, <2>1, SettingsFields DEF ReadHolds
  <2>3. QED
    BY <1>1, <2>1, <2>2, OnlyReader
<1>6. ASSUME NEW r \in Requests, Settings!FillCache(r)
      PROVE  AgeInv'
  <2>1. /\ req[r].at = "fetched" /\ req'[r].at = "served" /\ req'[r].begun = req[r].begun
        /\ req'[r].value = req[r].value
        /\ \A q \in Requests \ {r} : req'[q] = req[q]
        /\ UNCHANGED <<now, table, replaced>>
    BY <1>6 DEF Settings!FillCache, Settings!TypeOK, Settings!Request
  <2>2. /\ cache'[req[r].inst].value = req[r].value /\ cache'[req[r].inst].at = now
        /\ \A i \in Instances \ {req[r].inst} : cache'[i] = cache[i]
    BY <1>6, SettingsFields DEF Settings!FillCache, Settings!Fill, Settings!TypeOK,
       Settings!StoreTypeOK
  <2>3. ReadHolds(r)'
    BY <1>0, <2>1, SettingsFields DEF ReadHolds
  <2>4. \A i \in Instances : EntryHolds(i)'
    BY <1>0, <2>1, <2>2, SettingsFields DEF ReadHolds, EntryHolds
  <2>5. QED
    BY <2>1, <2>3, <2>4, OnlyReader
<1>7. ASSUME NEW r \in Requests, Settings!Finish(r)
      PROVE  AgeInv'
  <2>1. /\ req'[r].at = "idle"
        /\ \A q \in Requests \ {r} : req'[q] = req[q]
        /\ UNCHANGED <<now, table, cache, replaced>>
    BY <1>7 DEF Settings!Finish, Settings!Idle, Settings!TypeOK
  <2>2. QED
    BY <1>1, <2>1, OnlyReader DEF ReadHolds
\* What was current until now is replaced now: nothing read before is younger.
<1>8. ASSUME Settings!CommitSettings, UNCHANGED <<now, cache>>,
             \A q \in Requests : req'[q] = req[q] \/ req'[q].at = "committed"
      PROVE  AgeInv'
  <2>1. /\ table' = table + 1 /\ replaced'[table] = now
        /\ \A v \in 0..MaxVersion : v # table => replaced'[v] = replaced[v]
    BY <1>8, SettingsFields DEF Settings!CommitSettings, Settings!TypeOK, Settings!Versions
  <2>2. ASSUME NEW i \in Instances
        PROVE  EntryHolds(i)'
    BY <1>0, <1>8, <2>1, SettingsFields DEF EntryHolds
  <2>3. ASSUME NEW q \in Requests
        PROVE  ReadHolds(q)'
    <3>1. CASE req'[q] = req[q]
      BY <1>0, <1>8, <2>1, <3>1, SettingsFields DEF ReadHolds
    <3>2. CASE req'[q].at = "committed"
      BY <3>2 DEF ReadHolds
    <3>3. QED
      BY <1>8, <3>1, <3>2
  <2>4. QED
    BY <2>2, <2>3 DEF AgeInv
<1>9. ASSUME NEW r \in Requests, Settings!SetSetting(r)
      PROVE  AgeInv'
  <2>1. \A q \in Requests : req'[q] = req[q] \/ req'[q].at = "committed"
    BY <1>9 DEF Settings!SetSetting, Settings!TypeOK, Settings!Request
  <2>2. QED
    BY <1>8, <1>9, <2>1 DEF Settings!SetSetting
<1>10. CASE Settings!SetElsewhere
  BY <1>8, <1>10 DEF Settings!SetElsewhere
<1>11. ASSUME NEW i \in Instances, Settings!Invalidate(i), UNCHANGED <<now, table, replaced>>,
              \A q \in Requests : req'[q] = req[q] \/ req'[q].at = "idle"
       PROVE  AgeInv'
  <2>1. ~cache'[i].valid /\ \A j \in Instances \ {i} : cache'[j] = cache[j]
    BY <1>11 DEF Settings!Invalidate, Settings!Empty, Settings!TypeOK, Settings!StoreTypeOK
  <2>2. \A j \in Instances : EntryHolds(j)'
    BY <1>0, <1>11, <2>1 DEF EntryHolds
  <2>3. \A q \in Requests : ReadHolds(q)'
    BY <1>0, <1>11 DEF ReadHolds
  <2>4. QED
    BY <2>2, <2>3 DEF AgeInv
<1>12. ASSUME NEW r \in Requests, Settings!InvalidateCache(r)
       PROVE  AgeInv'
  <2>1. \A q \in Requests : req'[q] = req[q] \/ req'[q].at = "idle"
    BY <1>12 DEF Settings!InvalidateCache, Settings!Idle, Settings!TypeOK
  <2>2. QED
    BY <1>11, <1>12, <2>1, SettingsFields DEF Settings!InvalidateCache
<1>13. ASSUME NEW i \in Instances, Settings!Restart(i)
       PROVE  AgeInv'
  <2>1. \A q \in Requests : req'[q] = req[q] \/ req'[q].at = "idle"
    BY <1>13 DEF Settings!Restart, Settings!Idle
  <2>2. QED
    BY <1>11, <1>13, <2>1 DEF Settings!Restart
<1>14. CASE Settings!Tick
  <2>1. /\ now' = now + 1 /\ UNCHANGED <<table, cache, req, replaced>>
        /\ \A r \in Requests : req[r].at = "fetched" => now - req[r].took < MaxRead
    BY <1>14 DEF Settings!Tick, Settings!Advance
  <2>2. \A i \in Instances : EntryHolds(i)'
    BY <1>0, <2>1, SettingsFields DEF EntryHolds
  <2>3. ASSUME NEW r \in Requests
        PROVE  ReadHolds(r)'
    BY <1>0, <2>1, SettingsFields DEF ReadHolds
  <2>4. QED
    BY <2>2, <2>3 DEF AgeInv
<1>15. QED
  BY <1>2, <1>3, <1>4, <1>5, <1>6, <1>7, <1>9, <1>10, <1>12, <1>13, <1>14 DEF Settings!Next

\* cacheTTL "bounds how long a policy change takes to reach every request path":
\* a value in use was the committed one at most the TTL, plus the time a slow
\* reader took to store it, before the request began.
THEOREM SettingsReachRequests == Spec => []StaleAtMostTTL
<1>1. Init => (site = "settings" => AgeInv)
  BY DEF Init, Settings!Init, Settings!StoreInit, Settings!Empty, Settings!Idle, AgeInv,
     EntryHolds, ReadHolds
<1>2. RowsInv /\ (site = "settings" => AgeInv) /\ [Next]_vars => (site = "settings" => AgeInv)'
  <2> SUFFICES ASSUME RowsInv, site = "settings" => AgeInv, [Next]_vars, site' = "settings"
               PROVE  AgeInv'
    OBVIOUS
  <2>1. CASE SettingsStep
    BY <2>1, AgeStep DEF SettingsStep, RowsInv, TypeOK
  <2>2. CASE UNCHANGED vars
    BY <2>2 DEF vars, settingsVars, AgeInv, EntryHolds, ReadHolds
  <2>3. QED
    BY <2>1, <2>2 DEF Next, Ended, SessionsStep, FactorsStep, SsoStep
<1>3. RowsInv /\ (site = "settings" => AgeInv) => StaleAtMostTTL
  <2> SUFFICES ASSUME RowsInv, site = "settings", AgeInv, NEW r \in Requests,
                      req[r].at = "served", ~req[r].failed, req[r].value < table
               PROVE  req[r].begun < replaced[req[r].value] + CacheTTL + MaxRead
    BY DEF StaleAtMostTTL, Settings!StaleAtMostTTL
  <2>1. QED
    BY DEF AgeInv, ReadHolds
<1>4. QED
  BY <1>1, <1>2, <1>3, RowsInvariant, PTL DEF Spec

-----------------------------------------------------------------------------
(* The row of a session follows its use                                    *)

\* A request that has read its row and holds what it read.
Holding == {"read", "accepted", "touching", "ok"}
IsLive(s) == rows[s].state = "live"

RowHolds(s) ==
    /\ rows[s].activity <= now /\ rows[s].used <= now /\ rows[s].expires <= now + Absolute
    /\ rows[s].activity <= rows[s].used + MaxStall
    /\ IsLive(s) =>
         /\ rows[s].used < rows[s].expires + MaxStall
         /\ RenewWithin > 0 => rows[s].activity + RenewWithin <= rows[s].expires + MaxStall

\* What it read may be older than the row by the time a request takes.
HeldHolds(r, s) ==
    /\ now <= req[r].begun + MaxStall
    /\ req[r].activity <= now /\ req[r].expires <= now + Absolute
    /\ req[r].activity <= rows[s].used + MaxStall
    /\ IsLive(s) =>
         /\ req[r].activity <= rows[s].activity + MaxStall
         /\ req[r].expires <= rows[s].expires + MaxStall
         /\ RenewWithin > 0 => req[r].activity + RenewWithin <= rows[s].expires + MaxStall

RequestHolds(r) ==
    /\ req[r].begun <= now
    /\ req[r].at \in Holding => HeldHolds(r, req[r].sess)
    /\ req[r].at \in {"accepted", "touching"} => req[r].begun <= rows[req[r].sess].used
    /\ req[r].at = "touching" =>
         /\ req[r].begun <= req[r].stamp /\ req[r].stamp <= now
         /\ (RenewWithin > 0 /\ ~req[r].renew) => req[r].stamp + RenewWithin <= req[r].expires

\* Either the row accounts for its last use, or a request that will see to it
\* is still on its way.
Paid(s) ==
    /\ rows[s].used <= rows[s].activity + Touch + MaxStall
    /\ rows[s].used + RenewWithin < rows[s].expires + Touch + MaxStall

Owes(r, s) ==
    /\ req[r].sess = s
    /\ req[r].at = "accepted" \/ (req[r].at = "touching" /\ rows[s].used <= req[r].stamp)

Accounted(s) == (IsLive(s) /\ ~rows[s].missed) => Paid(s) \/ \E r \in Requests : Owes(r, s)

TouchInv == /\ \A s \in Sessions : RowHolds(s) /\ Accounted(s)
            /\ \A r \in Requests : RequestHolds(r)

LEMMA SessionFields ==
  ASSUME Sess!TypeOK
  PROVE  /\ now \in Nat
         /\ \A s \in Sessions : /\ rows[s].activity \in Nat /\ rows[s].used \in Nat
                                /\ rows[s].expires \in Nat /\ rows[s].missed \in BOOLEAN
         /\ \A r \in Requests : /\ req[r].activity \in Nat /\ req[r].expires \in Nat
                                /\ req[r].begun \in Nat /\ req[r].stamp \in Nat
                                /\ req[r].renew \in BOOLEAN
  BY DEF Sess!TypeOK, Sess!Time, Sess!Horizon, Sess!Row, Sess!Request

LEMMA PolicyFields ==
  /\ Absolute \in Nat \ {0} /\ IdleTime \in Nat /\ RenewWithin \in Nat /\ RenewWithin <= Absolute
  /\ Touch \in Nat \ {0} /\ MaxStall \in Nat /\ None \notin Sessions
  OBVIOUS

\* A step that touches no row and lets no debtor go.
LEMMA RequestMoves ==
  ASSUME TouchInv, UNCHANGED <<now, rows>>, NEW r \in Requests,
         \A q \in Requests \ {r} : req'[q] = req[q],
         RequestHolds(r)',
         \A s \in Sessions : Owes(r, s) => Owes(r, s)' \/ Paid(s)
  PROVE  TouchInv'
<1>1. \A s \in Sessions : RowHolds(s)'
  BY DEF TouchInv, RowHolds, IsLive
<1>2. \A s \in Sessions : Accounted(s)'
  BY DEF TouchInv, Accounted, IsLive, Paid, Owes
<1>3. \A q \in Requests : RequestHolds(q)'
  BY DEF TouchInv, RequestHolds, HeldHolds, IsLive
<1>4. QED
  BY <1>1, <1>2, <1>3 DEF TouchInv

LEMMA LookupFollows ==
  ASSUME Sess!TypeOK, Carries, TouchInv, NEW r \in Requests, Sess!Lookup(r)
  PROVE  TouchInv'
<1>1. req[r].sess \in Sessions
  BY DEF Carries, Sess!Lookup
<1>2. /\ req[r].at = "sent" /\ req'[r].at = "read" /\ req'[r].sess = req[r].sess
      /\ req'[r].begun = now
      /\ req'[r].expires = rows[req[r].sess].expires
      /\ req'[r].activity = rows[req[r].sess].activity
      /\ \A q \in Requests \ {r} : req'[q] = req[q]
      /\ UNCHANGED <<now, rows>>
  BY DEF Sess!Lookup, Sess!TypeOK, Sess!Request
<1>3. RowHolds(req[r].sess)
  BY <1>1 DEF TouchInv
<1>4. RequestHolds(r)'
  BY <1>1, <1>2, <1>3, SessionFields, PolicyFields
     DEF RowHolds, RequestHolds, HeldHolds, IsLive
<1>5. \A s \in Sessions : ~Owes(r, s)
  BY <1>2 DEF Owes
<1>6. QED
  BY <1>2, <1>4, <1>5, RequestMoves

\* A request that no longer holds anything, and owed nothing.
LEMMA LettingGo ==
  ASSUME Sess!TypeOK, TouchInv, UNCHANGED <<now, rows>>, NEW r \in Requests,
         req[r].at \notin {"accepted", "touching"}, req'[r].at \notin Holding,
         req'[r].begun \in {0, now, req[r].begun},
         \A q \in Requests \ {r} : req'[q] = req[q]
  PROVE  TouchInv'
<1>1. RequestHolds(r)'
  BY SessionFields DEF TouchInv, RequestHolds, Holding
<1>2. \A s \in Sessions : ~Owes(r, s)
  BY DEF Owes
<1>3. QED
  BY <1>1, <1>2, RequestMoves

LEMMA AcceptFollows ==
  ASSUME Sess!TypeOK, Carries, TouchInv, NEW r \in Requests, Sess!Accept(r)
  PROVE  TouchInv'
<1> DEFINE x == req[r].sess
<1>1. x \in Sessions
  BY DEF Carries, Sess!Accept
<1>2. /\ req[r].at = "read" /\ req'[r].at = "accepted" /\ req'[r].sess = x
      /\ req'[r].begun = req[r].begun /\ req'[r].activity = req[r].activity
      /\ req'[r].expires = req[r].expires
      /\ \A q \in Requests \ {r} : req'[q] = req[q]
      /\ now' = now /\ req[r].expires > now
  BY DEF Sess!Accept, Sess!Acceptable, Sess!TypeOK, Sess!Request
<1>3. /\ rows'[x].used = now /\ rows'[x].activity = rows[x].activity
      /\ rows'[x].expires = rows[x].expires /\ rows'[x].state = rows[x].state
      /\ rows'[x].missed = rows[x].missed
      /\ \A s \in Sessions \ {x} : rows'[s] = rows[s]
  BY <1>1 DEF Sess!Accept, Sess!TypeOK, Sess!Row
<1>4. RowHolds(x) /\ RequestHolds(r) /\ HeldHolds(r, x)
  BY <1>1, <1>2 DEF TouchInv, RequestHolds, Holding
<1> HIDE DEF x
<1>5. ASSUME NEW s \in Sessions
      PROVE  RowHolds(s)'
  <2>1. CASE s = x
    BY <1>1, <1>2, <1>3, <1>4, <2>1, SessionFields, PolicyFields DEF RowHolds, HeldHolds, IsLive
  <2>2. CASE s # x
    BY <1>2, <1>3, <2>2 DEF TouchInv, RowHolds, IsLive
  <2>3. QED
    BY <2>1, <2>2
<1>6. ASSUME NEW s \in Sessions
      PROVE  Accounted(s)'
  <2>1. CASE s = x
    BY <1>2, <2>1 DEF Accounted, Owes
  <2>2. CASE s # x
    BY <1>1, <1>2, <1>3, <2>2 DEF TouchInv, Accounted, Paid, Owes, IsLive, x
  <2>3. QED
    BY <2>1, <2>2
<1>7. ASSUME NEW q \in Requests
      PROVE  RequestHolds(q)'
  <2>1. CASE q = r
    BY <1>1, <1>2, <1>3, <1>4, <2>1, SessionFields, PolicyFields
       DEF RequestHolds, HeldHolds, IsLive
  <2>2. CASE q # r /\ req[q].at \in Holding /\ req[q].sess = x
    BY <1>1, <1>2, <1>3, <1>4, <2>2, SessionFields, PolicyFields
       DEF TouchInv, RequestHolds, RowHolds, HeldHolds, IsLive
  <2>3. CASE q # r /\ req[q].at \in Holding /\ req[q].sess # x
    <3>1. req[q].sess \in Sessions
      BY <2>3 DEF Carries, Holding
    <3>2. QED
      BY <1>2, <1>3, <2>3, <3>1 DEF TouchInv, RequestHolds, HeldHolds, IsLive
  <2>4. CASE q # r /\ req[q].at \notin Holding
    BY <1>2, <2>4 DEF TouchInv, RequestHolds, Holding
  <2>5. QED
    BY <2>1, <2>2, <2>3, <2>4
<1>8. QED
  BY <1>5, <1>6, <1>7 DEF TouchInv

LEMMA DecideFollows ==
  ASSUME Sess!TypeOK, Carries, TouchInv, NEW r \in Requests, Sess!DecideTouch(r)
  PROVE  TouchInv'
<1> DEFINE x == req[r].sess
<1>1. x \in Sessions /\ req[r].at = "accepted"
  BY DEF Carries, Sess!DecideTouch
<1>2. /\ req'[r].sess = x /\ req'[r].begun = req[r].begun
      /\ req'[r].activity = req[r].activity /\ req'[r].expires = req[r].expires
      /\ \A q \in Requests \ {r} : req'[q] = req[q]
      /\ UNCHANGED <<now, rows>>
  BY DEF Sess!DecideTouch, Sess!TypeOK, Sess!Request
<1>3. /\ RowHolds(x) /\ RequestHolds(r) /\ HeldHolds(r, x)
      /\ req[r].begun <= rows[x].used /\ req[r].begun <= now
  BY <1>1 DEF TouchInv, RequestHolds, Holding
<1>4. CASE Sess!RecentlyTouched(req[r])
  <2>1. req'[r].at = "ok"
    BY <1>4 DEF Sess!DecideTouch, Sess!TypeOK, Sess!Request
  <2>2. now - req[r].activity < Touch
    BY <1>4 DEF Sess!RecentlyTouched
  <2> HIDE DEF x
  <2>3. RequestHolds(r)'
    BY <1>1, <1>2, <1>3, <2>1 DEF RequestHolds, HeldHolds, IsLive, Holding
  <2>4. IsLive(x) => Paid(x)
    <3>1. SUFFICES ASSUME IsLive(x)
                   PROVE  Paid(x)
      OBVIOUS
    <3>2. rows[x].used <= now /\ req[r].activity <= rows[x].activity + MaxStall
      BY <1>3, <3>1 DEF RowHolds, HeldHolds
    <3>3. rows[x].used <= rows[x].activity + Touch + MaxStall
      BY <1>1, <2>2, <3>2, SessionFields, PolicyFields
    <3>4. rows[x].used + RenewWithin < rows[x].expires + Touch + MaxStall
      <4>1. CASE RenewWithin > 0
        BY <1>1, <1>3, <2>2, <3>1, <3>2, <4>1, SessionFields, PolicyFields DEF HeldHolds
      <4>2. CASE RenewWithin = 0
        BY <1>1, <1>3, <3>1, <4>2, SessionFields, PolicyFields DEF RowHolds
      <4>3. QED
        BY <4>1, <4>2, PolicyFields
    <3>5. QED
      BY <3>3, <3>4 DEF Paid
  <2>5. \A s \in Sessions : RowHolds(s)' /\ Accounted(s)'
    BY <1>1, <1>2, <2>4 DEF TouchInv, RowHolds, Accounted, Paid, Owes, IsLive, x
  <2>6. \A q \in Requests : RequestHolds(q)'
    BY <1>2, <2>3 DEF TouchInv, RequestHolds, HeldHolds, IsLive
  <2>7. QED
    BY <2>5, <2>6 DEF TouchInv
<1>5. CASE ~Sess!RecentlyTouched(req[r])
  <2>1. PICK b \in BOOLEAN : b = Sess!Renews(req[r])
    BY DEF Sess!Renews
  <2>2. req'[r].at = "touching" /\ req'[r].stamp = now /\ req'[r].renew = b
    BY <1>5, <2>1 DEF Sess!DecideTouch, Sess!TypeOK, Sess!Request
  <2>3. (RenewWithin > 0 /\ ~b) => now + RenewWithin <= req[r].expires
    <3>1. SUFFICES ASSUME RenewWithin > 0, ~b
                   PROVE  now + RenewWithin <= req[r].expires
      OBVIOUS
    <3>2. ~(req[r].expires - now < RenewWithin)
      BY <2>1, <3>1 DEF Sess!Renews
    <3>3. QED
      BY <3>2, SessionFields, PolicyFields
  <2> HIDE DEF x
  <2>4. RequestHolds(r)'
    BY <1>1, <1>2, <1>3, <2>2, <2>3, SessionFields DEF RequestHolds, HeldHolds, IsLive, Holding
  <2>5. \A s \in Sessions : Owes(r, s) => Owes(r, s)'
    BY <1>2, <1>3, <2>2 DEF Owes, RowHolds, x
  <2>6. QED
    BY <1>2, <2>4, <2>5, RequestMoves
<1>6. QED
  BY <1>4, <1>5

\* The stamp is at most MaxStall old, whichever of the requests writes last.
LEMMA TouchFollows ==
  ASSUME Sess!TypeOK, Carries, TouchInv, NEW r \in Requests, Sess!TouchSession(r)
  PROVE  TouchInv'
<1>1. PICK x \in Sessions : x = req[r].sess /\ req[r].at = "touching"
  BY DEF Carries, Sess!TouchSession
<1>2. /\ req'[r].at = "ok" /\ req'[r].sess = x /\ req'[r].begun = req[r].begun
      /\ req'[r].activity = req[r].activity /\ req'[r].expires = req[r].expires
      /\ \A q \in Requests \ {r} : req'[q] = req[q]
      /\ now' = now
  BY <1>1 DEF Sess!TouchSession, Sess!TypeOK, Sess!Request
<1>3. /\ RowHolds(x) /\ RequestHolds(r) /\ HeldHolds(r, x)
      /\ req[r].begun <= rows[x].used /\ req[r].begun <= req[r].stamp /\ req[r].stamp <= now
      /\ now <= req[r].begun + MaxStall
      /\ (RenewWithin > 0 /\ ~req[r].renew) => req[r].stamp + RenewWithin <= req[r].expires
  BY <1>1 DEF TouchInv, RequestHolds, HeldHolds, Holding
<1>4. CASE rows[x].state # "live"
  <2>1. \A s \in Sessions : rows'[s] = rows[s]
    BY <1>1, <1>4 DEF Sess!TouchSession, Sess!TypeOK
  <2>2. \A s \in Sessions : RowHolds(s)' /\ Accounted(s)'
    BY <1>1, <1>2, <1>4, <2>1 DEF TouchInv, RowHolds, Accounted, Paid, Owes, IsLive
  <2>3. ASSUME NEW q \in Requests
        PROVE  RequestHolds(q)'
    <3>1. req[q].at \in Holding \cup {"accepted", "touching"} => req[q].sess \in Sessions
      BY DEF Carries, Holding
    <3>2. CASE q = r
      BY <1>1, <1>2, <1>3, <2>1, <3>2 DEF RequestHolds, HeldHolds, IsLive, Holding
    <3>3. CASE q # r
      BY <1>2, <2>1, <3>1, <3>3 DEF TouchInv, RequestHolds, HeldHolds, IsLive, Holding
    <3>4. QED
      BY <3>2, <3>3
  <2>4. QED
    BY <2>2, <2>3 DEF TouchInv
<1>5. CASE rows[x].state = "live"
  <2>1. PICK e \in Nat : e = IF req[r].renew THEN req[r].stamp + Absolute ELSE rows[x].expires
    BY <1>1, SessionFields, PolicyFields
  <2>2. PICK b \in BOOLEAN : b = (rows[x].missed /\ rows[x].used > req[r].stamp)
    BY <1>1, SessionFields
  <2>20. /\ rows'[x].activity = req[r].stamp /\ rows'[x].expires = e
        /\ rows'[x].used = rows[x].used /\ rows'[x].state = "live" /\ rows'[x].missed = b
        /\ \A s \in Sessions \ {x} : rows'[s] = rows[s]
    BY <1>1, <1>5, <2>1, <2>2 DEF Sess!TouchSession, Sess!TypeOK, Sess!Row
  <2>3. req[r].renew \in BOOLEAN
    BY SessionFields
  <2>4. now + Absolute <= e + MaxStall \/ (e = rows[x].expires /\ ~req[r].renew)
    BY <1>3, <2>1, <2>3, SessionFields, PolicyFields
  <2>5. e <= now + Absolute
    BY <1>1, <1>3, <2>1, <2>3, SessionFields, PolicyFields DEF RowHolds
  <2>6. RowHolds(x)'
    <3>1. IsLive(x)
      BY <1>5 DEF IsLive
    <3>2. rows[x].used < e + MaxStall
      BY <1>1, <1>3, <2>4, <3>1, SessionFields, PolicyFields DEF RowHolds
    <3>3. RenewWithin > 0 => req[r].stamp + RenewWithin <= e + MaxStall
      BY <1>1, <1>3, <2>4, <3>1, SessionFields, PolicyFields DEF HeldHolds
    <3>4. rows[x].used <= now /\ req[r].stamp <= rows[x].used + MaxStall
      BY <1>1, <1>3, SessionFields, PolicyFields DEF RowHolds
    <3>5. QED
      BY <1>2, <1>3, <2>20, <2>5, <3>2, <3>3, <3>4 DEF RowHolds, IsLive
  <2>7. Accounted(x)'
    <3>1. SUFFICES ASSUME ~b, \A q \in Requests : ~Owes(q, x)'
                   PROVE  Paid(x)'
      BY <2>20 DEF Accounted
    <3>2. SUFFICES rows[x].used + RenewWithin < e + Touch + MaxStall
      <4>1. rows[x].used <= req[r].stamp + MaxStall
        BY <1>1, <1>3, SessionFields, PolicyFields DEF RowHolds
      <4>2. rows[x].used <= req[r].stamp + Touch + MaxStall
        BY <1>1, <4>1, SessionFields, PolicyFields
      <4>3. QED
        BY <2>20, <4>2 DEF Paid
    <3>3. CASE now + Absolute <= e + MaxStall
      BY <1>1, <1>3, <3>3, SessionFields, PolicyFields DEF RowHolds
    <3>4. CASE e = rows[x].expires /\ ~req[r].renew
      <4>1. IsLive(x) /\ rows[x].used < rows[x].expires + MaxStall
        BY <1>3, <1>5 DEF IsLive, RowHolds
      <4>2. CASE RenewWithin > 0 /\ rows[x].used <= req[r].stamp
        <5>1. /\ req[r].stamp + RenewWithin <= req[r].expires
              /\ req[r].expires <= rows[x].expires + MaxStall
          BY <1>3, <3>4, <4>1, <4>2 DEF HeldHolds
        <5>2. QED
          BY <1>1, <3>4, <4>2, <5>1, SessionFields, PolicyFields
      <4>3. CASE RenewWithin = 0
        BY <1>1, <3>4, <4>1, <4>3, SessionFields, PolicyFields
      <4>4. CASE ~(rows[x].used <= req[r].stamp)
        <5>1. ~rows[x].missed
          BY <1>1, <2>2, <3>1, <4>4, SessionFields
        <5>2. \A q \in Requests : ~Owes(q, x)
          BY <1>1, <1>2, <2>20, <3>1, <4>4 DEF Owes
        <5>3. Paid(x)
          BY <1>1, <4>1, <5>1, <5>2 DEF TouchInv, Accounted
        <5>4. QED
          BY <3>4, <5>3 DEF Paid
      <4>5. QED
        BY <4>2, <4>3, <4>4, SessionFields, PolicyFields
    <3>5. QED
      BY <2>4, <3>3, <3>4
  <2>8. \A s \in Sessions \ {x} : RowHolds(s)' /\ Accounted(s)'
    BY <1>1, <1>2, <2>20 DEF TouchInv, RowHolds, Accounted, Paid, Owes, IsLive
  <2>9. ASSUME NEW q \in Requests
        PROVE  RequestHolds(q)'
    <3>1. req[q].at \in Holding \cup {"accepted", "touching"} => req[q].sess \in Sessions
      BY DEF Carries, Holding
    <3>2. CASE req[q].at \in Holding /\ req[q].sess = x
      <4>1. HeldHolds(q, x) /\ RequestHolds(q) /\ IsLive(x)
        BY <1>5, <3>2 DEF TouchInv, RequestHolds, IsLive
      <4>2. /\ req[q].activity <= req[r].stamp + MaxStall
            /\ req[q].activity <= rows[x].used + MaxStall
            /\ req[q].expires <= e + MaxStall
            /\ RenewWithin > 0 => req[q].activity + RenewWithin <= e + MaxStall
        BY <1>1, <1>3, <2>4, <4>1, SessionFields, PolicyFields DEF HeldHolds
      <4>3. CASE q = r
        BY <1>2, <2>20, <4>1, <4>2, <4>3 DEF RequestHolds, HeldHolds, Holding
      <4>4. CASE q # r
        BY <1>2, <2>20, <3>2, <4>1, <4>2, <4>4 DEF RequestHolds, HeldHolds
      <4>5. QED
        BY <4>3, <4>4
    <3>3. CASE ~(req[q].at \in Holding /\ req[q].sess = x)
      <4>1. q # r
        BY <1>1, <3>3 DEF Holding
      <4>2. QED
        BY <1>2, <2>20, <3>1, <3>3, <4>1 DEF TouchInv, RequestHolds, HeldHolds, IsLive, Holding
    <3>4. QED
      BY <3>2, <3>3
  <2>10. QED
    BY <1>1, <2>6, <2>7, <2>8, <2>9 DEF TouchInv
<1>6. QED
  BY <1>4, <1>5

LEMMA FailedTouchFollows ==
  ASSUME Sess!TypeOK, Carries, TouchInv, NEW r \in Requests, Sess!TouchFails(r)
  PROVE  TouchInv'
<1>1. PICK x \in Sessions : x = req[r].sess /\ req[r].at = "touching"
  BY DEF Carries, Sess!TouchFails
<1>2. /\ req'[r].at = "ok" /\ req'[r].sess = x /\ req'[r].begun = req[r].begun
      /\ req'[r].activity = req[r].activity /\ req'[r].expires = req[r].expires
      /\ \A q \in Requests \ {r} : req'[q] = req[q]
      /\ now' = now
  BY <1>1 DEF Sess!TouchFails, Sess!TypeOK, Sess!Request
<1>3. /\ rows'[x].missed = TRUE
      /\ \A s \in Sessions \ {x} : rows'[s] = rows[s]
      /\ \A s \in Sessions : /\ rows'[s].activity = rows[s].activity
                             /\ rows'[s].used = rows[s].used
                             /\ rows'[s].expires = rows[s].expires
                             /\ rows'[s].state = rows[s].state
  BY <1>1 DEF Sess!TouchFails, Sess!TypeOK, Sess!Row
<1>4. \A s \in Sessions : RowHolds(s)'
  BY <1>2, <1>3 DEF TouchInv, RowHolds, IsLive
<1>5. ASSUME NEW s \in Sessions
      PROVE  Accounted(s)'
  <2>1. CASE s = x
    BY <1>3, <2>1 DEF Accounted
  <2>2. CASE s # x
    BY <1>1, <1>2, <1>3, <2>2 DEF TouchInv, Accounted, Paid, Owes, IsLive
  <2>3. QED
    BY <2>1, <2>2
<1>6. ASSUME NEW q \in Requests
      PROVE  RequestHolds(q)'
  <2>1. req[q].at \in Holding \cup {"accepted", "touching"} => req[q].sess \in Sessions
    BY DEF Carries, Holding
  <2>2. CASE q = r
    BY <1>1, <1>2, <1>3, <2>2 DEF TouchInv, RequestHolds, HeldHolds, IsLive, Holding
  <2>3. CASE q # r
    BY <1>2, <1>3, <2>1, <2>3 DEF TouchInv, RequestHolds, HeldHolds, IsLive, Holding
  <2>4. QED
    BY <2>2, <2>3
<1>7. QED
  BY <1>4, <1>5, <1>6 DEF TouchInv

\* A row changes while no request moves: a sign-in or a revocation.
LEMMA SignInFollows ==
  ASSUME Sess!TypeOK, Carries, TouchInv, NEW x \in Sessions, Sess!SignIn(x)
  PROVE  TouchInv'
<1>1. /\ rows'[x].activity = now /\ rows'[x].used = now /\ rows'[x].expires = now + Absolute
      /\ \A s \in Sessions \ {x} : rows'[s] = rows[s]
      /\ UNCHANGED <<now, req>>
  BY DEF Sess!SignIn, Sess!TypeOK
<1>2. \A s \in Sessions \ {x} : RowHolds(s)' /\ Accounted(s)'
  BY <1>1 DEF TouchInv, RowHolds, Accounted, Paid, Owes, IsLive
<1>3. RowHolds(x)'
  BY <1>1, SessionFields, PolicyFields DEF RowHolds, IsLive
<1>4. Paid(x)'
  BY <1>1, SessionFields, PolicyFields DEF Paid
<1>5. ASSUME NEW q \in Requests
      PROVE  RequestHolds(q)'
  <2>1. req[q].at \in Holding \cup {"accepted", "touching"} => req[q].sess \in Sessions
    BY DEF Carries, Holding
  <2>2. CASE req[q].sess = x
    BY <1>1, <2>2, SessionFields, PolicyFields
       DEF TouchInv, RequestHolds, HeldHolds, IsLive, Holding
  <2>3. CASE req[q].sess # x
    BY <1>1, <2>1, <2>3 DEF TouchInv, RequestHolds, HeldHolds, IsLive, Holding
  <2>4. QED
    BY <2>2, <2>3
<1>6. QED
  BY <1>2, <1>3, <1>4, <1>5 DEF TouchInv, Accounted

LEMMA RevokeFollows ==
  ASSUME Sess!TypeOK, Carries, TouchInv, NEW x \in Sessions, Sess!RevokeSession(x)
  PROVE  TouchInv'
<1>1. /\ rows'[x].state = "revoked"
      /\ \A s \in Sessions : /\ rows'[s].activity = rows[s].activity
                             /\ rows'[s].used = rows[s].used
                             /\ rows'[s].expires = rows[s].expires
                             /\ rows'[s].missed = rows[s].missed
      /\ \A s \in Sessions \ {x} : rows'[s].state = rows[s].state
      /\ UNCHANGED <<now, req>>
  BY DEF Sess!RevokeSession, Sess!TypeOK, Sess!Row
<1>2. \A s \in Sessions : RowHolds(s)' /\ Accounted(s)'
  BY <1>1 DEF TouchInv, RowHolds, Accounted, Paid, Owes, IsLive
<1>3. ASSUME NEW q \in Requests
      PROVE  RequestHolds(q)'
  <2>1. req[q].at \in Holding \cup {"accepted", "touching"} => req[q].sess \in Sessions
    BY DEF Carries, Holding
  <2>2. QED
    BY <1>1, <2>1 DEF TouchInv, RequestHolds, HeldHolds, IsLive, Holding
<1>4. QED
  BY <1>2, <1>3 DEF TouchInv

LEMMA TickFollows ==
  ASSUME Sess!TypeOK, TouchInv, Carries, Sess!Tick
  PROVE  TouchInv'
<1>1. /\ now' = now + 1 /\ UNCHANGED <<rows, req>>
      /\ \A r \in Requests : req[r].at \in Holding => now - req[r].begun < MaxStall
  BY DEF Sess!Tick, Holding
<1>2. \A s \in Sessions : RowHolds(s)'
  BY <1>1, SessionFields, PolicyFields DEF TouchInv, RowHolds, IsLive
<1>3. \A s \in Sessions : Accounted(s)'
  BY <1>1 DEF TouchInv, Accounted, Paid, Owes, IsLive
<1>4. ASSUME NEW q \in Requests
      PROVE  RequestHolds(q)'
  <2>1. req[q].at \in Holding =>
            /\ now + 1 <= req[q].begun + MaxStall
            /\ req[q].activity <= now + 1 /\ req[q].expires <= (now + 1) + Absolute
    BY <1>1, SessionFields, PolicyFields DEF TouchInv, RequestHolds, HeldHolds
  <2>2. req[q].begun <= now + 1 /\ (req[q].at = "touching" => req[q].stamp <= now + 1)
    BY SessionFields DEF TouchInv, RequestHolds
  <2>3. QED
    BY <1>1, <2>1, <2>2 DEF TouchInv, RequestHolds, HeldHolds, IsLive
<1>5. QED
  BY <1>2, <1>3, <1>4 DEF TouchInv

LEMMA TouchStep == Sess!TypeOK /\ Carries /\ TouchInv /\ Sess!Next => TouchInv'
<1> SUFFICES ASSUME Sess!TypeOK, Carries, TouchInv, Sess!Next
             PROVE  TouchInv'
  OBVIOUS
<1>1. ASSUME NEW r \in Requests, Sess!Send(r)
      PROVE  TouchInv'
  <2>1. /\ req[r].at = "idle" /\ req'[r].at = "sent" /\ req'[r].begun = 0
        /\ \A q \in Requests \ {r} : req'[q] = req[q]
        /\ UNCHANGED <<now, rows>>
    BY <1>1 DEF Sess!Send, Sess!Quiet, Sess!TypeOK
  <2>2. QED
    BY <2>1, LettingGo DEF Holding
<1>2. ASSUME NEW r \in Requests, Sess!LookupFails(r)
      PROVE  TouchInv'
  <2>1. /\ req[r].at = "sent" /\ req'[r].at = "refused" /\ req'[r].begun = now
        /\ \A q \in Requests \ {r} : req'[q] = req[q]
        /\ UNCHANGED <<now, rows>>
    BY <1>2 DEF Sess!LookupFails, Sess!TypeOK, Sess!Request
  <2>2. QED
    BY <2>1, LettingGo DEF Holding
<1>3. ASSUME NEW r \in Requests, Sess!RefuseDead(r) \/ Sess!ResolveGrantsFails(r)
      PROVE  TouchInv'
  <2>1. /\ req[r].at \in {"read", "ok"} /\ req'[r].at = "refused"
        /\ req'[r].begun = req[r].begun
        /\ \A q \in Requests \ {r} : req'[q] = req[q]
        /\ UNCHANGED <<now, rows>>
    BY <1>3 DEF Sess!RefuseDead, Sess!ResolveGrantsFails, Sess!TypeOK, Sess!Request
  <2>2. QED
    BY <2>1, LettingGo DEF Holding
<1>4. ASSUME NEW r \in Requests, Sess!Answer(r) \/ Sess!AnswerUnauthorized(r)
      PROVE  TouchInv'
  <2>1. /\ req[r].at \in {"ok", "refused"} /\ req'[r].at = "idle" /\ req'[r].begun = 0
        /\ \A q \in Requests \ {r} : req'[q] = req[q]
        /\ UNCHANGED <<now, rows>>
    BY <1>4 DEF Sess!Answer, Sess!AnswerUnauthorized, Sess!Quiet, Sess!TypeOK
  <2>2. QED
    BY <2>1, LettingGo DEF Holding
<1>5. QED
  BY <1>1, <1>2, <1>3, <1>4, LookupFollows, AcceptFollows, DecideFollows, TouchFollows,
     FailedTouchFollows, SignInFollows, RevokeFollows, TickFollows DEF Sess!Next

LEMMA TouchInvariant == Spec => [](site = "sessions" => TouchInv)
<1>1. Init => (site = "sessions" => TouchInv)
  <2> SUFFICES ASSUME Sess!Init
               PROVE  TouchInv
    BY DEF Init
  <2>1. now = 0 /\ \A s \in Sessions : rows[s] = Sess!NoRow
    BY DEF Sess!Init
  <2>2. \A r \in Requests : req[r].at = "idle" /\ req[r].begun = 0
    BY DEF Sess!Init, Sess!Quiet
  <2>3. \A s \in Sessions : RowHolds(s) /\ Accounted(s)
    BY <2>1, PolicyFields DEF Sess!NoRow, RowHolds, Accounted, IsLive
  <2>4. ASSUME NEW r \in Requests
        PROVE  RequestHolds(r)
    <3>1. req[r].at = "idle" /\ req[r].begun <= now
      BY <2>1, <2>2
    <3>2. QED
      BY <3>1 DEF RequestHolds, Holding
  <2>5. QED
    BY <2>3, <2>4 DEF TouchInv
<1>2. RowsInv /\ (site = "sessions" => TouchInv) /\ [Next]_vars => (site = "sessions" => TouchInv)'
  <2> SUFFICES ASSUME RowsInv, site = "sessions" => TouchInv, [Next]_vars, site' = "sessions"
               PROVE  TouchInv'
    OBVIOUS
  <2>1. CASE SessionsStep
    BY <2>1, TouchStep DEF SessionsStep, RowsInv, TypeOK
  <2>2. CASE UNCHANGED vars
    BY <2>2 DEF vars, sessionVars, TouchInv, RowHolds, Accounted, Paid, Owes, IsLive,
       RequestHolds, HeldHolds
  <2>3. QED
    BY <2>1, <2>2 DEF Next, Ended, SettingsStep, FactorsStep, SsoStep
<1>3. QED
  BY <1>1, <1>2, RowsInvariant, PTL DEF Spec

\* "Idle expiry is accurate to within one interval", and the row of a session in
\* use outlives the use by the renewal window, however requests overlap.
THEOREM RowsFollowUse == Spec => []RowFollowsUse
<1>1. (site = "sessions" => TouchInv) => RowFollowsUse
  <2> SUFFICES ASSUME TouchInv, NEW s \in Sessions,
                      Sess!Live(s), ~Sess!InFlight(s), ~rows[s].missed
               PROVE  Paid(s)
    <3>1. \A x \in Sessions : Paid(x) =>
              /\ rows[x].used <= rows[x].activity + Touch + MaxStall
              /\ rows[x].expires + Touch + MaxStall > rows[x].used + RenewWithin
      BY DEF Paid
    <3>2. QED
      BY <3>1 DEF RowFollowsUse, Sess!IdleAccurate, Sess!RowOutlivesUse
  <2>1. \A r \in Requests : ~Owes(r, s)
    BY DEF Sess!InFlight, Owes
  <2>2. QED
    BY <2>1 DEF TouchInv, Accounted, Sess!Live, IsLive
<1>2. QED
  BY <1>1, TouchInvariant, PTL

\* "IdleMinutes ends a session that has gone quiet": no session is used again
\* once it has been quiet for the idle time and a request's duration.
THEOREM QuietSessionsStayQuiet == Spec => QuietSessionsEnd
<1>1. RowsInv /\ (site = "sessions" => TouchInv) /\ [Next]_vars
      => [site = "sessions" => Sess!QuietSessionEnds]_vars
  <2> SUFFICES ASSUME RowsInv, TouchInv, site = "sessions", Next,
                      NEW s \in Sessions, Sess!Live(s), rows'[s].used # rows[s].used
               PROVE  rows'[s].used < rows[s].used + IdleTime + MaxStall
    BY DEF Sess!QuietSessionEnds
  <2>0. Sess!TypeOK /\ Carries
    BY DEF RowsInv, TypeOK
  <2>1. PICK r \in Requests : Sess!Accept(r) /\ req[r].sess = s
    <3>1. Sess!Next
      BY DEF Next, Ended, vars, sessionVars, SettingsStep, SessionsStep, FactorsStep, SsoStep
    <3>2. \A x \in Sessions : Sess!SignIn(x) => x # s
      BY DEF Sess!SignIn, Sess!Live
    <3>3. ASSUME NEW r \in Requests, Sess!Accept(r)
          PROVE  req[r].sess = s
      BY <2>0, <3>3 DEF Sess!Accept, Sess!TypeOK, Carries
    <3>4. ASSUME NEW r \in Requests, Sess!TouchSession(r) \/ Sess!TouchFails(r)
          PROVE  FALSE
      <4>1. PICK x \in Sessions : x = req[r].sess
        BY <2>0, <3>4 DEF Sess!TouchSession, Sess!TouchFails, Carries
      <4>2. PICK row \in Sess!Row : rows' = [rows EXCEPT ![x] = row] /\ row.used = rows[x].used
        <5>1. CASE Sess!TouchFails(r)
          BY <2>0, <4>1, <5>1 DEF Sess!TouchFails, Sess!TypeOK, Sess!Row
        <5>2. CASE Sess!TouchSession(r)
          BY <2>0, <4>1, <5>2 DEF Sess!TouchSession, Sess!TypeOK, Sess!Row
        <5>3. QED
          BY <3>4, <5>1, <5>2
      <4>3. QED
        BY <2>0, <4>2 DEF Sess!TypeOK
    <3>5. \A x \in Sessions : ~Sess!SignIn(x) /\ ~Sess!RevokeSession(x)
      BY <2>0, <3>2 DEF Sess!SignIn, Sess!RevokeSession, Sess!TypeOK, Sess!Row
    <3>6. rows' # rows
      OBVIOUS
    <3>7. QED
      BY <3>1, <3>3, <3>4, <3>5, <3>6 DEF Sess!Next, Sess!Send, Sess!Lookup, Sess!LookupFails,
         Sess!RefuseDead, Sess!DecideTouch, Sess!ResolveGrantsFails, Sess!Answer,
         Sess!AnswerUnauthorized, Sess!Tick
  <2>2. rows'[s].used = now /\ req[r].activity + IdleTime > now /\ req[r].at = "read"
    BY <2>0, <2>1 DEF Sess!Accept, Sess!Acceptable, Sess!TypeOK, Sess!Row
  <2>3. req[r].activity <= rows[s].used + MaxStall
    BY <2>1, <2>2 DEF TouchInv, RequestHolds, HeldHolds, Holding
  <2>4. QED
    BY <2>0, <2>2, <2>3, SessionFields, PolicyFields
<1>2. QED
  BY <1>1, RowsInvariant, TouchInvariant, PTL DEF Spec, QuietSessionsEnd
===============================================================================
