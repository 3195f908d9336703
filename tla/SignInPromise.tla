---------------------------- MODULE SignInPromise ----------------------------
(***************************************************************************)
(* What signing in promises, without requests, codes or passwords: a       *)
(* challenge is spent once and pays for at most one session, a session     *)
(* never changes what it was earned with, and a revoked session stays so.  *)
(* SignIn.tla implements it.                                               *)
(***************************************************************************)
CONSTANTS Challenges, Sessions, None

VARIABLES challenge,  \* how far each challenge has come
          session,    \* whether each session may be used
          source      \* the challenge each session was earned with

promiseVars == <<challenge, session, source>>

PromiseTypeOK ==
    /\ challenge \in [Challenges -> {"absent", "open", "spent", "redeemed"}]
    /\ session \in [Sessions -> {"absent", "live", "revoked"}]
    /\ source \in [Sessions -> Challenges \cup {None}]

PromiseInit == /\ challenge = [c \in Challenges |-> "absent"]
               /\ session = [s \in Sessions |-> "absent"]
               /\ source = [s \in Sessions |-> None]

Issue(s, c) == /\ session[s] = "absent"
               /\ session' = [session EXCEPT ![s] = "live"]
               /\ source' = [source EXCEPT ![s] = c]

\* A correct password opens a challenge...
Open(c) == /\ challenge[c] = "absent"
           /\ challenge' = [challenge EXCEPT ![c] = "open"]
           /\ UNCHANGED <<session, source>>

\* ...or, where no second factor applies, earns the session.
Admit(s) == Issue(s, None) /\ UNCHANGED challenge

\* A correct code spends the challenge; its session follows, or never comes.
Spend(c) == /\ challenge[c] = "open"
            /\ challenge' = [challenge EXCEPT ![c] = "spent"]
            /\ UNCHANGED <<session, source>>

Redeem(c, s) == /\ challenge[c] = "spent"
                /\ challenge' = [challenge EXCEPT ![c] = "redeemed"]
                /\ Issue(s, c)

\* Enrolment does both in one step.
SpendAndRedeem(c, s) == /\ challenge[c] = "open"
                        /\ challenge' = [challenge EXCEPT ![c] = "redeemed"]
                        /\ Issue(s, c)

Revoke(gone) == /\ \A s \in gone : session[s] = "live"
                /\ session' = [s \in Sessions |->
                      IF s \in gone THEN "revoked" ELSE session[s]]
                /\ UNCHANGED <<challenge, source>>

PromiseNext ==
    \/ \E c \in Challenges : Open(c) \/ Spend(c)
    \/ \E s \in Sessions : Admit(s)
    \/ \E c \in Challenges, s \in Sessions : Redeem(c, s) \/ SpendAndRedeem(c, s)
    \/ \E gone \in SUBSET Sessions : Revoke(gone)

PromiseSpec == PromiseInit /\ [][PromiseNext]_promiseVars
=============================================================================
