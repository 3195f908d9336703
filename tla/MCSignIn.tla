------------------------------ MODULE MCSignIn ------------------------------
(***************************************************************************)
(* Instances of SignIn for TLC.                                            *)
(***************************************************************************)
EXTENDS SignIn, TLC

\* Rows and requests are interchangeable.
Symmetry == Permutations(Requests) \cup Permutations(Challenges)
              \cup Permutations(Sessions) \cup Permutations(RecoveryCodes)
              \cup Permutations(Methods)
=============================================================================
