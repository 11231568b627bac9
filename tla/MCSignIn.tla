------------------------------ MODULE MCSignIn ------------------------------
(***************************************************************************)
(* Instances of SignIn for TLC.                                            *)
(***************************************************************************)
EXTENDS SignIn, TLC

CONSTANTS b1, b2, e1, e2, l1, l2, v1, v2, j1

SignInSymmetry ==
  Permutations(Browsers) \cup Permutations(Emails) \cup Permutations(Links)
    \cup Permutations(Verifies) \cup Permutations(Journeys)

\* Links, calls and ids are used up; only then may the system stop.
Quiet ==
  /\ \A v \in Verifies : pc[v] \notin Running
  /\ UNCHANGED vars

MCSpec == Init /\ [][Next \/ Quiet]_vars
=============================================================================
