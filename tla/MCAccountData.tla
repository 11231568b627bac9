----------------------------- MODULE MCAccountData -----------------------------
(***************************************************************************)
(* Instances of AccountData for TLC.                                       *)
(***************************************************************************)
EXTENDS AccountData, TLC

CONSTANTS r1, r2, r3, s1, s2, u1, u2

AccountSymmetry ==
  Permutations(Requests) \cup Permutations(Sessions) \cup Permutations(Users)

\* Two API calls beside one script, or one beside two.
Scope == runs < 2 \/ \E r \in Requests : \A q \in Requests \ {r} : call[q] = Idle

\* The accounts begin alike: all with the reflection prompt on, or all with it off.
ScopedInit == Init /\ \A u, v \in Users : prompt[u] = prompt[v]

ScopedSpec == ScopedInit /\ [][Next /\ Scope']_vars
=============================================================================
