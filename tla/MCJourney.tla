------------------------------ MODULE MCJourney ------------------------------
(***************************************************************************)
(* Instances of Journey for TLC.                                           *)
(***************************************************************************)
EXTENDS Journey, TLC

CONSTANTS r1, r2, s1, s2, u1, u2, a1

JourneySymmetry ==
  Permutations(Requests) \cup Permutations(Users) \cup Permutations(Sessions)

\* s and u are the only Journey and the only account anything has happened to.
Lonely(s, u) ==
  /\ \A r \in Requests : sess[r] = s /\ who[r] \in {u} \cup Anons
  /\ \A t \in Sessions \ {s} : owner[t] = "absent"
  /\ owner[s] \notin Users \ {u}
  /\ \A v \in Users \ {u} : deleting[v] = {}
  /\ \A a \in Anons : claims[a] \subseteq {u}
  /\ \A p \in resetting : p.user = u

\* Two requests and a crash on one Journey of one account, or one request among
\* two Journeys of two accounts.
Scope ==
  \/ /\ crashes = 0
     /\ \E r \in Requests : \A q \in Requests \ {r} :
          pc[q] = "idle" /\ sess[q] = sess[r] /\ who[q] = who[r]
  \/ \E s \in Sessions, u \in Users : Lonely(s, u)

ScopedInit == Init /\ Scope
ScopedSpec == ScopedInit /\ [][Next /\ Scope']_vars
=============================================================================
