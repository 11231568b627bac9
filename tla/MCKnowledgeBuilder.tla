-------------------------- MODULE MCKnowledgeBuilder --------------------------
(***************************************************************************)
(* Instances of KnowledgeBuilder for TLC.                                  *)
(***************************************************************************)
EXTENDS KnowledgeBuilder

CONSTANTS a, b, c   \* a and b share most of their words, c has its own

Alike == {<<t, t>> : t \in Texts} \cup {<<a, b>>, <<b, a>>}

Extracted ==
  [fact |-> {a, b}, claim |-> {b}, goal |-> {c}, decision |-> {a, b}, unknown |-> {a, c}]

\* The user sends nothing more; only here may the system stop.
Quiet == phase = "idle" /\ turn = MaxTurns /\ UNCHANGED vars

MCSpec == Init /\ [][Next \/ Quiet]_vars
=============================================================================
