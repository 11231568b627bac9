--------------------------- MODULE KnowledgeLedger ---------------------------
(***************************************************************************)
(* What a WorldState promises about knowledge (world_state.py, "nothing is *)
(* silently deleted"): every item ever recorded stays on record under its  *)
(* id; an item that was retired, by being superseded, retracted or         *)
(* resolved, stays retired; and no two items in force say the same thing.  *)
(***************************************************************************)
VARIABLES
  entries,  \* every item ever recorded: its id, kind and text
  live      \* those in force

vars == <<entries, live>>

Init == entries = {} /\ live = {}

Same(a, b) == a.kind = b.kind /\ a.text = b.text

\* Any number of items in force are retired, and at most one is recorded.
Revise ==
  LET new == entries' \ entries
  IN  /\ entries \subseteq entries'
      /\ \A d, e \in new : d = e
      /\ \A e \in new, d \in entries : d.id # e.id
      /\ live' \subseteq live \cup new
      /\ \A d, e \in live' : Same(d, e) => d = e

Spec == Init /\ [][Revise]_vars
=============================================================================
