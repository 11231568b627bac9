------------------------------ MODULE ClarityBrief ------------------------------
(***************************************************************************)
(* GET /sessions/{id}/clarity-brief (api/server.py) with the brief of      *)
(* executor/engine.py: it builds the brief of the last completed turn,     *)
(* tells what changed since the brief stored last, and stores its own.     *)
(* The calls of two tabs are processes, each database call a step; turns   *)
(* complete in between.                                                    *)
(*                                                                         *)
(* A brief is abstracted to what its diff compares: matters, which are     *)
(* told when they disappear (decisions, open unknowns), and tensions,      *)
(* which are told when they appear (contradictions, priorities).           *)
(***************************************************************************)
EXTENDS Naturals, FiniteSets

CONSTANTS
  Looks,            \* calls of the endpoint
  Matters, Tensions,
  MaxBriefs         \* bound: completed turns

VARIABLES
  shown,       \* the brief debug_json yields, or NoBrief
  turnsDone,   \* completed turns
  cursor,      \* previous_brief_json
  look,        \* look[q]: progress, the brief built, the previous one, what it told
  lastSeen,    \* history: the brief returned by the call that stored last
  crossed      \* history: crossed[q]: another call stored while q was under way

briefVars == <<shown, turnsDone, cursor, look, lastSeen, crossed>>

NoBrief == [none |-> TRUE]
Briefs == [matters : SUBSET Matters, tensions : SUBSET Tensions]
NoLook == [at |-> "unasked", brief |-> NoBrief, previous |-> NoBrief, told |-> {}]

BriefInit ==
  /\ shown = NoBrief /\ turnsDone = 0 /\ cursor = NoBrief
  /\ look = [q \in Looks |-> NoLook]
  /\ lastSeen = NoBrief /\ crossed = [q \in Looks |-> FALSE]

\* A turn saves its debug_json: with Judgment and Planner a brief can be built
\* from it, without them it takes the earlier turn's brief away.
CompleteTurn(b) ==
  /\ turnsDone < MaxBriefs
  /\ turnsDone' = turnsDone + 1 /\ shown' = b
  /\ UNCHANGED <<cursor, look, lastSeen, crossed>>

\* diff_clarity_briefs
Changes(previous, current) ==
  IF previous = NoBrief THEN {}
  ELSE (previous.matters \ current.matters) \cup (current.tensions \ previous.tensions)

\* load_debug and build_clarity_brief; 404 before there is anything to build.
LoadBrief(q) ==
  /\ look[q].at = "unasked" /\ shown # NoBrief
  /\ look' = [look EXCEPT ![q].at = "built", ![q].brief = shown]
  /\ UNCHANGED <<shown, turnsDone, cursor, lastSeen, crossed>>

NothingYet(q) ==
  /\ look[q].at = "unasked" /\ shown = NoBrief
  /\ look' = [look EXCEPT ![q].at = "told"]
  /\ UNCHANGED <<shown, turnsDone, cursor, lastSeen, crossed>>

Compare(q) ==
  /\ look[q].at = "built"
  /\ look' = [look EXCEPT ![q].at = "compared", ![q].previous = cursor,
                          ![q].told = Changes(cursor, look[q].brief)]
  /\ UNCHANGED <<shown, turnsDone, cursor, lastSeen, crossed>>

UnderWay(q) == look[q].at \in {"built", "compared"}

\* Fault: the brief stored is the one on hand now, not the one returned.
StoreLatest(q) ==
  /\ look[q].at = "compared"
  /\ look' = [look EXCEPT ![q].at = "told"]
  /\ cursor' = shown /\ lastSeen' = look[q].brief
  /\ crossed' = [p \in Looks |-> crossed[p] \/ (p # q /\ UnderWay(p))]
  /\ UNCHANGED <<shown, turnsDone>>

\* save_previous_brief_json
StoreBrief(q) ==
  /\ look[q].at = "compared"
  /\ look' = [look EXCEPT ![q].at = "told"]
  /\ cursor' = look[q].brief /\ lastSeen' = look[q].brief
  /\ crossed' = [p \in Looks |-> crossed[p] \/ (p # q /\ UnderWay(p))]
  /\ UNCHANGED <<shown, turnsDone>>

BriefNext ==
  \/ \E b \in Briefs \cup {NoBrief} : CompleteTurn(b)
  \/ \E q \in Looks : LoadBrief(q) \/ NothingYet(q) \/ Compare(q) \/ StoreBrief(q)

BriefSpec == BriefInit /\ [][BriefNext]_briefVars

\* "What changed recently" of a call no other call crossed is exactly what
\* changed since the brief somebody was last shown, whichever turns completed
\* while either was being built.
ToldSinceLastLook ==
  \A q \in Looks :
    look[q].at = "compared" /\ ~crossed[q] => look[q].told = Changes(lastSeen, look[q].brief)
=============================================================================
