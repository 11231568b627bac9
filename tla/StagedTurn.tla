----------------------------- MODULE StagedTurn -----------------------------
(***************************************************************************)
(* What TurnResult (orchestrator/schema.py) promises of one turn after     *)
(* another: the four stages complete in their order, each at most once;    *)
(* the WorldState of the Journey takes the message in exactly when the     *)
(* first stage completes; the report names the first stage that did not    *)
(* complete, and everything completed before it stands.                    *)
(***************************************************************************)
EXTENDS Naturals, Sequences

CONSTANT MaxTurns

VARIABLES
  turn,        \* turns begun
  completed,   \* how many stages of the present turn have completed
  integrated,  \* messages the WorldState has taken in
  report       \* "open" while the turn runs, else how it ended

vars == <<turn, completed, integrated, report>>

StageOrder == <<"interpretation", "judgment", "planner", "response">>

Init ==
  /\ turn = 0
  /\ completed = 0
  /\ integrated = 0
  /\ report = "answered"

Begin ==
  /\ turn < MaxTurns
  /\ report # "open"
  /\ turn' = turn + 1
  /\ completed' = 0
  /\ report' = "open"
  /\ UNCHANGED integrated

CompleteStage ==
  /\ report = "open"
  /\ completed' = completed + 1
  /\ integrated' = IF completed = 0 THEN integrated + 1 ELSE integrated
  /\ report' = IF completed' = 4 THEN "answered" ELSE "open"
  /\ UNCHANGED turn

\* A report names the failed stage; "lost": the caller is given no report, and
\* keeps the WorldState it had.
Fail ==
  /\ report = "open"
  /\ report' = StageOrder[completed + 1]
  /\ UNCHANGED <<turn, completed, integrated>>

Lose ==
  /\ report = "open"
  /\ report' = "lost"
  /\ integrated' = IF completed = 0 THEN integrated ELSE integrated - 1
  /\ UNCHANGED <<turn, completed>>

Next == Begin \/ CompleteStage \/ Fail \/ Lose

Spec == Init /\ [][Next]_vars
=============================================================================
