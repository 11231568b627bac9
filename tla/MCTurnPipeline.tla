--------------------------- MODULE MCTurnPipeline ---------------------------
(***************************************************************************)
(* Instances of TurnPipeline for TLC.                                      *)
(***************************************************************************)
EXTENDS TurnPipeline

\* The chains of _DEFAULT_COMPONENT_MODELS: two models for the reasoning
\* stages, one for the response.
DefaultChain == [s \in StageNames |-> IF s = "response" THEN 1 ELSE 2]

\* The user sends nothing more; only here may the system stop.
Quiet == turn = MaxTurns /\ report # "open" /\ UNCHANGED vars

MCSpec == Init /\ [][Next \/ Quiet]_vars /\ Fairness
=============================================================================
