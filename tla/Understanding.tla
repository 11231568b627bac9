----------------------------- MODULE Understanding -----------------------------
(***************************************************************************)
(* What a Journey understands of a situation: the Tier1 statements, one    *)
(* per visible knowledge item (understanding/engine.py), and the Tier2     *)
(* synthesis over a pool of them (understanding/tier2_engine.py), which    *)
(* costs an LLM call and is therefore recomputed only when its gate says   *)
(* so.  One turn, then its background task; their overlap is in Journey.   *)
(*                                                                         *)
(* Threads are goals, decisions and unknowns, details everything else.     *)
(* The synthesis is abstracted to one statement, and that to its evidence. *)
(***************************************************************************)
EXTENDS Naturals, FiniteSets

CONSTANTS
  Goals, Decisions, Unknowns,   \* items that are threads
  Facts,                \* items that are details: facts and claims, assumptions, inferences
  Renewables,           \* and those that are renewed: entities, emotions
  RecencyWindow,        \* TIER2_RECENCY_WINDOW_TURNS
  StalenessTurns,       \* TIER2_STALENESS_TURNS
  MinGrounding,         \* MIN_GROUNDING_ITEMS
  LastTurn              \* bound: turns

Threads == Goals \cup Decisions \cup Unknowns
Details == Facts \cup Renewables

ASSUME UnderstandingAssumption ==
  /\ Threads \cap Details = {} /\ Facts \cap Renewables = {}
  /\ {RecencyWindow, StalenessTurns, MinGrounding, LastTurn} \subseteq Nat

VARIABLES
  status,        \* status[i], see Statuses
  lastUpdated,   \* lastUpdated[i]: provenance.last_updated, of details
  turnCount,     \* turn_count
  tier2,         \* evidence of the synthesis, {} = none
  signature,     \* tier2_grounding_signature
  computedAt,    \* tier2_computed_at_turn, as a set: {} = None
  awaiting,      \* the turn's background task is still to run
  missed,        \* history: this turn's synthesis failed, or its task was lost
  outSince       \* history: outSince[i]: the turn that closed i or hid it, 0 while it stands

understandingVars == <<status, lastUpdated, turnCount, tier2, signature, computedAt,
                       awaiting, missed, outSince>>

Items == Threads \cup Details

UnderstandingInit ==
  /\ status = [i \in Items |-> "absent"]
  /\ lastUpdated = [i \in Details |-> 0] /\ turnCount = 0
  /\ tier2 = {} /\ signature = {} /\ computedAt = {}
  /\ awaiting = FALSE /\ missed = FALSE
  /\ outSince = [i \in Items |-> 0]

\* "held": paused, deferred; "ended": completed, resolved, and still stated;
\* "hidden": abandoned, answered, retracted, superseded.
Statuses == {"absent", "open", "held", "ended", "hidden"}

Fresh(i) == IF status[i] = "absent" THEN {"open"} ELSE {}

\* How a turn may move an item: a goal to any status Interpretation names, open
\* again included; a decision to deferred or resolved and back, never to open; an
\* answered unknown and a corrected fact stay as they are, a signal stays.
Moves(i) ==
  {status[i]} \cup
  CASE i \in Goals -> Statuses \ {"absent"}
    [] i \in Decisions -> Fresh(i) \cup {"held", "ended"}
    [] i \in Unknowns -> Fresh(i) \cup (IF status[i] = "open" THEN {"hidden"} ELSE {})
    [] i \in Facts -> Fresh(i) \cup {"hidden"}
    [] OTHER -> Fresh(i)

\* The item as it is can be evidence of a pattern.
OpenStatuses == {"open", "held"}

\* A turn: update_state, then Judgment's resolutions and corrections.
Integrate(now, renewed) ==
  /\ \A i \in Items : now[i] \in Moves(i)
  /\ \A i \in renewed : status[i] = "open"
  /\ turnCount' = turnCount + 1
  /\ status' = now
  /\ lastUpdated' = [i \in Details |->
       IF now[i] # status[i] \/ i \in renewed THEN turnCount + 1 ELSE lastUpdated[i]]
  /\ outSince' = [i \in Items |->
       IF now[i] \in OpenStatuses \cup {"absent"} THEN 0
       ELSE IF status[i] \in {"ended", "hidden"} THEN outSince[i] ELSE turnCount + 1]
  /\ awaiting' = TRUE /\ missed' = FALSE
  /\ UNCHANGED <<tier2, signature, computedAt>>

Turn ==
  /\ ~awaiting /\ turnCount < LastTurn
  /\ \E threads \in [Threads -> Statuses], details \in [Details -> {"absent", "open", "hidden"}] :
     \E renewed \in SUBSET Renewables :
       Integrate([i \in Items |-> IF i \in Threads THEN threads[i] ELSE details[i]], renewed)

\* Interpretation failed: the state is saved as it was, and its task is run.
TurnFails ==
  /\ ~awaiting
  /\ awaiting' = TRUE /\ missed' = FALSE
  /\ UNCHANGED <<status, lastUpdated, turnCount, tier2, signature, computedAt, outSince>>

\* build_tier1_statements: the items a statement is made of.
Tier1 == {i \in Items : status[i] \in {"open", "held", "ended"}}

\* select_tier2_candidates: open threads however old, details while recent.
Candidates ==
  {i \in Tier1 : IF i \in Threads THEN status[i] \in OpenStatuses
                 ELSE turnCount - lastUpdated[i] <= RecencyWindow}

GroundingSignature == {<<i, status[i]>> : i \in Candidates \cap Threads}

\* Fault: the staleness backstop is missing.
RecomputeOnChange == signature # GroundingSignature \/ computedAt = {}

ShouldRecompute ==
  \/ signature # GroundingSignature
  \/ computedAt = {}
  \/ \E t \in computedAt : turnCount - t >= StalenessTurns

\* _enforce_grounding
GroundedIn(cited) ==
  LET real == {k \in DOMAIN cited : cited[k] \in Candidates}
  IN IF Cardinality(real) < MinGrounding THEN {} ELSE {cited[k] : k \in real}

\* run_tier2_synthesis: a pool too small to synthesise is not sent.
Syntheses ==
  IF Cardinality(Candidates) < MinGrounding THEN {{}}
  ELSE {GroundedIn(cited) : cited \in [1..MinGrounding -> Items]} \cup {{}}

GateStaysShut ==
  /\ awaiting /\ ~ShouldRecompute
  /\ awaiting' = FALSE
  /\ UNCHANGED <<status, lastUpdated, turnCount, tier2, signature, computedAt, missed, outSince>>

Synthesise ==
  /\ awaiting /\ ShouldRecompute
  /\ tier2' \in Syntheses
  /\ signature' = GroundingSignature /\ computedAt' = {turnCount}
  /\ awaiting' = FALSE
  /\ UNCHANGED <<status, lastUpdated, turnCount, missed, outSince>>

\* Everything stays as it was, the gate included.
Missed ==
  /\ awaiting /\ awaiting' = FALSE /\ missed' = TRUE
  /\ UNCHANGED <<status, lastUpdated, turnCount, tier2, signature, computedAt, outSince>>

\* Every provider failed; or the process stopped before the task was done.
SynthesisFails == ShouldRecompute /\ Cardinality(Candidates) >= MinGrounding /\ Missed
TaskLost == Missed

UnderstandingNext ==
  \/ Turn \/ TurnFails
  \/ GateStaysShut \/ Synthesise \/ SynthesisFails \/ TaskLost

UnderstandingSpec == UnderstandingInit /\ [][UnderstandingNext]_understandingVars

\* The gate reacts to threads at once and to details only by age.  Unless this
\* turn's synthesis was missed, what is shown as a pattern rests on no thread that
\* is closed, and on no detail that has been out of sight for as many turns as
\* the backstop allows; a missed one is caught up the turn after.
RestsOnTheLiving ==
  ~awaiting /\ ~missed =>
    \A i \in tier2 :
      status[i] \in OpenStatuses \/ (i \in Details /\ turnCount - outSince[i] < StalenessTurns)

\* The evidence of a synthesis was on offer when it was computed: nothing the
\* model made up, and nothing that was closed or hidden by then.
SynthesisGrounded ==
  \A i \in tier2 :
    status[i] # "absent" /\ (outSince[i] > 0 => \A t \in computedAt : outSince[i] > t)

\* A synthesis is what it rests on: on evidence that was there when it was
\* made, and that has not been gone for longer than the gate may overlook.
SynthesisStands == SynthesisGrounded /\ RestsOnTheLiving
=============================================================================
