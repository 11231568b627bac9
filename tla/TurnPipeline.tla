---------------------------- MODULE TurnPipeline ----------------------------
(***************************************************************************)
(* One Journey's turns through orchestrator/engine.py: run_turn calls the  *)
(* four stages in order, each with one retry; each attempt asks the models *)
(* of the component's chain one after the other (llm/providers.py) and     *)
(* validates the text it gets (the stage's engine.py).  The caller hands   *)
(* in the WorldState and keeps the one of the TurnResult; when run_turn    *)
(* raises there is none and it keeps its own.                              *)
(*                                                                         *)
(* A WorldState is abstracted to turn numbers: turn_count, and the turns   *)
(* at which its parts were last computed.  LLM_PROVIDER names a known      *)
(* provider.                                                               *)
(*                                                                         *)
(* A definition headed "Fault:" is no part of the specification.           *)
(***************************************************************************)
EXTENDS Naturals, Sequences, FiniteSets

CONSTANTS
  Chain,      \* Chain[s]: length of _resolve_model_chain for stage s
  Window,     \* RECENT_RESPONSE_QUESTIONS_WINDOW, and that of the plans
  RunTier2,   \* the caller's run_tier2
  MaxTurns    \* how many turns are considered

StageOrder == <<"interpretation", "judgment", "planner", "response">>
StageNames == {"interpretation", "judgment", "planner", "response"}

ASSUME ChainAssumption == Chain \in [StageNames -> Nat \ {0}]
ASSUME WindowAssumption == Window \in Nat \ {0}
ASSUME FlagAssumption == RunTier2 \in BOOLEAN /\ MaxTurns \in Nat

VARIABLES
  turn,       \* turns begun
  base,       \* the WorldState the caller handed in
  doc,        \* run_turn's `state`
  completed,  \* how many stages have completed and been told to on_stage_complete
  events,     \* behavioral_events so far, by the mutation they diff
  attempt,    \* which attempt of the present stage, 1 or 2
  model,      \* which model of its chain
  step,       \* "ask" that model, or "parse" the text it answered with
  keyed,      \* an API key is set
  listening,  \* on_response_token was given
  streamed,   \* the drafts whose fragments went to on_response_token
  sent,       \* the draft the response was parsed from
  calls,      \* calls[s]: HTTP requests made for s in this turn
  report,     \* "open", "answered", the failed stage, or "lost": it raised
  said        \* history: the turns whose response asked a question

turnVars == <<completed, events, attempt, model, step, streamed, sent, calls>>
vars == <<turn, base, doc, turnVars, keyed, listening, report, said>>

-----------------------------------------------------------------------------
NewWorld == [turns |-> 0, tier1 |-> 0, tier2 |-> 0, judged |-> 0, planned |-> <<>>, asked |-> <<>>]

Stage == StageOrder[completed + 1]
Draft == [attempt |-> attempt, model |-> model]
NoDraft == [attempt |-> 0, model |-> 0]
NoCalls == [s \in StageNames |-> 0]

\* Fault: the wrong end of the list is kept.
RememberFirst(q, t) ==
  LET all == Append(q, t)
  IN  IF Len(all) > Window THEN SubSeq(all, 1, Window) ELSE all

\* (q + [t])[-Window:]
Remember(q, t) ==
  LET all == Append(q, t)
  IN  IF Len(all) > Window THEN SubSeq(all, Len(all) - Window + 1, Len(all)) ELSE all

\* Fault: every attempt streams.
StreamingAlways == listening /\ Stage = "response"

\* Only the first attempt at a response is given the token callback.
Streaming == listening /\ Stage = "response" /\ attempt = 1

Init ==
  /\ turn = 0
  /\ base = NewWorld /\ doc = NewWorld
  /\ completed = 0 /\ events = {}
  /\ attempt = 1 /\ model = 1 /\ step = "ask"
  /\ keyed \in BOOLEAN /\ listening = FALSE
  /\ streamed = {} /\ sent = NoDraft
  /\ calls = NoCalls
  /\ report = "answered"
  /\ said = <<>>

Begin ==
  /\ report # "open"
  /\ turn < MaxTurns
  /\ turn' = turn + 1
  /\ base' = doc
  /\ completed' = 0 /\ events' = {}
  /\ attempt' = 1 /\ model' = 1 /\ step' = "ask"
  /\ listening' \in BOOLEAN
  /\ streamed' = {} /\ sent' = NoDraft
  /\ calls' = NoCalls
  /\ report' = "open"
  /\ UNCHANGED <<doc, keyed, said>>

-----------------------------------------------------------------------------
(* One attempt: call_openrouter, then the engine's parsing and validation. *)

\* Fault: a stage is retried until it succeeds.
RetryForever ==
  /\ attempt' = 2 /\ model' = 1 /\ step' = "ask"
  /\ UNCHANGED report

\* The engine raised its own error: _with_bounded_retry makes one more
\* attempt, after which the turn is reported as failed at this stage.
AttemptFails ==
  \/ /\ attempt = 1
     /\ attempt' = 2 /\ model' = 1 /\ step' = "ask"
     /\ UNCHANGED report
  \/ /\ attempt = 2
     /\ report' = Stage
     /\ step' = "ask"
     /\ UNCHANGED <<attempt, model>>

\* A streamed call hands fragments on as they arrive, whatever becomes of it;
\* there are none when "response_text" never appears in them.
Emit ==
  \/ Streaming /\ streamed' = streamed \cup {Draft}
  \/ UNCHANGED streamed

Request == calls' = [calls EXCEPT ![Stage] = @ + 1]

\* Fault: a missing key is not counted as an attempt.
NoKeyRetries ==
  /\ report = "open" /\ step = "ask" /\ ~keyed
  /\ attempt' = 2 /\ model' = 1 /\ step' = "ask"
  /\ UNCHANGED <<turn, base, doc, completed, events, keyed, listening, streamed, sent, calls, report, said>>

\* No key: ProviderCallError before any model is asked.
NoKey ==
  /\ report = "open" /\ step = "ask" /\ ~keyed
  /\ AttemptFails
  /\ UNCHANGED <<turn, base, doc, completed, events, keyed, listening, streamed, sent, calls, said>>

\* Unreachable, timed out, refused, malformed or empty: the next model of the
\* chain, or the attempt fails.
ModelFails ==
  /\ report = "open" /\ step = "ask" /\ keyed
  /\ Request /\ Emit
  /\ \/ /\ model < Chain[Stage]
        /\ model' = model + 1
        /\ UNCHANGED <<attempt, step, report>>
     \/ /\ model = Chain[Stage]
        /\ AttemptFails
  /\ UNCHANGED <<turn, base, doc, completed, events, keyed, listening, sent, said>>

ModelAnswers ==
  /\ report = "open" /\ step = "ask" /\ keyed
  /\ Request /\ Emit
  /\ step' = "parse"
  /\ UNCHANGED <<turn, base, doc, completed, events, attempt, model, keyed, listening, sent, report, said>>

\* Not JSON, or JSON the stage's schema refuses.
OutputRefused ==
  /\ report = "open" /\ step = "parse"
  /\ AttemptFails
  /\ UNCHANGED <<turn, base, doc, completed, events, keyed, listening, streamed, sent, calls, said>>

\* Fault: run_turn had changed the caller's own WorldState.
RaiseInPlace ==
  /\ report' = "lost"
  /\ UNCHANGED <<doc, turn, base, completed, events, attempt, model, step, keyed, listening, sent, said>>

\* An exception nothing on the way catches; the caller's WorldState stands.
Raise ==
  /\ report' = "lost"
  /\ doc' = base
  /\ UNCHANGED <<turn, base, completed, events, attempt, model, step, keyed, listening, sent, said>>

\* The connection breaks while iter_lines reads the stream: a
\* RequestException, from outside the try around requests.post.
StreamBreaks ==
  /\ report = "open" /\ step = "ask" /\ keyed /\ Streaming
  /\ Request /\ Emit
  /\ Raise

\* JSON, but no object: Schema(**data) is a TypeError, not a ValidationError.
OutputNoObject ==
  /\ report = "open" /\ step = "parse"
  /\ Raise
  /\ UNCHANGED <<streamed, calls>>

-----------------------------------------------------------------------------
(* What run_turn does with a stage's result.                               *)

NextStage(s) ==
  /\ report = "open" /\ step = "parse" /\ Stage = s
  /\ completed' = completed + 1
  /\ attempt' = 1 /\ model' = 1 /\ step' = "ask"

\* Fault: Tier 1 is left for the end of the turn.
InterpretOnly ==
  /\ NextStage("interpretation")
  /\ doc' = [doc EXCEPT !.turns = @ + 1]
  /\ events' = events \cup {"update"}
  /\ UNCHANGED <<turn, base, keyed, listening, streamed, sent, calls, report, said>>

\* update_state, recommend_phase_transition, build_tier1_statements.
Interpret ==
  /\ NextStage("interpretation")
  /\ doc' = [doc EXCEPT !.turns = @ + 1, !.tier1 = doc.turns + 1]
  /\ events' = events \cup {"update"}
  /\ UNCHANGED <<turn, base, keyed, listening, streamed, sent, calls, report, said>>

\* apply_judgment_resolutions, apply_knowledge_corrections and, when the
\* caller wants it here, update_tier2, which may be not due or fail.
Judge ==
  /\ NextStage("judgment")
  /\ \E t2 \in {doc.tier2} \cup (IF RunTier2 THEN {doc.turns} ELSE {}) :
       doc' = [doc EXCEPT !.judged = doc.turns, !.tier2 = t2]
  /\ events' = events \cup {"resolutions", "corrections"}
  /\ UNCHANGED <<turn, base, keyed, listening, streamed, sent, calls, report, said>>

\* strip_leaked_ids and the repeated-question filter: the questions that are
\* left, if any, are remembered.
Plan ==
  /\ NextStage("planner")
  /\ \E p \in {doc.planned, Remember(doc.planned, turn)} : doc' = [doc EXCEPT !.planned = p]
  /\ UNCHANGED <<turn, base, events, keyed, listening, streamed, sent, calls, report, said>>

\* The response and, if it asks one, its closing question.
Respond ==
  /\ NextStage("response")
  /\ sent' = Draft
  /\ report' = "answered"
  /\ \/ /\ doc' = [doc EXCEPT !.asked = Remember(@, turn)]
        /\ said' = Append(said, turn)
     \/ UNCHANGED <<doc, said>>
  /\ UNCHANGED <<turn, base, events, keyed, listening, streamed, calls>>

Step ==
  \/ NoKey \/ ModelFails \/ ModelAnswers \/ OutputRefused
  \/ StreamBreaks \/ OutputNoObject
  \/ Interpret \/ Judge \/ Plan \/ Respond

Next == Begin \/ Step

\* Every HTTP request ends: it has a timeout of 180 s, and a provider that
\* streams stops streaming.
Fairness == WF_vars(Step)

SafetySpec == Init /\ [][Next]_vars
Spec == SafetySpec /\ Fairness

-----------------------------------------------------------------------------
(* Correctness.                                                            *)

World == [turns : Nat, tier1 : Nat, tier2 : Nat, judged : Nat, planned : Seq(Nat), asked : Seq(Nat)]
Drafts == [attempt : {1, 2}, model : Nat]

TypeOK ==
  /\ turn \in Nat
  /\ base \in World
  /\ doc \in World
  /\ completed \in 0..4
  /\ events \subseteq {"update", "resolutions", "corrections"}
  /\ attempt \in {1, 2}
  /\ model \in Nat
  /\ step \in {"ask", "parse"}
  /\ keyed \in BOOLEAN
  /\ listening \in BOOLEAN
  /\ streamed \subseteq Drafts
  /\ sent \in Drafts \cup {NoDraft}
  /\ calls \in [StageNames -> Nat]
  /\ report \in StageNames \cup {"open", "answered", "lost"}
  /\ said \in Seq(Nat)

Done(s) == \E i \in 1..completed : StageOrder[i] = s

\* TurnResult.state "is always present and always accurate": the message is
\* in it exactly once when Interpretation completed, however often later
\* stages were retried or failed, and not at all otherwise; what was derived
\* from it (Tier 1, the corrections, the events that diff them) goes with the
\* stage that completed.
StateAccurate ==
  report # "lost" =>
    /\ doc.turns = base.turns + (IF Done("interpretation") THEN 1 ELSE 0)
    /\ doc.tier1 = doc.turns
    /\ Done("judgment") <=> doc.judged = base.turns + 1
    /\ events = (IF Done("interpretation") THEN {"update"} ELSE {})
                  \cup (IF Done("judgment") THEN {"resolutions", "corrections"} ELSE {})
    /\ ~Done("planner") => doc.planned = base.planned
    /\ ~Done("response") => doc.asked = base.asked

\* "a garbled mix of two different draft responses" never reaches the
\* listener: the fragments of a turn are all of one draft, and when that
\* attempt succeeded it is the draft the response was made from.
OneDraftStreamed ==
  /\ Cardinality(streamed) <= 1
  /\ sent.attempt = 1 => streamed \subseteq {sent}

\* "exactly ONE additional attempt": a stage costs at most two runs of its
\* chain and a later stage nothing before it is reached.
RetryBounded ==
  /\ \A s \in StageNames : calls[s] <= 2 * Chain[s]
  /\ \A i \in DOMAIN StageOrder : i > completed + 1 => calls[StageOrder[i]] = 0

\* The questions the next response is told not to repeat are the last ones
\* the user was really sent: a failed or lost turn adds none, and loses none.
RemembersWhatWasSaid ==
  report # "open" =>
    doc.asked = SubSeq(said, IF Len(said) > Window THEN Len(said) - Window + 1 ELSE 1, Len(said))

\* Every turn ends, in a report or an exception.
TurnEnds == report = "open" ~> report # "open"

\* run_turn "Never raises".
NeverRaises == report # "lost"

Staged == INSTANCE StagedTurn WITH integrated <- doc.turns

\* The pipeline, with its attempts, models and retries, is a StagedTurn.
ReportsAsPromised == Staged!Spec
=============================================================================
