----------------------------- MODULE StageOutputs -----------------------------
(***************************************************************************)
(* What the four stages do to a model's answer before anything else sees   *)
(* it: the schemas refuse or repair it, the engines drop what is not       *)
(* grounded, and run_turn filters the questions the Planner asks again     *)
(* (interpretation, judgment, planner and response: schema.py, engine.py). *)
(*                                                                         *)
(* A text is a kind, told apart by how much of it is in the person's own   *)
(* words; scores are in hundredths, confidences in tenths.                 *)
(***************************************************************************)
EXTENDS Naturals, Sequences, SequencesExt

CONSTANTS
  Interpretations,  \* what the model may answer, per stage
  Judgments,
  Plans,
  Replies,
  QuestionWindow,   \* RECENT_QUESTIONS_WINDOW
  LastExchange      \* bound: turns

\* The fields an answer must have to be looked at; the comment beside a flag is
\* told from every text of a list.
Outcomes == [option : STRING, status : STRING]
FreeTexts == [text : STRING, leaks : BOOLEAN]
Questions == [topic : STRING, leaks : BOOLEAN]

InterpretationFields ==
  [assumptions : SUBSET STRING, hasAssumption : BOOLEAN, check : SUBSET {"comment"},
   tiers : SUBSET STRING, biases : SUBSET STRING, goals : SUBSET STRING, options : SUBSET STRING,
   entities : SUBSET STRING, unknowns : SUBSET STRING,
   hasEvent : BOOLEAN, event : Outcomes, events : SUBSET Outcomes,
   inferences : SUBSET [hedged : BOOLEAN, confidence : Nat]]
JudgmentFields ==
  [hasRisk : BOOLEAN, scan : SUBSET FreeTexts, risks : SUBSET FreeTexts,
   hasResolution : BOOLEAN, resolution : Outcomes, resolutions : SUBSET Outcomes,
   hasCorrection : BOOLEAN, correction : [target : STRING, kind : STRING, content : STRING],
   corrections : SUBSET [target : STRING, kind : STRING, content : STRING],
   insights : SUBSET FreeTexts, evidence : SUBSET STRING, confidence : Nat]
PlanFields == [questions : Seq(Questions), confidence : Nat]

ASSUME StageOutputsAssumption ==
  /\ QuestionWindow \in Nat \ {0} /\ LastExchange \in Nat
  /\ Interpretations \subseteq InterpretationFields /\ Judgments \subseteq JudgmentFields
  /\ Plans \subseteq PlanFields

VARIABLES
  exchange,      \* turns begun
  due,           \* the stage whose answer is awaited
  interpreted,   \* what each stage returned this turn, or Nothing
  judged,
  planned,
  answered,
  recent,        \* WorldState.recent_planner_questions
  proposed       \* history: the questions that were kept, with their turns

stageOutputsVars == <<exchange, due, interpreted, judged, planned, answered, recent, proposed>>

Nothing == [none |-> TRUE]

StageOutputsInit ==
  /\ exchange = 0 /\ due = "none"
  /\ interpreted = Nothing /\ judged = Nothing /\ planned = Nothing /\ answered = Nothing
  /\ recent = <<>> /\ proposed = <<>>

-----------------------------------------------------------------------------
(* Schema: what a repair adds, and what is refused.                        *)

\* _normalize_unit_interval: an answer on a scale of ten is brought to one.
Rescale(tenths) == IF tenths > 10 THEN tenths \div 10 ELSE tenths

\* _cap_hedged_confidence
Capped(inference) ==
  IF inference.hedged /\ inference.confidence > 4 THEN [inference EXCEPT !.confidence = 4] ELSE inference

\* A flag the model set is the word it gave: an empty list is filled with what
\* it wrote beside the flag, if it wrote anything.
Repaired(flag, list, found) == IF flag /\ list = {} THEN found ELSE list

Resolution(d) ==
  IF "" \in {d.option, d.status} THEN {} ELSE {[option |-> d.option, status |-> d.status]}
Correction(d) ==
  IF d.target = "" \/ d.kind = "" \/ (d.kind = "superseded" /\ d.content = "") THEN {}
  ELSE {[target |-> d.target, kind |-> d.kind, content |-> IF d.kind = "superseded" THEN d.content ELSE ""]}

\* Interpretation._clean_up_cross_field_issues
CleanUp(d) ==
  [d EXCEPT !.entities = @ \ {"pronoun"},
            !.assumptions = Repaired(d.hasAssumption, @, d.check),
            !.events = Repaired(d.hasEvent, @, Resolution(d.event)),
            !.inferences = {Capped([i EXCEPT !.confidence = Rescale(@)]) : i \in @}]

\* Judgment._repair_risk_list
Repair(d) ==
  [d EXCEPT !.risks = Repaired(d.hasRisk, @, d.scan),
            !.resolutions = Repaired(d.hasResolution, @, Resolution(d.resolution)),
            !.corrections = Repaired(d.hasCorrection, @, Correction(d.correction))]

\* Only Interpretation rescales what is out of range.
InRange(tenths) == tenths <= 10

\* Response: some text, and at most three complete choices.
Usable(d) ==
  /\ InRange(d.confidence) /\ d.text # ""
  /\ Len(d.options) <= 3 /\ "" \notin ToSet(d.options)

-----------------------------------------------------------------------------
(* Engine: what is not grounded goes.                                      *)

\* How much of a text is in the person's words, and of its reason if it gives
\* one ("because ...").
Overlap(text) ==
  CASE text \in {"quote", "question"} -> 90 [] text \in {"reason", "pretext"} -> 67
    [] text = "gist" -> 50 [] OTHER -> 14
ReasonOverlap(text) == IF text = "pretext" THEN 20 ELSE Overlap(text)
GivesReason(text) == text \in {"reason", "pretext"}

AtLeast(texts, threshold) == {t \in texts : Overlap(t) >= threshold}

IsAssumption(text, tiers) ==
  /\ ReasonOverlap(text) >= 45
  /\ text # "question"
  /\ text \notin tiers
  /\ GivesReason(text) \/ Overlap(text) < 70

Ground(d) ==
  [d EXCEPT !.biases = AtLeast(@, 60),
            !.goals = AtLeast(@, 40),
            !.options = AtLeast(@, 50),
            !.entities = AtLeast(@, 50),
            !.unknowns = @ \ {"planning"},
            !.assumptions = {a \in @ : IsAssumption(a, d.tiers)}]

\* Fault: the schema's repair is thought enough.
GroundLast(d) == Ground(CleanUp(d))

\* run_interpretation: grounding may empty the list the schema had repaired.
Interpreted(d) ==
  LET grounded == Ground(CleanUp(d))
  IN [grounded EXCEPT !.assumptions = Repaired(d.hasAssumption, @, d.check)]

\* strip_leaked_ids: of free texts, not of what quotes the world.
Stripped(texts) == {[t EXCEPT !.leaks = FALSE] : t \in texts}

\* run_judgment
Judged(d, known) ==
  LET repaired == Repair(d)
  IN [repaired EXCEPT !.evidence = @ \cap known, !.risks = Stripped(@), !.insights = Stripped(@)]

\* _question_overlap, _is_generic_difficulty_question
Reworded(q, p) == q.topic = p.topic /\ q.leaks = p.leaks
Generic(q) == q.topic = "hardest part"
Repeats(q, seen) ==
  \E p \in ToSet(seen) : Reworded(q, p) \/ (Generic(p) /\ Generic(q))

\* apply_repeated_question_filter, of questions already stripped
FilteredQuestions(questions, seen) ==
  FoldLeft(LAMBDA kept, q : IF Repeats(q, seen) THEN kept ELSE Append(kept, q), <<>>, questions)
LatestQuestions(s, n) == IF Len(s) > n THEN SubSeq(s, Len(s) - n + 1, Len(s)) ELSE s

-----------------------------------------------------------------------------
(* One turn's answers.                                                     *)

Exchange ==
  /\ due = "none" /\ exchange < LastExchange
  /\ exchange' = exchange + 1 /\ due' = "interpretation"
  /\ interpreted' = Nothing /\ judged' = Nothing /\ planned' = Nothing /\ answered' = Nothing
  /\ UNCHANGED <<recent, proposed>>

\* The provider fails, or its answer is not JSON or is refused by the schema.
StageGivesUp ==
  /\ due # "none" /\ due' = "none"
  /\ UNCHANGED <<exchange, interpreted, judged, planned, answered, recent, proposed>>

\* for provider_name in resolve_provider_chain(): the answer that validates.
Interpret(d) ==
  /\ due = "interpretation" /\ \A i \in d.inferences : InRange(Rescale(i.confidence))
  /\ interpreted' = Interpreted(d) /\ due' = "judgment"
  /\ UNCHANGED <<exchange, judged, planned, answered, recent, proposed>>

\* The ids known are those of the world this turn's interpretation went into.
Judge(d) ==
  /\ due = "judgment" /\ InRange(d.confidence)
  /\ judged' = Judged(d, {"known"}) /\ due' = "planner"
  /\ UNCHANGED <<exchange, interpreted, planned, answered, recent, proposed>>

\* The questions kept count as asked, even if Response fails after this.
Plan(d) ==
  /\ due = "planner" /\ InRange(d.confidence)
  /\ LET clean == [i \in DOMAIN d.questions |-> [d.questions[i] EXCEPT !.leaks = FALSE]]
         kept == FilteredQuestions(clean, recent)
     IN /\ planned' = [d EXCEPT !.questions = kept]
        /\ recent' = LatestQuestions(recent \o kept, QuestionWindow)
        /\ proposed' = proposed \o [i \in DOMAIN kept |-> [turn |-> exchange, question |-> kept[i]]]
  /\ due' = "response"
  /\ UNCHANGED <<exchange, interpreted, judged, answered>>

Reply(d) ==
  /\ due = "response" /\ Usable(d)
  /\ answered' = d /\ due' = "none"
  /\ UNCHANGED <<exchange, interpreted, judged, planned, recent, proposed>>

StageOutputsNext ==
  \/ Exchange \/ StageGivesUp
  \/ \E d \in Interpretations : Interpret(d)
  \/ \E d \in Judgments : Judge(d)
  \/ \E d \in Plans : Plan(d)
  \/ \E d \in Replies : Reply(d)

StageOutputsSpec == StageOutputsInit /\ [][StageOutputsNext]_stageOutputsVars

-----------------------------------------------------------------------------
\* What a stage committed itself to is there to act on: a flag that is set, with
\* what it refers to, never stands beside an empty list, whatever was filtered.
FlagsHonoured ==
  /\ interpreted # Nothing =>
       /\ interpreted.hasAssumption /\ interpreted.check # {} => interpreted.assumptions # {}
       /\ interpreted.hasEvent /\ Resolution(interpreted.event) # {} => interpreted.events # {}
  /\ judged # Nothing =>
       /\ judged.hasRisk /\ judged.scan # {} => judged.risks # {}
       /\ judged.hasResolution /\ Resolution(judged.resolution) # {} => judged.resolutions # {}

\* No reason, option or goal is put in the person's mouth, save the model's own
\* comment where it vouched for it; no guess is held with confidence.
NothingInvented ==
  /\ interpreted # Nothing =>
       /\ {"invention", "pretext"} \cap interpreted.assumptions = {}
       /\ "invention" \notin interpreted.goals \cup interpreted.options \cup interpreted.biases
       /\ interpreted.check \cap interpreted.assumptions # {} => interpreted.hasAssumption
       /\ \A i \in interpreted.inferences : i.hedged => i.confidence <= 4
  /\ judged # Nothing =>
       /\ judged.evidence \subseteq {"known"}
       /\ \A t \in judged.risks \cup judged.insights : ~t.leaks

\* A question kept was not kept in an earlier turn, reworded or as the same
\* generic one, within the window.
QuestionsMoveOn ==
  \A i, j \in DOMAIN proposed :
    LET before == {k \in DOMAIN proposed : proposed[k].turn < proposed[j].turn}
        recently == {k \in before : \A l \in before : l < k + QuestionWindow}
    IN i \in recently => proposed[i].question.topic # proposed[j].question.topic

\* What the stages hand on, of an answer they accepted.
AnswersMadeSafe == FlagsHonoured /\ NothingInvented /\ QuestionsMoveOn
=============================================================================
