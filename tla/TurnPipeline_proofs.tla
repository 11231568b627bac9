------------------------- MODULE TurnPipeline_proofs -------------------------
(***************************************************************************)
(* TurnPipeline for every chain length, window and number of turns: type   *)
(* correctness, the accuracy of TurnResult.state, the bound on retries,    *)
(* that one draft is streamed, what is remembered of it, and the           *)
(* simulation of StagedTurn.                                               *)
(***************************************************************************)
EXTENDS TurnPipeline, FiniteSetTheorems, SequenceTheorems, TLAPS

\* A running turn has a stage left.
StageLeft == report = "open" => completed \in 0..3

\* Which stage comes after how many.
LEMMA StageFacts ==
  ASSUME completed \in 0..3
  PROVE  /\ Stage \in StageNames
         /\ (Stage = "interpretation") <=> (completed = 0)
         /\ (Stage = "judgment") <=> (completed = 1)
         /\ (Stage = "planner") <=> (completed = 2)
         /\ (Stage = "response") <=> (completed = 3)
BY DEF Stage, StageOrder, StageNames

\* Remembering a turn keeps a sequence of turns.
LEMMA RememberType ==
  ASSUME NEW q \in Seq(Nat), NEW t \in Nat
  PROVE  Remember(q, t) \in Seq(Nat)
<1> DEFINE all == Append(q, t)
<1>1. all \in Seq(Nat) /\ Len(all) \in Nat
  OBVIOUS
<1>2. CASE Len(all) > Window
  <2>1. Len(all) - Window + 1 \in 1..Len(all) + 1
    BY <1>1, <1>2, WindowAssumption
  <2>2. SubSeq(all, Len(all) - Window + 1, Len(all)) \in Seq(Nat)
    BY <1>1, <2>1
  <2> QED BY <1>2, <2>2 DEF Remember
<1>3. CASE ~(Len(all) > Window)
  BY <1>1, <1>3 DEF Remember
<1> QED BY <1>2, <1>3

-----------------------------------------------------------------------------
(* Type correctness.                                                       *)

LEMMA TypeInit == Init => TypeOK /\ StageLeft
<1>1. NewWorld \in World
  BY DEF NewWorld, World
<1>2. NoCalls \in [StageNames -> Nat]
  BY DEF NoCalls
<1>3. Init => keyed \in BOOLEAN /\ listening \in BOOLEAN
  BY DEF Init
<1>4. Init => <<>> \in Seq(Nat) /\ said \in Seq(Nat)
  BY DEF Init
<1> QED BY <1>1, <1>2, <1>3, <1>4 DEF Init, TypeOK, StageLeft

\* What a failed attempt, an emitted fragment and a request leave well typed.
LEMMA AttemptTypes ==
  ASSUME TypeOK, StageLeft, report = "open", AttemptFails
  PROVE  /\ attempt' \in {1, 2} /\ model' \in Nat /\ step' \in {"ask", "parse"}
         /\ report' \in StageNames \cup {"open", "answered", "lost"}
<1>1. Stage \in StageNames
  BY StageFacts DEF StageLeft
<1> QED BY <1>1 DEF TypeOK, AttemptFails

LEMMA EmitTypes ==
  ASSUME TypeOK, Emit
  PROVE  streamed' \subseteq Drafts
BY DEF TypeOK, Emit, Draft, Drafts

LEMMA RequestTypes ==
  ASSUME TypeOK, StageLeft, report = "open", Request
  PROVE  calls' \in [StageNames -> Nat]
<1>1. Stage \in StageNames
  BY StageFacts DEF StageLeft
<1> QED BY <1>1 DEF TypeOK, Request

LEMMA TypeStep ==
  ASSUME TypeOK, StageLeft, [Next]_vars
  PROVE  TypeOK' /\ StageLeft'
<1>1. CASE Begin
  <2>1. NoCalls \in [StageNames -> Nat]
    BY DEF NoCalls
  <2> QED BY <1>1, <2>1 DEF TypeOK, StageLeft, Begin
<1>2. CASE NoKey
  <2> USE <1>2 DEF NoKey
  <2>1. StageLeft'
    BY DEF StageLeft, AttemptFails
  <2> QED BY <2>1, AttemptTypes DEF TypeOK
<1>3. CASE ModelFails
  <2> USE <1>3 DEF ModelFails
  <2>1. StageLeft'
    BY DEF StageLeft, AttemptFails
  <2>2. /\ attempt' \in {1, 2} /\ model' \in Nat /\ step' \in {"ask", "parse"}
        /\ report' \in StageNames \cup {"open", "answered", "lost"}
    BY AttemptTypes DEF TypeOK
  <2> QED BY <2>1, <2>2, EmitTypes, RequestTypes DEF TypeOK
<1>4. CASE ModelAnswers
  <2> USE <1>4 DEF ModelAnswers
  <2> QED BY EmitTypes, RequestTypes DEF TypeOK, StageLeft
<1>5. CASE OutputRefused
  <2> USE <1>5 DEF OutputRefused
  <2>1. StageLeft'
    BY DEF StageLeft, AttemptFails
  <2> QED BY <2>1, AttemptTypes DEF TypeOK
<1>6. CASE StreamBreaks
  <2> USE <1>6 DEF StreamBreaks, Raise
  <2> QED BY EmitTypes, RequestTypes DEF TypeOK, StageLeft
<1>7. CASE OutputNoObject
  BY <1>7 DEF OutputNoObject, Raise, TypeOK, StageLeft
<1>8. CASE Interpret
  <2> USE <1>8 DEF Interpret, NextStage
  <2>1. completed = 0
    BY StageFacts DEF StageLeft
  <2>2. doc' \in World
    <3>1. doc.turns + 1 \in Nat /\ doc \in World
      BY DEF TypeOK, World
    <3> QED BY <3>1 DEF World
  <2>3. completed' = 1 /\ attempt' = 1 /\ model' = 1 /\ step' = "ask"
    BY <2>1
  <2> QED BY <2>1, <2>2, <2>3 DEF TypeOK, StageLeft
<1>9. CASE Judge
  <2> USE <1>9 DEF Judge, NextStage
  <2>1. completed = 1
    BY StageFacts DEF StageLeft
  <2>2. doc' \in World
    BY DEF TypeOK, World
  <2> QED BY <2>1, <2>2 DEF TypeOK, StageLeft
<1>10. CASE Plan
  <2> USE <1>10 DEF Plan, NextStage
  <2>1. completed = 2
    BY StageFacts DEF StageLeft
  <2>2. Remember(doc.planned, turn) \in Seq(Nat)
    BY RememberType DEF TypeOK, World
  <2>3. doc' \in World
    BY <2>2, ZenonT(40) DEF TypeOK, World
  <2> QED BY <2>1, <2>3 DEF TypeOK, StageLeft
<1>11. CASE Respond
  <2> USE <1>11 DEF Respond, NextStage
  <2>1. completed = 3
    BY StageFacts DEF StageLeft
  <2>2. Remember(doc.asked, turn) \in Seq(Nat) /\ Append(said, turn) \in Seq(Nat)
    BY RememberType DEF TypeOK, World
  <2>3. doc' \in World /\ said' \in Seq(Nat)
    BY <2>2 DEF TypeOK, World
  <2>4. sent' \in Drafts
    BY DEF TypeOK, Draft, Drafts
  <2> QED BY <2>1, <2>3, <2>4 DEF TypeOK, StageLeft
<1>12. CASE UNCHANGED vars
  BY <1>12 DEF vars, turnVars, TypeOK, StageLeft
<1> QED
  BY <1>1, <1>2, <1>3, <1>4, <1>5, <1>6, <1>7, <1>8, <1>9, <1>10, <1>11, <1>12
  DEF Next, Step

\* Every variable keeps its type: in particular no third attempt is made and
\* no stage after the fourth is reached.
THEOREM TypeCorrect == SafetySpec => []TypeOK
<1>1. Init => TypeOK /\ StageLeft
  BY TypeInit
<1>2. TypeOK /\ StageLeft /\ [Next]_vars => TypeOK' /\ StageLeft'
  BY TypeStep
<1> QED BY <1>1, <1>2, PTL DEF SafetySpec

-----------------------------------------------------------------------------
(* What the returned WorldState holds.                                     *)

\* StateAccurate counted in stages, and what makes it inductive: the caller's
\* WorldState was itself left by such a turn, and is untouched by a lost one.
Accounts ==
  /\ base.tier1 = base.turns /\ base.judged <= base.turns
  /\ doc.tier1 = doc.turns
  /\ report = "lost" => doc = base
  /\ report # "lost" =>
       /\ doc.turns = IF completed = 0 THEN base.turns ELSE base.turns + 1
       /\ doc.judged = IF completed \in {0, 1} THEN base.judged ELSE base.turns + 1
       /\ completed # 0 <=> "update" \in events
       /\ completed \notin {0, 1} <=> "resolutions" \in events
       /\ completed \notin {0, 1} <=> "corrections" \in events
       /\ completed \in 0..2 => doc.planned = base.planned
       /\ completed \in 0..3 => doc.asked = base.asked

LEMMA DoneFacts ==
  ASSUME completed \in 0..4
  PROVE  /\ Done("interpretation") <=> completed # 0
         /\ Done("judgment") <=> completed \notin {0, 1}
         /\ Done("planner") <=> completed \notin 0..2
         /\ Done("response") <=> completed \notin 0..3
<1>1. CASE completed = 0
  BY <1>1 DEF Done, StageOrder
<1>2. CASE completed = 1
  BY <1>2 DEF Done, StageOrder
<1>3. CASE completed = 2
  BY <1>3 DEF Done, StageOrder
<1>4. CASE completed = 3
  BY <1>4 DEF Done, StageOrder
<1>5. CASE completed = 4
  BY <1>5 DEF Done, StageOrder
<1> QED BY <1>1, <1>2, <1>3, <1>4, <1>5

LEMMA AccountsInit == Init => Accounts
BY DEF Init, Accounts, NewWorld

LEMMA AccountsStep ==
  ASSUME TypeOK, StageLeft, Accounts, [Next]_vars
  PROVE  Accounts'
<1>1. CASE Begin
  <2>1. doc.judged <= doc.turns
    BY DEF TypeOK, World, Accounts
  <2> QED BY <1>1, <2>1 DEF Begin, Accounts, TypeOK, World
<1>2. CASE NoKey \/ ModelFails \/ OutputRefused
  <2>1. UNCHANGED <<base, doc, completed, events>> /\ report # "lost" /\ report' # "lost"
    <3>1. report = "open" /\ AttemptFails => report' # "lost"
      BY StageFacts DEF AttemptFails, StageLeft, StageNames
    <3> QED BY <1>2, <3>1 DEF NoKey, ModelFails, OutputRefused
  <2> QED BY <2>1 DEF Accounts
<1>3. CASE ModelAnswers
  BY <1>3 DEF ModelAnswers, Accounts
<1>4. CASE StreamBreaks \/ OutputNoObject
  BY <1>4 DEF StreamBreaks, OutputNoObject, Raise, Accounts
<1>5. CASE Interpret
  <2>1. completed = 0 /\ completed' = 1 /\ report = "open" /\ report' = "open"
    BY <1>5, StageFacts DEF Interpret, NextStage, StageLeft
  <2>2. /\ doc'.turns = doc.turns + 1 /\ doc'.tier1 = doc.turns + 1
        /\ doc'.judged = doc.judged /\ doc'.planned = doc.planned /\ doc'.asked = doc.asked
        /\ base' = base /\ events' = events \cup {"update"}
    BY <1>5 DEF Interpret, TypeOK, World
  <2> QED BY <2>1, <2>2 DEF Accounts, TypeOK, World
<1>6. CASE Judge
  <2>1. completed = 1 /\ completed' = 2 /\ report = "open" /\ report' = "open"
    BY <1>6, StageFacts DEF Judge, NextStage, StageLeft
  <2>2. /\ doc'.turns = doc.turns /\ doc'.tier1 = doc.tier1
        /\ doc'.judged = doc.turns /\ doc'.planned = doc.planned /\ doc'.asked = doc.asked
        /\ base' = base /\ events' = events \cup {"resolutions", "corrections"}
    BY <1>6 DEF Judge, TypeOK, World
  <2> QED BY <2>1, <2>2 DEF Accounts, TypeOK, World
<1>7. CASE Plan
  <2>1. completed = 2 /\ completed' = 3 /\ report = "open" /\ report' = "open"
    BY <1>7, StageFacts DEF Plan, NextStage, StageLeft
  <2>2. /\ doc'.turns = doc.turns /\ doc'.tier1 = doc.tier1
        /\ doc'.judged = doc.judged /\ doc'.asked = doc.asked
        /\ base' = base /\ events' = events
    BY <1>7 DEF Plan, TypeOK, World
  <2> QED BY <2>1, <2>2 DEF Accounts, TypeOK, World
<1>8. CASE Respond
  <2>1. completed = 3 /\ completed' = 4 /\ report = "open" /\ report' = "answered"
    BY <1>8, StageFacts DEF Respond, NextStage, StageLeft
  <2>2. /\ doc'.turns = doc.turns /\ doc'.tier1 = doc.tier1
        /\ doc'.judged = doc.judged
        /\ base' = base /\ events' = events
    BY <1>8 DEF Respond, TypeOK, World
  <2> QED BY <2>1, <2>2 DEF Accounts, TypeOK, World
<1>9. CASE UNCHANGED vars
  BY <1>9 DEF vars, turnVars, Accounts
<1> QED
  BY <1>1, <1>2, <1>3, <1>4, <1>5, <1>6, <1>7, <1>8, <1>9 DEF Next, Step

LEMMA AccountsAccurate ==
  ASSUME TypeOK, Accounts
  PROVE  StateAccurate
<1>1. report # "lost" =>
        events = (IF Done("interpretation") THEN {"update"} ELSE {})
                   \cup (IF Done("judgment") THEN {"resolutions", "corrections"} ELSE {})
  BY DoneFacts DEF TypeOK, Accounts
<1>2. report # "lost" => (Done("judgment") <=> doc.judged = base.turns + 1)
  BY DoneFacts DEF TypeOK, Accounts, World
<1> QED BY <1>1, <1>2, DoneFacts DEF TypeOK, Accounts, World, StateAccurate

\* However a turn ends short of an exception, the WorldState it returns has
\* the message in it exactly once if Interpretation completed, else not at
\* all, and exactly what the completed stages derive from it.
THEOREM Accurate == SafetySpec => []StateAccurate
<1>1. Init => TypeOK /\ StageLeft /\ Accounts
  BY TypeInit, AccountsInit
<1>2. TypeOK /\ StageLeft /\ Accounts /\ [Next]_vars => TypeOK' /\ StageLeft' /\ Accounts'
  BY TypeStep, AccountsStep
<1>3. TypeOK /\ Accounts => StateAccurate
  BY AccountsAccurate
<1> QED BY <1>1, <1>2, <1>3, PTL DEF SafetySpec

-----------------------------------------------------------------------------
(* What a turn costs.                                                      *)

\* The requests made for the present stage so far, against the attempts and
\* models already used up.
Budget ==
  /\ \A s \in StageNames : calls[s] <= 2 * Chain[s]
  /\ \A i \in 1..4 : i > completed + 1 => calls[StageOrder[i]] = 0
  /\ report = "open" =>
       /\ model \in 1..Chain[Stage]
       /\ calls[Stage] <= (IF attempt = 1 THEN 0 ELSE Chain[Stage])
                            + (IF step = "ask" THEN model - 1 ELSE model)

LEMMA BudgetInit == Init => Budget
<1> SUFFICES ASSUME Init PROVE Budget
  OBVIOUS
<1>1. \A s \in StageNames : calls[s] = 0
  BY DEF Init, NoCalls
<1>2. \A s \in StageNames : calls[s] <= 2 * Chain[s]
  BY <1>1, ChainAssumption
<1>3. \A i \in 1..4 : StageOrder[i] \in StageNames
  BY DEF StageOrder, StageNames
<1>4. report # "open"
  BY DEF Init
<1> QED BY <1>1, <1>2, <1>3, <1>4 DEF Budget

\* After a failed attempt the turn is either over or at its second one.
LEMMA SecondAttempt ==
  ASSUME StageLeft, report = "open", AttemptFails, report' = "open"
  PROVE  attempt = 1 /\ attempt' = 2 /\ model' = 1 /\ step' = "ask"
<1>1. Stage # "open"
  BY StageFacts DEF StageLeft, StageNames
<1> QED BY <1>1 DEF AttemptFails

\* A request is one more for the present stage and none for a later one.
LEMMA RequestCounts ==
  ASSUME TypeOK, completed \in 0..3, Request
  PROVE  /\ calls'[Stage] = calls[Stage] + 1
         /\ \A s \in StageNames : s # Stage => calls'[s] = calls[s]
         /\ \A i \in 1..4 : i > completed + 1 => calls'[StageOrder[i]] = calls[StageOrder[i]]
<1>1. Stage \in StageNames
  BY StageFacts
<1>2. \A i \in 1..4 : StageOrder[i] \in StageNames /\ (i > completed + 1 => StageOrder[i] # Stage)
  BY DEF Stage, StageOrder, StageNames
<1> QED BY <1>1, <1>2 DEF Request, TypeOK

\* Moving on to a stage no request was made for.
LEMMA NextStageBudget ==
  ASSUME TypeOK, StageLeft, Budget, NEW s \in StageNames, NextStage(s), UNCHANGED calls,
         report' \in {"open", "answered"}, completed = 3 => report' = "answered"
  PROVE  Budget'
<1>1. completed \in 0..3 /\ completed' = completed + 1
  BY DEF StageLeft, NextStage
<1>2. report' = "open" => Stage' = StageOrder[completed + 2] /\ completed + 2 \in 1..4
  BY <1>1 DEF Stage
<1>3. report' = "open" => calls[Stage'] = 0 /\ Stage' \in StageNames
  <2>1. completed + 2 \in 1..4 => StageOrder[completed + 2] \in StageNames
    BY <1>1 DEF StageOrder, StageNames
  <2> QED BY <1>1, <1>2, <2>1 DEF Budget
<1>4. report' = "open" => Chain[Stage'] \in Nat \ {0}
  BY <1>3, ChainAssumption
<1> QED BY <1>1, <1>3, <1>4 DEF Budget, NextStage

LEMMA BudgetStep ==
  ASSUME TypeOK, StageLeft, Budget, [Next]_vars
  PROVE  Budget'
<1> USE ChainAssumption
<1>1. CASE Begin
  <2>1. Stage' = "interpretation"
    BY <1>1 DEF Begin, Stage, StageOrder
  <2> QED BY <1>1, <2>1 DEF Begin, Budget, NoCalls, StageOrder, StageNames
<1>2. CASE NoKey \/ OutputRefused
  <2>1. UNCHANGED <<completed, calls>> /\ AttemptFails /\ report = "open" /\ Stage' = Stage
    BY <1>2 DEF NoKey, OutputRefused, Stage
  <2>2. Stage \in StageNames
    BY <2>1, StageFacts DEF StageLeft
  <2>3. calls[Stage] \in Nat /\ Chain[Stage] \in Nat \ {0}
    BY <2>2 DEF TypeOK
  <2>4. report' = "open" => calls[Stage] <= Chain[Stage]
    BY <2>1, <2>2, <2>3, SecondAttempt DEF Budget, TypeOK
  <2> QED BY <2>1, <2>2, <2>3, <2>4, SecondAttempt DEF Budget
<1>3. CASE ModelFails \/ ModelAnswers
  <2>1. /\ completed' = completed /\ report = "open" /\ Stage' = Stage /\ Request /\ step = "ask"
        /\ completed \in 0..3
    BY <1>3 DEF ModelFails, ModelAnswers, Stage, StageLeft
  <2>2. Stage \in StageNames
    BY <2>1, StageFacts
  <2>3. calls[Stage] \in Nat /\ Chain[Stage] \in Nat \ {0}
    BY <2>2 DEF TypeOK
  <2>4. calls[Stage] + 1 <= (IF attempt = 1 THEN 0 ELSE Chain[Stage]) + model
    BY <2>1, <2>2, <2>3 DEF Budget, TypeOK
  <2>5. calls'[Stage] <= (IF attempt = 1 THEN 0 ELSE Chain[Stage]) + model
    BY <2>1, <2>4, RequestCounts
  <2>6. \A s \in StageNames : calls'[s] <= 2 * Chain[s]
    BY <2>1, <2>2, <2>3, <2>5, RequestCounts, SMTT(40) DEF Budget, TypeOK
  <2>7. \A i \in 1..4 : i > completed + 1 => calls'[StageOrder[i]] = 0
    BY <2>1, RequestCounts DEF Budget
  <2>8. CASE ModelAnswers
    BY <2>1, <2>2, <2>3, <2>5, <2>6, <2>7, <2>8 DEF ModelAnswers, Budget
  <2>9. CASE ModelFails
    <3>1. CASE model < Chain[Stage] /\ model' = model + 1 /\ UNCHANGED <<attempt, step, report>>
      BY <2>1, <2>2, <2>3, <2>5, <2>6, <2>7, <3>1 DEF Budget
    <3>2. CASE model = Chain[Stage] /\ AttemptFails
      <4>1. report' = "open" => calls'[Stage] <= Chain[Stage]
        BY <2>1, <2>3, <2>5, <3>2, SecondAttempt
      <4> QED BY <2>1, <2>2, <2>3, <2>6, <2>7, <3>2, <4>1, SecondAttempt DEF Budget
    <3> QED BY <2>9, <3>1, <3>2 DEF ModelFails
  <2> QED BY <1>3, <2>8, <2>9
<1>4. CASE StreamBreaks
  <2>1. /\ completed' = completed /\ report = "open" /\ report' = "lost" /\ Request /\ step = "ask"
        /\ completed \in 0..3
    BY <1>4 DEF StreamBreaks, Raise, StageLeft
  <2>2. Stage \in StageNames
    BY <2>1, StageFacts
  <2>3. calls[Stage] \in Nat /\ Chain[Stage] \in Nat \ {0}
    BY <2>2 DEF TypeOK
  <2>4. calls[Stage] + 1 <= 2 * Chain[Stage]
    BY <2>1, <2>2, <2>3 DEF Budget, TypeOK
  <2>5. \A s \in StageNames : calls'[s] <= 2 * Chain[s]
    BY <2>1, <2>2, <2>4, RequestCounts DEF Budget
  <2> QED BY <2>1, <2>5, RequestCounts DEF Budget
<1>5. CASE OutputNoObject
  BY <1>5 DEF OutputNoObject, Raise, Budget
<1>6. CASE Interpret
  <2>1. completed # 3
    BY <1>6, StageFacts DEF Interpret, NextStage, StageLeft
  <2> QED BY <1>6, <2>1, NextStageBudget DEF Interpret, NextStage, StageNames
<1>7. CASE Judge
  <2>1. completed # 3
    BY <1>7, StageFacts DEF Judge, NextStage, StageLeft
  <2> QED BY <1>7, <2>1, NextStageBudget DEF Judge, NextStage, StageNames
<1>8. CASE Plan
  <2>1. completed # 3
    BY <1>8, StageFacts DEF Plan, NextStage, StageLeft
  <2> QED BY <1>8, <2>1, NextStageBudget DEF Plan, NextStage, StageNames
<1>9. CASE Respond
  BY <1>9, NextStageBudget DEF Respond, StageNames
<1>10. CASE UNCHANGED vars
  BY <1>10 DEF vars, turnVars, Budget, Stage
<1> QED
  BY <1>1, <1>2, <1>3, <1>4, <1>5, <1>6, <1>7, <1>8, <1>9, <1>10 DEF Next, Step

\* Whatever the providers do, a stage costs at most two runs of its model
\* chain and a stage that was not reached costs nothing.
THEOREM Bounded == SafetySpec => []RetryBounded
<1>1. Init => TypeOK /\ StageLeft /\ Budget
  BY TypeInit, BudgetInit
<1>2. TypeOK /\ StageLeft /\ Budget /\ [Next]_vars => TypeOK' /\ StageLeft' /\ Budget'
  BY TypeStep, BudgetStep
<1>3. Budget => RetryBounded
  BY DEF Budget, RetryBounded, StageOrder
<1> QED BY <1>1, <1>2, <1>3, PTL DEF SafetySpec

-----------------------------------------------------------------------------
(* What the listener hears.                                                *)

FirstDraft == [attempt |-> 1, model |-> 1]

\* With one model in the response's chain, only one draft can be streamed.
OneSource ==
  /\ streamed \subseteq {FirstDraft}
  /\ sent.attempt = 1 => sent = FirstDraft
  /\ report = "open" => model \in 1..Chain[Stage]

LEMMA EmitsFirstDraft ==
  ASSUME Chain["response"] = 1, TypeOK, OneSource, report = "open", Emit
  PROVE  streamed' \subseteq {FirstDraft}
<1>1. Streaming => Draft = FirstDraft
  BY DEF Streaming, Draft, FirstDraft, OneSource
<1> QED BY <1>1 DEF Emit, OneSource

LEMMA OneSourceStep ==
  ASSUME Chain["response"] = 1, TypeOK, StageLeft, OneSource, Budget', [Next]_vars
  PROVE  OneSource'
<1>1. report' = "open" => model' \in 1..Chain[Stage']
  BY DEF Budget
<1>2. CASE Begin
  BY <1>1, <1>2 DEF Begin, OneSource, NoDraft
<1>3. CASE NoKey \/ OutputRefused \/ OutputNoObject
  BY <1>1, <1>3 DEF NoKey, OutputRefused, OutputNoObject, Raise, OneSource
<1>4. CASE ModelFails \/ ModelAnswers \/ StreamBreaks
  BY <1>1, <1>4, EmitsFirstDraft DEF ModelFails, ModelAnswers, StreamBreaks, Raise, OneSource
<1>5. CASE Interpret \/ Judge \/ Plan
  BY <1>1, <1>5 DEF Interpret, Judge, Plan, OneSource
<1>6. CASE Respond
  <2>1. sent' = [attempt |-> attempt, model |-> 1]
    BY <1>6 DEF Respond, NextStage, Draft, OneSource
  <2>2. sent'.attempt = 1 => sent' = FirstDraft
    BY <2>1 DEF FirstDraft
  <2> QED BY <1>1, <1>6, <2>2 DEF Respond, OneSource
<1>7. CASE UNCHANGED vars
  BY <1>7, <1>1 DEF vars, turnVars, OneSource
<1> QED
  BY <1>2, <1>3, <1>4, <1>5, <1>6, <1>7 DEF Next, Step

\* The token stream never mixes two drafts, and when the streamed attempt
\* succeeded it showed the response itself: as long as the response has no
\* fallback model, which run_response_generator's fresh extractor per provider
\* does not protect against.
THEOREM OneDraft ==
  ASSUME Chain["response"] = 1
  PROVE  SafetySpec => []OneDraftStreamed
<1> DEFINE Inv == TypeOK /\ StageLeft /\ Budget /\ OneSource
<1>1. ASSUME Init PROVE Inv
  <2>1. OneSource
    BY <1>1 DEF Init, OneSource, NoDraft
  <2> QED BY <1>1, <2>1, TypeInit, BudgetInit
<1>2. ASSUME Inv, [Next]_vars PROVE Inv'
  BY <1>2, TypeStep, BudgetStep, OneSourceStep
<1>3. ASSUME Inv PROVE OneDraftStreamed
  <2>1. streamed = {} \/ streamed = {FirstDraft}
    BY <1>3 DEF OneSource
  <2>2. Cardinality(streamed) <= 1
    <3>1. Cardinality({}) = 0 /\ Cardinality({FirstDraft}) = 1
      BY FS_EmptySet, FS_Singleton
    <3> QED BY <2>1, <3>1
  <2>3. sent.attempt = 1 => streamed \subseteq {sent}
    BY <1>3 DEF OneSource
  <2> QED BY <2>2, <2>3 DEF OneDraftStreamed
<1> QED BY <1>1, <1>2, <1>3, PTL DEF SafetySpec

-----------------------------------------------------------------------------
(* What a turn is told not to ask again.                                   *)

\* The end of a list that the window shows.
Latest(q) == SubSeq(q, IF Len(q) > Window THEN Len(q) - Window + 1 ELSE 1, Len(q))

\* The caller's WorldState remembers what was said, and so does the one a turn
\* that raises goes back to.
Remembered ==
  /\ doc.asked = Latest(said)
  /\ report = "open" => base.asked = Latest(said)

\* Where the window takes its elements from.
LEMMA LatestFacts ==
  ASSUME NEW q \in Seq(Nat)
  PROVE  /\ Latest(q) \in Seq(Nat)
         /\ Len(Latest(q)) = IF Len(q) > Window THEN Window ELSE Len(q)
         /\ \A i \in 1..Len(Latest(q)) : Latest(q)[i] = q[Len(q) - Len(Latest(q)) + i]
<1>1. Window \in Nat /\ Window > 0 /\ Len(q) \in Nat BY WindowAssumption
<1>2. ASSUME NEW m \in 1..(Len(q) + 1), Latest(q) = SubSeq(q, m, Len(q))
      PROVE  /\ Latest(q) \in Seq(Nat)
             /\ Len(Latest(q)) = Len(q) - m + 1
             /\ \A i \in 1..(Len(q) - m + 1) : Latest(q)[i] = q[m + i - 1]
  <2>1. m \in Int /\ Len(q) \in Int /\ \A i \in m..Len(q) : q[i] \in Nat OBVIOUS
  <2>2. /\ SubSeq(q, m, Len(q)) \in Seq(Nat)
        /\ Len(SubSeq(q, m, Len(q))) = IF m <= Len(q) THEN Len(q) - m + 1 ELSE 0
        /\ \A i \in 1..(Len(q) - m + 1) : SubSeq(q, m, Len(q))[i] = q[m + i - 1]
    BY <2>1, SubSeqProperties
  <2>3. (IF m <= Len(q) THEN Len(q) - m + 1 ELSE 0) = Len(q) - m + 1 BY <1>1
  <2> QED BY <1>2, <2>2, <2>3
<1>3. CASE Len(q) > Window
  <2>1. Latest(q) = SubSeq(q, Len(q) - Window + 1, Len(q)) BY <1>3 DEF Latest
  <2>2. Len(q) - Window + 1 \in 1..(Len(q) + 1) BY <1>1, <1>3
  <2> HIDE DEF Latest
  <2> QED BY <1>1, <1>2, <1>3, <2>1, <2>2
<1>4. CASE ~(Len(q) > Window)
  <2>1. Latest(q) = SubSeq(q, 1, Len(q)) BY <1>4 DEF Latest
  <2>2. 1 \in 1..(Len(q) + 1) BY <1>1
  <2> HIDE DEF Latest
  <2>3. Len(Latest(q)) = Len(q) /\ Latest(q) \in Seq(Nat) BY <1>1, <1>2, <2>1, <2>2
  <2>4. \A i \in 1..Len(q) : Latest(q)[i] = q[i]
    <3>1. \A i \in 1..(Len(q) - 1 + 1) : Latest(q)[i] = q[1 + i - 1] BY <1>2, <2>1, <2>2
    <3> QED BY <1>1, <3>1
  <2>5. \A i \in 1..Len(q) : Len(q) - Len(q) + i = i BY <1>1
  <2> QED BY <1>4, <2>3, <2>4, <2>5
<1> QED BY <1>3, <1>4

\* What Remember keeps is the window of the longer list.
LEMMA RememberIsLatest ==
  ASSUME NEW q \in Seq(Nat), NEW t \in Nat
  PROVE  Remember(q, t) = Latest(Append(q, t))
<1>1. Append(q, t) \in Seq(Nat) OBVIOUS
<1>2. SubSeq(Append(q, t), 1, Len(Append(q, t))) = Append(q, t) BY <1>1, SubSeqFull
<1>3. CASE Len(Append(q, t)) > Window BY <1>3 DEF Remember, Latest
<1>4. CASE ~(Len(Append(q, t)) > Window) BY <1>2, <1>4 DEF Remember, Latest
<1> QED BY <1>3, <1>4

\* The window of a list that has grown by one is the window, grown by one and cut
\* to size again.
LEMMA RememberLatest ==
  ASSUME NEW q \in Seq(Nat), NEW t \in Nat
  PROVE  Remember(Latest(q), t) = Latest(Append(q, t))
<1> DEFINE w == Latest(q)
           z == Append(w, t)
           longer == Append(q, t)
           x == Latest(z)
           y == Latest(longer)
<1>1. Window \in Nat /\ Window > 0 /\ Len(q) \in Nat BY WindowAssumption
<1>2. /\ w \in Seq(Nat) /\ Len(w) = IF Len(q) > Window THEN Window ELSE Len(q)
      /\ \A i \in 1..Len(w) : w[i] = q[Len(q) - Len(w) + i]
  BY LatestFacts
<1>3. Remember(w, t) = x BY <1>2, RememberIsLatest
<1> HIDE DEF w
<1>4. z \in Seq(Nat) /\ Len(z) = Len(w) + 1 /\ z[Len(w) + 1] = t /\ \A i \in 1..Len(w) : z[i] = w[i]
  BY <1>2
<1>5. /\ longer \in Seq(Nat) /\ Len(longer) = Len(q) + 1 /\ longer[Len(q) + 1] = t
      /\ \A i \in 1..Len(q) : longer[i] = q[i]
  OBVIOUS
<1> HIDE DEF z, longer
<1>6. /\ x \in Seq(Nat) /\ Len(x) = IF Len(z) > Window THEN Window ELSE Len(z)
      /\ \A i \in 1..Len(x) : x[i] = z[Len(z) - Len(x) + i]
  BY <1>4, LatestFacts
<1>7. /\ y \in Seq(Nat) /\ Len(y) = IF Len(longer) > Window THEN Window ELSE Len(longer)
      /\ \A i \in 1..Len(y) : y[i] = longer[Len(longer) - Len(y) + i]
  BY <1>5, LatestFacts
<1> HIDE DEF x, y
<1>8. Len(x) = Len(y) /\ Len(x) \in Nat /\ Len(x) <= Len(w) + 1 /\ Len(w) <= Len(q) /\ Len(w) \in Nat
  <2>1. CASE Len(q) > Window
    <3>1. Len(w) = Window BY <1>2, <2>1
    <3>2. Len(z) > Window /\ Len(longer) > Window BY <1>1, <1>4, <1>5, <2>1, <3>1
    <3>3. Len(x) = Window /\ Len(y) = Window BY <1>6, <1>7, <3>2
    <3> QED BY <1>1, <2>1, <3>1, <3>3
  <2>2. CASE ~(Len(q) > Window)
    <3>1. Len(w) = Len(q) BY <1>2, <2>2
    <3>2. Len(z) = Len(q) + 1 /\ Len(longer) = Len(q) + 1 BY <1>4, <1>5, <3>1
    <3>3. CASE Len(q) + 1 > Window
      <4>1. Len(x) = Window /\ Len(y) = Window BY <1>6, <1>7, <3>2, <3>3
      <4> QED BY <1>1, <2>2, <3>1, <3>3, <4>1
    <3>4. CASE ~(Len(q) + 1 > Window)
      <4>1. Len(x) = Len(q) + 1 /\ Len(y) = Len(q) + 1 BY <1>6, <1>7, <3>2, <3>4
      <4> QED BY <1>1, <3>1, <4>1
    <3> QED BY <3>3, <3>4
  <2> QED BY <2>1, <2>2
<1>9. ASSUME NEW i \in 1..Len(x) PROVE x[i] = y[i]
  <2>1. x[i] = z[Len(z) - Len(x) + i] /\ y[i] = longer[Len(longer) - Len(x) + i]
    BY <1>6, <1>7, <1>8
  <2>2. CASE i = Len(x)
    <3>1. Len(z) - Len(x) + i = Len(w) + 1 /\ Len(longer) - Len(x) + i = Len(q) + 1
      BY <1>4, <1>5, <1>8, <2>2
    <3> QED BY <1>4, <1>5, <2>1, <3>1
  <2>3. CASE i # Len(x)
    <3>1. /\ Len(z) - Len(x) + i = Len(w) + 1 - Len(x) + i
          /\ Len(longer) - Len(x) + i = Len(q) + 1 - Len(x) + i
      BY <1>4, <1>5
    <3>2. i \in Nat /\ i >= 1 /\ i < Len(x) BY <1>8, <2>3
    <3>3. Len(w) + 1 - Len(x) + i \in 1..Len(w) BY <1>8, <3>2
    <3>4. Len(q) + 1 - Len(x) + i \in 1..Len(q) BY <1>1, <1>8, <3>2
    <3>5. PICK j \in 1..Len(w) : j = Len(w) + 1 - Len(x) + i BY <3>3
    <3>6. PICK k \in 1..Len(q) : k = Len(q) + 1 - Len(x) + i BY <3>4
    <3>7. k = Len(q) - Len(w) + j BY <1>1, <1>8, <3>2, <3>5, <3>6
    <3>8. z[j] = w[j] /\ longer[k] = q[k] BY <1>4, <1>5
    <3>9. w[j] = q[k] BY <1>2, <3>7
    <3> QED BY <2>1, <3>1, <3>5, <3>6, <3>8, <3>9
  <2> QED BY <2>2, <2>3
<1>10. x = y BY <1>6, <1>7, <1>8, <1>9, SeqEqual
<1> QED BY <1>3, <1>10 DEF w, y, longer

LEMMA RememberedStep ==
  ASSUME TypeOK, StageLeft, Remembered, [Next]_vars
  PROVE  Remembered'
<1>1. CASE Begin BY <1>1 DEF Begin, Remembered
<1>2. CASE NoKey \/ ModelFails \/ OutputRefused
  <2>1. UNCHANGED <<base, doc, said>> /\ report = "open"
    BY <1>2 DEF NoKey, ModelFails, OutputRefused
  <2> QED BY <2>1 DEF Remembered
<1>3. CASE ModelAnswers BY <1>3 DEF ModelAnswers, Remembered
<1>4. CASE StreamBreaks \/ OutputNoObject
  BY <1>4 DEF StreamBreaks, OutputNoObject, Raise, Remembered
<1>5. CASE Interpret \/ Judge \/ Plan
  <2>1. doc'.asked = doc.asked /\ UNCHANGED <<base, said>> /\ report = "open"
    BY <1>5 DEF Interpret, Judge, Plan, NextStage, TypeOK, World
  <2> QED BY <2>1 DEF Remembered
<1>6. CASE Respond
  <2>1. report' = "answered" BY <1>6 DEF Respond
  <2>2. CASE UNCHANGED <<doc, said>> BY <2>1, <2>2 DEF Remembered
  <2>3. CASE doc' = [doc EXCEPT !.asked = Remember(doc.asked, turn)] /\ said' = Append(said, turn)
    <3>1. doc'.asked = Remember(doc.asked, turn) BY <2>3 DEF TypeOK, World
    <3>2. Remember(Latest(said), turn) = Latest(Append(said, turn))
      BY RememberLatest DEF TypeOK
    <3>3. Latest(said)' = Latest(Append(said, turn)) BY <2>3 DEF Latest
    <3> QED BY <2>1, <3>1, <3>2, <3>3 DEF Remembered
  <2> QED BY <1>6, <2>2, <2>3 DEF Respond
<1>7. CASE UNCHANGED vars
  <2>1. UNCHANGED <<base, doc, said, report>> BY <1>7 DEF vars
  <2> QED BY <2>1 DEF Remembered
<1> QED BY <1>1, <1>2, <1>3, <1>4, <1>5, <1>6, <1>7 DEF Next, Step

\* Over any number of turns, whichever fail, raise or ask nothing, the questions
\* a response is told not to repeat are the last that were sent.
THEOREM Remembers == SafetySpec => []RemembersWhatWasSaid
<1>1. Init => Remembered
  <2> SUFFICES ASSUME Init PROVE Remembered OBVIOUS
  <2>1. said = <<>> /\ doc.asked = <<>> /\ base.asked = <<>> BY DEF Init, NewWorld
  <2>2. SubSeq(<<>>, 1, 0) = <<>> OBVIOUS
  <2>3. Latest(said) = <<>> BY <2>1, <2>2, WindowAssumption DEF Latest
  <2> QED BY <2>1, <2>3 DEF Remembered
<1>2. TypeOK /\ StageLeft /\ Remembered /\ [Next]_vars => Remembered' BY RememberedStep
<1>3. Remembered => RemembersWhatWasSaid BY DEF Remembered, Latest, RemembersWhatWasSaid
<1>4. Init => TypeOK /\ StageLeft BY TypeInit
<1>5. TypeOK /\ StageLeft /\ [Next]_vars => TypeOK' /\ StageLeft' BY TypeStep
<1> QED BY <1>1, <1>2, <1>3, <1>4, <1>5, PTL DEF SafetySpec

-----------------------------------------------------------------------------
(* The abstract turn.                                                      *)

LEMMA SimulateStep ==
  ASSUME TypeOK, StageLeft, Accounts, [Next]_vars
  PROVE  [Staged!Next]_(Staged!vars)
<1> USE DEF Staged!vars
<1>1. CASE Begin
  BY <1>1 DEF Begin, Staged!Next, Staged!Begin
<1>2. CASE NoKey \/ ModelFails \/ OutputRefused
  <2>1. UNCHANGED <<turn, completed, doc>> /\ report = "open"
    BY <1>2 DEF NoKey, ModelFails, OutputRefused
  <2>2. report' = report \/ report' = Stage
    BY <1>2 DEF NoKey, ModelFails, OutputRefused, AttemptFails
  <2> QED BY <2>1, <2>2 DEF Stage, StageOrder, Staged!StageOrder, Staged!Next, Staged!Fail
<1>3. CASE ModelAnswers
  BY <1>3 DEF ModelAnswers
<1>4. CASE StreamBreaks \/ OutputNoObject
  <2>1. UNCHANGED <<turn, completed>> /\ report = "open" /\ report' = "lost" /\ doc' = base
    BY <1>4 DEF StreamBreaks, OutputNoObject, Raise
  <2>2. doc'.turns = IF completed = 0 THEN doc.turns ELSE doc.turns - 1
    BY <2>1 DEF Accounts, TypeOK, World
  <2> QED BY <2>1, <2>2 DEF Staged!Next, Staged!Lose
<1>5. CASE Interpret
  <2>1. completed = 0 /\ completed' = 1 /\ report = "open" /\ report' = "open" /\ turn' = turn
    BY <1>5, StageFacts DEF Interpret, NextStage, StageLeft
  <2>2. doc'.turns = doc.turns + 1
    BY <1>5 DEF Interpret, TypeOK, World
  <2> QED BY <2>1, <2>2 DEF Staged!Next, Staged!CompleteStage
<1>6. CASE Judge \/ Plan
  <2>1. completed \in {1, 2} /\ completed' = completed + 1 /\ report = "open" /\ report' = "open" /\ turn' = turn
    BY <1>6, StageFacts DEF Judge, Plan, NextStage, StageLeft
  <2>2. doc'.turns = doc.turns
    BY <1>6 DEF Judge, Plan, TypeOK, World
  <2> QED BY <2>1, <2>2 DEF Staged!Next, Staged!CompleteStage
<1>7. CASE Respond
  <2>1. completed = 3 /\ completed' = 4 /\ report = "open" /\ report' = "answered" /\ turn' = turn
    BY <1>7, StageFacts DEF Respond, NextStage, StageLeft
  <2>2. doc'.turns = doc.turns
    BY <1>7 DEF Respond, TypeOK, World
  <2> QED BY <2>1, <2>2 DEF Staged!Next, Staged!CompleteStage
<1>8. CASE UNCHANGED vars
  BY <1>8 DEF vars, turnVars
<1> QED
  BY <1>1, <1>2, <1>3, <1>4, <1>5, <1>6, <1>7, <1>8 DEF Next, Step

\* run_turn, with its retries, fallback models and exceptions, does to the
\* caller only what a StagedTurn may.
THEOREM Promised == SafetySpec => ReportsAsPromised
<1>1. Init => Staged!Init
  BY DEF Init, Staged!Init, NewWorld
<1>2. Init => TypeOK /\ StageLeft /\ Accounts
  BY TypeInit, AccountsInit
<1>3. TypeOK /\ StageLeft /\ Accounts /\ [Next]_vars => TypeOK' /\ StageLeft' /\ Accounts'
  BY TypeStep, AccountsStep
<1>4. TypeOK /\ StageLeft /\ Accounts /\ [Next]_vars => [Staged!Next]_(Staged!vars)
  BY SimulateStep
<1> QED BY <1>1, <1>2, <1>3, <1>4, PTL DEF SafetySpec, ReportsAsPromised, Staged!Spec
=============================================================================
