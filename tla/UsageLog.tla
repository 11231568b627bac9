------------------------------- MODULE UsageLog -------------------------------
(***************************************************************************)
(* What the model calls cost and how they ended (instrumentation/usage.py, *)
(* pricing.py): each request records into a tracker of its own and writes  *)
(* it to the database when its turn is over; the command-line runner keeps *)
(* one tracker and reports each turn from where the turn began; and        *)
(* scripts/usage_report.py sums up what was written.                       *)
(*                                                                         *)
(* Prices and token counts are small numbers; latency and the comparison   *)
(* with other models are left out.                                         *)
(***************************************************************************)
EXTENDS Naturals, Sequences, FiniteSets, SequencesExt

CONSTANTS
  Requests,     \* request handlers of the server
  Runner,       \* the command-line runner
  Priced,       \* models in the pricing table, at one per token
  Unpriced,     \* models that are not
  Attempts,     \* how an attempt of a stage may go
  MaxAttempts,  \* bound: attempts of one turn
  MaxRecorded   \* bound: attempts the runner's tracker holds

Stages == {"Judgment", "Response"}

\* Only an answer with content becomes a stage's result.
ASSUME UsageLogAssumption ==
  /\ Runner \notin Requests /\ Priced \cap Unpriced = {} /\ {MaxAttempts, MaxRecorded} \subseteq Nat
  /\ \A t \in Attempts :
       /\ t.component \in Stages /\ t.model \in Priced \cup Unpriced /\ t.tokens \in Nat
       /\ t.outcome = "success" => t.content

VARIABLES
  tracking,   \* CONFIDANT_TRACK_USAGE
  tracker,    \* each UsageTracker's records and outcomes
  start,      \* where the turn began in it
  busy,       \* turns under way
  written,    \* the turn last written to the database or printed
  called,     \* history: the calls each turn under way got an answer to
  ended       \* history: how its attempts ended

usageLogVars == <<tracking, tracker, start, busy, written, called, ended>>

\* The server's handlers run side by side; the runner is a process of its own.
Actors == DOMAIN tracker
NewTracker == [records |-> <<>>, outcomes |-> <<>>]

UsageLogInit ==
  /\ tracking \in BOOLEAN
  /\ \E actors \in {Requests, {Runner}} :
       /\ tracker = [a \in actors |-> NewTracker] /\ start = [a \in actors |-> NewTracker]
       /\ called = [a \in actors |-> <<>>] /\ ended = [a \in actors |-> <<>>]
  /\ busy = {} /\ written = {}

\* estimate_cost_usd: no price, no cost.
Cost(model, tokens) == IF model \in Priced THEN {tokens} ELSE {}

\* build_usage
Usage(component, model, tokens) ==
  [component |-> component, model |-> model, tokens |-> tokens, cost |-> Cost(model, tokens)]

-----------------------------------------------------------------------------
(* A turn and its tracker.                                                 *)

\* Fault: handlers share the module's default tracker.
TrackerShared(actor) == IF actor = Runner THEN actor ELSE CHOOSE r \in Requests : TRUE

\* Every handler makes a tracker of its own.
TrackerOf(actor) == actor

\* The runner's tracker outlives its turns: count() says where this one begins.
BeginTurn(a) ==
  /\ a \notin busy /\ busy' = busy \cup {a}
  /\ IF a = Runner THEN /\ start' = [start EXCEPT ![a] = tracker[a]]
                        /\ UNCHANGED tracker
     ELSE /\ tracker' = [tracker EXCEPT ![TrackerOf(a)] = NewTracker]
          /\ UNCHANGED start
  /\ UNCHANGED <<tracking, written, called, ended>>

\* A model that answered with content is recorded, whatever became of it, and so
\* is a stream that had none.
Paid(t) == t.content \/ (t.outcome = "provider_call_error" /\ t.component = "Response" /\ t.reached)

\* One attempt of a stage: the outcome, and the usage of the call behind it.
Attempt(a, t) ==
  LET usage == IF Paid(t) THEN <<Usage(t.component, t.model, t.tokens)>> ELSE <<>>
      result == [component |-> t.component, outcome |-> t.outcome]
      mine == TrackerOf(a)
  IN /\ a \in busy /\ Len(ended[a]) < MaxAttempts /\ Len(tracker[mine].outcomes) < MaxRecorded
     /\ called' = [called EXCEPT ![a] = @ \o usage]
     /\ ended' = [ended EXCEPT ![a] = Append(@, result)]
     /\ tracker' = IF ~tracking THEN tracker
                   ELSE [tracker EXCEPT ![mine] = [records |-> @.records \o usage,
                                                   outcomes |-> Append(@.outcomes, result)]]
     /\ UNCHANGED <<tracking, start, busy, written>>

\* since(), outcomes_since()
Since(all, before) == SubSeq(all, Len(before) + 1, Len(all))
TurnRecords(a) ==
  [records |-> Since(tracker[TrackerOf(a)].records, start[a].records),
   outcomes |-> Since(tracker[TrackerOf(a)].outcomes, start[a].outcomes)]

\* A handler's tracker goes with the request, the runner's stays.
Over(a) ==
  /\ busy' = busy \ {a}
  /\ tracker' = IF a = Runner THEN tracker ELSE [tracker EXCEPT ![TrackerOf(a)] = NewTracker]
  /\ called' = [called EXCEPT ![a] = <<>>] /\ ended' = [ended EXCEPT ![a] = <<>>]
  /\ UNCHANGED <<tracking, start>>

\* The turn is over: record_llm_usage and record_llm_attempt for each record.
WriteUsage(a) ==
  /\ a \in busy /\ tracking /\ Over(a)
  /\ written' = {[by |-> a, usage |-> TurnRecords(a), called |-> called[a], ended |-> ended[a]]}

\* The turn ends and nothing is recorded, or it raises.
EndUnrecorded(a) ==
  /\ a \in busy /\ Over(a) /\ UNCHANGED written

UsageLogNext ==
  \E a \in Actors :
    \/ BeginTurn(a) \/ WriteUsage(a) \/ EndUnrecorded(a)
    \/ \E t \in Attempts : Attempt(a, t)

UsageLogSpec == UsageLogInit /\ [][UsageLogNext]_usageLogVars

-----------------------------------------------------------------------------
(* The report.                                                             *)

SumOf(amounts) == FoldLeft(LAMBDA n, amount : n + amount, 0, amounts)
Total(records) == SumOf([i \in DOMAIN records |-> records[i].tokens])

\* _sum_optional: of nothing known, nothing is known.
KnownCost(record) == IF record.cost = {} THEN 0 ELSE CHOOSE c \in record.cost : TRUE
CostOf(records) ==
  IF \A i \in DOMAIN records : records[i].cost = {} THEN {}
  ELSE {SumOf([i \in DOMAIN records |-> KnownCost(records[i])])}

\* _cost_fully_known
FullyKnown(records) == records # <<>> /\ \A i \in DOMAIN records : records[i].cost # {}

\* _group_by: each record goes into its component's bucket.
TokensOf(records, component) ==
  SumOf([i \in DOMAIN records |->
          IF records[i].component = component THEN records[i].tokens ELSE 0])

\* UsageTracker.summary
Summary(records) ==
  [calls |-> Len(records), tokens |-> Total(records), cost |-> CostOf(records),
   known |-> FullyKnown(records),
   tokensOf |-> [c \in Stages |-> TokensOf(records, c)]]

\* _reliability_summary
Successes(outcomes) == Cardinality({i \in DOMAIN outcomes : outcomes[i].outcome = "success"})
Reliability(outcomes) == [attempts |-> Len(outcomes), successes |-> Successes(outcomes)]

-----------------------------------------------------------------------------
\* What is written of a turn is what that turn called and how that ended: not a
\* concurrent turn's, nor an earlier one's of the same tracker; its parts add up
\* to the whole, and a cost said to be fully known is what was spent.
EachCallAccounted ==
  \A w \in written :
    LET usage == w.usage.records  s == Summary(usage)
    IN /\ usage = w.called /\ w.usage.outcomes = w.ended
       /\ s.tokens = s.tokensOf["Judgment"] + s.tokensOf["Response"]
       /\ s.known => s.cost = {Total(w.called)}
       /\ s.cost = {} => \A i \in DOMAIN w.called : w.called[i].model \in Unpriced
       /\ Reliability(w.usage.outcomes).successes <= s.calls
=============================================================================
