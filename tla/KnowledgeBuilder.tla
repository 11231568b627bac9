--------------------------- MODULE KnowledgeBuilder ---------------------------
(***************************************************************************)
(* What a turn does to the knowledge in a WorldState (state/builder.py):   *)
(* update_state merges what Interpretation extracted, then, when Judgment  *)
(* succeeds, apply_judgment_resolutions and apply_knowledge_corrections    *)
(* apply what it concluded.  Each pass through one of their loops is an    *)
(* action; the loops run in the order of the code, and what a loop is      *)
(* given is anything the schemas admit.                                    *)
(*                                                                         *)
(* Data.  A text stands for all contents that are equal up to case and     *)
(* surrounding blanks; `Overlap` is the word-overlap test, which is        *)
(* symmetric but neither transitive nor, for a text without Latin letters, *)
(* reflexive.  Assumptions and inferences merge as claims do and are       *)
(* never transitioned; they, emotional signals, entities and biases are    *)
(* left out, as are confidence and provenance.                             *)
(*                                                                         *)
(* A definition headed "Fault:" is no part of the specification.           *)
(***************************************************************************)
EXTENDS Naturals, Sequences, FiniteSets

CONSTANTS
  Texts,      \* contents
  Overlap,    \* the pairs of texts _is_resolved_by accepts
  Said,       \* Said[k]: the texts Interpretation may extract for kind k
  MaxTurns,   \* how many turns are considered
  MaxInputs   \* how much each call is given at most

Kinds == {"fact", "claim", "goal", "decision", "unknown"}

ASSUME OverlapAssumption ==
  /\ Overlap \subseteq Texts \X Texts
  /\ \A p \in Overlap : <<p[2], p[1]>> \in Overlap
ASSUME SaidAssumption == Said \in [Kinds -> SUBSET Texts]
ASSUME BoundAssumption == MaxTurns \in Nat /\ MaxInputs \in Nat

VARIABLES
  items,     \* items[k]: the list of that kind in the WorldState
  made,      \* items created so far: the last id given out
  turn,      \* turn_count
  phase,     \* the loop that runs, "idle" between turns
  inputs,    \* how much the present call has been given
  heard,     \* interp.observed_facts + interp.claims, so far
  aside,     \* resolved_unknowns of _reconcile_unknowns
  answered,  \* its resolved_contents, not yet merged into the facts
  keys       \* active_fact_keys and active_claim_keys

locals == <<inputs, heard, aside, answered, keys>>
vars == <<items, made, turn, phase, locals>>

-----------------------------------------------------------------------------
Statuses ==
  [fact |-> {"active", "superseded", "retracted"},
   claim |-> {"active", "superseded", "retracted"},
   goal |-> {"active", "paused", "completed", "abandoned"},
   decision |-> {"open", "resolved", "deferred", "expired"},
   unknown |-> {"open", "resolved"}]

Fresh(k) == IF k \in {"decision", "unknown"} THEN "open" ELSE "active"
New(k, t) == [id |-> made + 1, text |-> t, status |-> Fresh(k)]

Near(t) == {u \in Texts : <<t, u>> \in Overlap}
Positions(q, T) == {i \in DOMAIN q : q[i].text \in T}
Active(k, T) == {i \in Positions(items[k], T) : items[k][i].status = "active"}
First(I) == CHOOSE i \in I : \A j \in I : i <= j
\* The entries at the positions I, in their order.
Ordinal(i, I) == Cardinality({j \in I : j <= i})
Pick(q, I) == [n \in 1..Cardinality(I) |-> q[CHOOSE i \in I : Ordinal(i, I) = n]]

Init ==
  /\ items = [k \in Kinds |-> <<>>]
  /\ made = 0 /\ turn = 0 /\ phase = "idle"
  /\ inputs = 0 /\ heard = {} /\ aside = <<>> /\ answered = <<>>
  /\ keys = [k \in {"fact", "claim"} |-> {}]

-----------------------------------------------------------------------------
(* update_state.                                                           *)

BeginTurn ==
  /\ phase = "idle" /\ turn < MaxTurns
  /\ turn' = turn + 1
  /\ phase' = "facts"
  /\ inputs' = 0 /\ heard' = {}
  /\ UNCHANGED <<items, made, aside, answered, keys>>

\* One more element of the list that the present loop is given.
Input(loop) ==
  /\ phase = loop /\ inputs < MaxInputs
  /\ inputs' = inputs + 1

EndLoop(loop, next) ==
  /\ phase = loop
  /\ phase' = next
  /\ UNCHANGED <<items, made, turn, locals>>

\* _merge_content_items, for one content: new, or seen before whatever has
\* become of it since.
Merge(k, t) ==
  IF Positions(items[k], {t}) # {}
    THEN UNCHANGED <<items, made>>
    ELSE /\ items' = [items EXCEPT ![k] = Append(@, New(k, t))]
         /\ made' = made + 1

Hear(loop, k, t) ==
  /\ Input(loop)
  /\ t \in Said[k]
  /\ Merge(k, t)
  /\ heard' = IF k \in {"fact", "claim"} THEN heard \cup {t} ELSE heard
  /\ UNCHANGED <<turn, phase, aside, answered, keys>>

\* The first item whose text overlaps is meant; none, and nothing happens.
Transition(k, t, status) ==
  LET I == Positions(items[k], Near(t))
  IN  IF I = {}
        THEN UNCHANGED items
        ELSE items' = [items EXCEPT ![k][First(I)].status = status]

UpdateGoal(t, status) ==
  /\ Input("goal_updates")
  /\ Transition("goal", t, status)
  /\ UNCHANGED <<made, turn, phase, heard, aside, answered, keys>>

\* _DECISION_EVENT_TO_STATUS; a "proposed" event does nothing.
EventStatus == [chosen |-> "resolved", rejected |-> "resolved", deferred |-> "deferred"]

\* Fault: the event is taken for the status.
DecideVerbatim(t, event) ==
  /\ Input("decision_events")
  /\ Transition("decision", t, event)
  /\ UNCHANGED <<made, turn, phase, heard, aside, answered, keys>>

Decide(t, event) ==
  /\ Input("decision_events")
  /\ Transition("decision", t, EventStatus[event])
  /\ UNCHANGED <<made, turn, phase, heard, aside, answered, keys>>

Answered ==
  {i \in DOMAIN items["unknown"] : \E t \in heard : <<items["unknown"][i].text, t>> \in Overlap}
Unanswered == DOMAIN items["unknown"] \ Answered
Resolved(q) == [i \in DOMAIN q |-> [q[i] EXCEPT !.status = "resolved"]]

\* Faults: an answered unknown is dropped; it is resolved and not promoted.
ReconcileDrop ==
  /\ phase = "decision_events"
  /\ phase' = "unknowns"
  /\ answered' = Pick(items["unknown"], Answered)
  /\ items' = [items EXCEPT !["unknown"] = Pick(@, Unanswered)]
  /\ UNCHANGED <<made, turn, inputs, heard, aside, keys>>

ReconcileOnly ==
  /\ phase = "decision_events"
  /\ phase' = "unknowns"
  /\ aside' = Resolved(Pick(items["unknown"], Answered))
  /\ items' = [items EXCEPT !["unknown"] = Pick(@, Unanswered)]
  /\ UNCHANGED <<made, turn, inputs, heard, answered, keys>>

\* _reconcile_unknowns up to its merge: every unknown that something said in
\* this turn answers, whatever its status, is set aside.
Reconcile ==
  /\ phase = "decision_events"
  /\ phase' = "unknowns"
  /\ answered' = Pick(items["unknown"], Answered)
  /\ aside' = Resolved(answered')
  /\ items' = [items EXCEPT !["unknown"] = Pick(@, Unanswered)]
  /\ UNCHANGED <<made, turn, inputs, heard, keys>>

\* ... and its last line: merged + resolved_unknowns.
Rejoin ==
  /\ phase = "unknowns"
  /\ phase' = "promotion"
  /\ items' = [items EXCEPT !["unknown"] = @ \o aside]
  /\ aside' = <<>>
  /\ UNCHANGED <<made, turn, inputs, heard, answered, keys>>

\* "Resolved unknowns become facts."
Promote ==
  /\ phase = "promotion" /\ answered # <<>>
  /\ Merge("fact", Head(answered).text)
  /\ answered' = Tail(answered)
  /\ UNCHANGED <<turn, phase, inputs, heard, aside, keys>>

\* Interpretation's part is over; Judgment answers, or the turn ends here.
Judged ==
  /\ phase = "promotion" /\ answered = <<>>
  /\ phase' \in {"judgment", "idle"}
  /\ inputs' = 0 /\ heard' = {}
  /\ UNCHANGED <<items, made, turn, aside, answered, keys>>

-----------------------------------------------------------------------------
(* apply_judgment_resolutions and apply_knowledge_corrections.             *)

Resolve(t, status) ==
  /\ Input("judgment")
  /\ Transition("decision", t, status)
  /\ UNCHANGED <<made, turn, phase, heard, aside, answered, keys>>

\* The keys of the active items are collected once, before the first correction.
BeginCorrections ==
  /\ phase = "judgment"
  /\ phase' = "corrections"
  /\ keys' = [k \in {"fact", "claim"} |-> {items[k][i].text : i \in Active(k, Texts)}]
  /\ inputs' = 0
  /\ UNCHANGED <<items, made, turn, heard, aside, answered>>

\* _find_active_correction_target: the same text before a similar one, facts
\* before claims.
Searches(t) ==
  << <<"fact", {t}>>, <<"claim", {t}>>, <<"fact", Near(t)>>, <<"claim", Near(t)>> >>
Hits(t) == {n \in 1..4 : Active(Searches(t)[n][1], Searches(t)[n][2]) # {}}
TargetKind(t) == Searches(t)[First(Hits(t))][1]
Target(t) == First(Active(TargetKind(t), Searches(t)[First(Hits(t))][2]))

Retract(t) ==
  /\ Input("corrections")
  /\ Hits(t) # {}
  /\ items' = [items EXCEPT ![TargetKind(t)][Target(t)].status = "retracted"]
  /\ UNCHANGED <<made, turn, phase, heard, aside, answered, keys>>

\* Fault: a correction that hits nothing is recorded all the same.
SupersedeAnyway(t, c) ==
  /\ Input("corrections")
  /\ IF Hits(t) # {}
       THEN items' = [items EXCEPT ![TargetKind(t)][Target(t)].status = "superseded"] /\ UNCHANGED made
       ELSE Merge("fact", c)
  /\ UNCHANGED <<turn, phase, heard, aside, answered, keys>>

\* A correction without content is skipped, one whose target is not found is
\* dropped.  The new text is appended unless its key was, or has become, one
\* of the active ones.
Supersede(t, c) ==
  /\ Input("corrections")
  /\ Hits(t) # {}
  /\ LET k == TargetKind(t)
         marked == [items EXCEPT ![k][Target(t)].status = "superseded"]
     IN  IF c \in keys[k]
           THEN items' = marked /\ UNCHANGED <<made, keys>>
           ELSE /\ items' = [marked EXCEPT ![k] = Append(@, New(k, c))]
                /\ made' = made + 1
                /\ keys' = [keys EXCEPT ![k] = @ \cup {c}]
  /\ UNCHANGED <<turn, phase, heard, aside, answered>>

EndTurn ==
  /\ phase = "corrections"
  /\ phase' = "idle"
  /\ inputs' = 0
  /\ keys' = [k \in {"fact", "claim"} |-> {}]
  /\ UNCHANGED <<items, made, turn, heard, aside, answered>>

-----------------------------------------------------------------------------
UpdateState ==
  \/ BeginTurn
  \/ \E t \in Texts :
       \/ Hear("facts", "fact", t) \/ Hear("claims", "claim", t)
       \/ Hear("goals", "goal", t) \/ Hear("decisions", "decision", t)
       \/ Hear("unknowns", "unknown", t)
       \/ \E s \in Statuses["goal"] : UpdateGoal(t, s)
       \/ \E e \in DOMAIN EventStatus : Decide(t, e)
  \/ EndLoop("facts", "claims") \/ EndLoop("claims", "goals")
  \/ EndLoop("goals", "goal_updates") \/ EndLoop("goal_updates", "decisions")
  \/ EndLoop("decisions", "decision_events")
  \/ Reconcile \/ Rejoin \/ Promote \/ Judged

ApplyJudgment ==
  \/ \E t \in Texts, s \in {"resolved", "deferred"} : Resolve(t, s)
  \/ BeginCorrections
  \/ \E t \in Texts : Retract(t) \/ \E c \in Texts : Supersede(t, c)
  \/ EndTurn

Next == UpdateState \/ ApplyJudgment

Spec == Init /\ [][Next]_vars

-----------------------------------------------------------------------------
(* Correctness.                                                            *)

InForce(k, e) ==
  CASE k \in {"fact", "claim"} -> e.status = "active"
    [] k = "unknown" -> e.status = "open"
    [] OTHER -> TRUE

\* "Resolved unknowns become facts": once a turn is over, whatever question
\* was resolved in it or before is on record as a fact.
AnsweredIsFact ==
  phase \in {"idle", "judgment", "corrections"} =>
    \A i \in DOMAIN items["unknown"] :
      items["unknown"][i].status = "resolved" =>
        Positions(items["fact"], {items["unknown"][i].text}) # {}

\* However often Judgment flags the same texts again, its corrections never
\* add to what is known: each takes one item out of force for at most one it
\* brings in.
OnlyConsolidates ==
  [][phase = "corrections" =>
       Cardinality(Active("fact", Texts))' + Cardinality(Active("claim", Texts))'
         <= Cardinality(Active("fact", Texts)) + Cardinality(Active("claim", Texts))]_vars

\* "Re-applying the SAME correction must be a no-op the second time": its
\* target is on record but no longer active, and its content is active.
ReapplyIsNoOp ==
  [][\A t, c \in Texts :
       /\ Supersede(t, c)
       /\ \E k \in {"fact", "claim"} :
            /\ Positions(items[k], {t}) # {} /\ Active(k, {c}) # {}
       /\ \A k \in {"fact", "claim"} : Active(k, {t}) = {}
       => UNCHANGED items]_vars

Listed(k) ==
  {items[k][i] : i \in DOMAIN items[k]}
    \cup (IF k = "unknown" THEN {aside[i] : i \in DOMAIN aside} ELSE {})
EntryOf(k, e) == [id |-> e.id, kind |-> k, text |-> e.text]

Ledger == INSTANCE KnowledgeLedger WITH
  entries <- UNION {{EntryOf(k, e) : e \in Listed(k)} : k \in Kinds},
  live <- UNION {{EntryOf(k, e) : e \in {x \in Listed(k) : InForce(k, x)}} : k \in Kinds}

\* "Nothing is silently deleted": over any number of turns items are recorded
\* and retired, one text at most once in force, and that is all.
NothingForgotten == Ledger!Spec
=============================================================================
