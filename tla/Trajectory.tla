------------------------------ MODULE Trajectory ------------------------------
(***************************************************************************)
(* What the program tells of how a Journey moves: the status of its goals, *)
(* decisions and unknowns with the turn of their last update               *)
(* (state/builder.py), the behavioral events each stage of a turn adds     *)
(* (instrumentation/events.py), and what is read off them: the stagnation  *)
(* signals (judgment/engine.py), the need a turn begins with (need_state/, *)
(* retrieval/), the learned patterns (learning/) and the card on Home      *)
(* (db.list_sessions).                                                     *)
(*                                                                         *)
(* One Journey, whose turns do not overlap.  A topic stands for contents   *)
(* that are equal up to case and blanks.  What an LLM call returns is any  *)
(* of a set of extracts and verdicts.  The theme and the preview of the    *)
(* card, and all else that Judgment is given, are left out.                *)
(***************************************************************************)
EXTENDS Naturals, Sequences, FiniteSets, SequencesExt

CONSTANTS
  Extracts,     \* what Interpretation may make of a message
  Verdicts,     \* what Judgment may conclude
  Related,      \* the pairs of topics that overlap in words, either way
  StallAfter,   \* STAGNATION_TURN_THRESHOLD
  MinEvidence,  \* MIN_EVIDENCE
  FinalTurn      \* bound: turn_count

\* What is spoken of, what is said to become of it, and the statuses there are.
Topics == UNION {ToSet(x.goals) \cup ToSet(x.options) \cup x.unknowns : x \in Extracts}
StatusUpdates ==
  UNION {ToSet(x.updates) \cup ToSet(x.outcomes) : x \in Extracts} \cup
  UNION {ToSet(v.resolutions) : v \in Verdicts}
ItemStatuses == {"active", "open", "resolved"} \cup {u.status : u \in StatusUpdates}

ASSUME TrajectoryAssumption ==
  /\ \A x \in Extracts :
       /\ x.goals \in Seq(Topics) /\ x.options \in Seq(Topics)
       /\ x.updates \in Seq(StatusUpdates) /\ x.outcomes \in Seq(StatusUpdates)
  /\ \A v \in Verdicts : v.resolutions \in Seq(StatusUpdates)
  /\ StallAfter \in Nat /\ MinEvidence \in Nat /\ FinalTurn \in Nat

VARIABLES
  journey,    \* sessions.world_state_json
  world,     \* the WorldState of the turn that runs
  stage,     \* how far that turn is, "none" between turns
  observed,  \* its behavioral_events
  context,   \* what retrieval hands it: a need and the patterns
  concluded, \* its Judgment noted a stagnation; sessions.debug_json keeps it
  debug,
  records,   \* the table behavioral_events
  patterns,  \* the table learned_patterns
  card,      \* the Journey as Home last showed it
  recording, \* CONFIDANT_RECORD_EVENTS
  unsaved    \* history: a crash lost events of a turn that was saved

trajectoryVars ==
  <<journey, world, stage, observed, context, concluded, debug, records, patterns, card,
    recording, unsaved>>

-----------------------------------------------------------------------------
(* The knowledge items.  `trail` and `since` are history: the statuses the *)
(* stages left the item in, and the turn of its last change.               *)

Item(topic, fresh, turn) ==
  [topic |-> topic, status |-> fresh, updated |-> turn, trail |-> <<>>, since |-> turn]

MergeOne(list, topic, fresh, turn) ==
  IF \E i \in DOMAIN list : list[i].topic = topic THEN list ELSE Append(list, Item(topic, fresh, turn))
Merge(list, topics, fresh, turn) == FoldLeft(LAMBDA l, t : MergeOne(l, t, fresh, turn), list, topics)

\* The first item an update overlaps with takes the status.
Transition(list, update, turn) ==
  LET i == SelectInSeq(list, LAMBDA it : <<update.topic, it.topic>> \in Related)
  IN IF i = 0 THEN list
     ELSE [list EXCEPT ![i].status = update.status, ![i].updated = turn]
Transitions(list, updates, turn) ==
  FoldLeft(LAMBDA l, u : Transition(l, u, turn), list, updates)

Answered(u, heard) == \E t \in heard : <<u.topic, t>> \in Related
Reconciled(unknowns, x, turn) ==
  LET kept == {u \in unknowns : ~Answered(u, x.heard)}
  IN kept \cup {Item(t, "open", turn) : t \in x.unknowns \ {u.topic : u \in kept}}
          \cup {[u EXCEPT !.status = "resolved", !.updated = turn] : u \in unknowns \ kept}

\* History: what a stage made of each item.
Tracked(list, turn) ==
  [i \in DOMAIN list |->
     IF list[i].trail # <<>> /\ Last(list[i].trail) = list[i].status THEN list[i]
     ELSE [list[i] EXCEPT !.trail = Append(@, list[i].status), !.since = turn]]

NextPhase(w, x) ==
  CASE w.phase = "prepare" /\ (x.complaint \/ w.complaint) -> "discover"
    [] w.phase = "discover" /\ (x.question \/ w.question) -> "discern"
    [] OTHER -> w.phase

Integrated(w, x) ==
  LET turn == w.turn + 1 IN
  [turn |-> turn,
   phase |-> NextPhase(w, x),
   complaint |-> x.complaint \/ w.complaint, question |-> x.question \/ w.question,
   goals |-> Tracked(Transitions(Merge(w.goals, x.goals, "active", turn), x.updates, turn), turn),
   decisions |->
     Tracked(Transitions(Merge(w.decisions, x.options, "open", turn), x.outcomes, turn), turn),
   unknowns |-> Reconciled(w.unknowns, x, turn)]

Resolved(w, verdict) ==
  [w EXCEPT !.decisions = Tracked(Transitions(@, verdict.resolutions, w.turn), w.turn)]

-----------------------------------------------------------------------------
(* What is read off them.                                                  *)

Event(kind, topic, from, to, turn) ==
  [kind |-> kind, topic |-> topic, from |-> from, to |-> to, turn |-> turn]

\* The last of the items with a topic, which the dict comprehension keeps.
Counterpart(list, topic) == SelectLastInSeq(list, LAMBDA it : it.topic = topic)

\* Fault: an item that is new counts as one that was fresh.
TellSinceFresh(told, kind, old, item, turn) ==
  LET i == Counterpart(old, item.topic)
      before == IF i # 0 THEN old[i].status ELSE IF kind = "goal" THEN "active" ELSE "open"
  IN IF before # item.status
       THEN Append(told, Event(kind, item.topic, before, item.status, turn)) ELSE told

Tell(told, kind, old, item, turn) ==
  LET i == Counterpart(old, item.topic)
  IN IF i # 0 /\ old[i].status # item.status
       THEN Append(told, Event(kind, item.topic, old[i].status, item.status, turn)) ELSE told
Changed(kind, old, new, turn) ==
  FoldLeft(LAMBDA told, item : Tell(told, kind, old, item, turn), <<>>, new)

Diff(old, new) ==
  Changed("goal", old.goals, new.goals, new.turn) \o
  Changed("decision", old.decisions, new.decisions, new.turn)

Stalled(w, it, fresh) == it.status = fresh /\ w.turn >= it.updated + StallAfter
Signals(w) ==
  {it \in ToSet(w.goals) : Stalled(w, it, "active")} \cup
  {it \in ToSet(w.decisions) : Stalled(w, it, "open")} \cup
  {it \in w.unknowns : Stalled(w, it, "open")}

NeedState(w) ==
  LET Active(it) == it.status = "active"
      Open(it) == it.status = "open"
      Old(it) == w.turn - it.updated >= StallAfter
  IN IF \/ \E g \in ToSet(w.goals) : Active(g) /\ Old(g)
        \/ \E d \in ToSet(w.decisions) : Open(d) /\ Old(d)
       THEN "accountability"
     ELSE IF \E d \in ToSet(w.decisions) : Open(d) THEN "decision"
     ELSE IF \E g \in ToSet(w.goals) : Active(g) THEN "reflection" ELSE "general"

PatternsOf(events) ==
  LET Count(e) == Cardinality({i \in DOMAIN events : events[i].kind = e.kind /\ events[i].to = e.to})
  IN {[kind |-> e.kind, to |-> e.to, count |-> Count(e)] :
        e \in {f \in ToSet(events) : Count(f) >= MinEvidence}}

-----------------------------------------------------------------------------
TrajectoryInit ==
  /\ journey = [turn |-> 0, phase |-> "prepare", complaint |-> FALSE, question |-> FALSE,
               goals |-> <<>>, decisions |-> <<>>, unknowns |-> {}]
  /\ world = journey
  /\ stage = "none" /\ observed = <<>> /\ records = <<>> /\ patterns = {}
  /\ context = [need |-> "general", patterns |-> {}]
  /\ concluded = FALSE /\ debug = FALSE /\ unsaved = FALSE
  /\ card = [signal |-> FALSE, note |-> FALSE, turn |-> 0]
  /\ recording \in BOOLEAN

LoadTurn ==
  /\ stage = "none" /\ journey.turn < FinalTurn
  /\ stage' = "loaded" /\ world' = journey
  /\ context' = [need |-> NeedState(journey), patterns |-> patterns]
  /\ UNCHANGED <<journey, observed, concluded, debug, records, patterns, card, recording, unsaved>>

InterpretMessage ==
  /\ stage = "loaded" /\ stage' = "interpreted"
  /\ \E x \in Extracts : world' = Integrated(world, x)
  /\ observed' = observed \o Diff(world, world')
  /\ UNCHANGED <<journey, context, concluded, debug, records, patterns, card, recording, unsaved>>

JudgeTurn ==
  /\ stage = "interpreted" /\ stage' = "judged"
  /\ \E v \in Verdicts : world' = Resolved(world, v) /\ concluded' = v.noted
  /\ observed' = observed \o Diff(world, world')
  /\ UNCHANGED <<journey, context, debug, records, patterns, card, recording, unsaved>>

\* save_turn_result, whichever stage the turn got to.
SaveState ==
  /\ stage \in {"loaded", "interpreted", "judged"} /\ stage' = "saved"
  /\ journey' = world /\ debug' = concluded /\ concluded' = FALSE
  /\ UNCHANGED <<world, observed, context, records, patterns, card, recording, unsaved>>

RecordEvents ==
  /\ stage = "saved" /\ stage' = "none"
  /\ records' = IF recording THEN records \o observed ELSE records
  /\ observed' = <<>>
  /\ UNCHANGED <<journey, world, context, concluded, debug, patterns, card, recording, unsaved>>

DieMidTurn ==
  /\ stage # "none" /\ stage' = "none"
  /\ observed' = <<>> /\ concluded' = FALSE
  /\ unsaved' = (unsaved \/ (stage = "saved" /\ observed # <<>>))
  /\ UNCHANGED <<journey, world, context, debug, records, patterns, card, recording>>

\* scripts/run_learning.py for this account.
LearnPatterns ==
  /\ patterns' = PatternsOf(records)
  /\ UNCHANGED <<journey, world, stage, observed, context, concluded, debug, records, card,
                 recording, unsaved>>

OpenHome ==
  /\ journey.turn > 0
  /\ card' = [signal |-> Signals(journey) # {}, note |-> debug, turn |-> journey.turn]
  /\ UNCHANGED <<journey, world, stage, observed, context, concluded, debug, records, patterns,
                 recording, unsaved>>

TrajectoryNext ==
  \/ LoadTurn \/ InterpretMessage \/ JudgeTurn \/ SaveState \/ RecordEvents \/ DieMidTurn
  \/ LearnPatterns \/ OpenHome

TrajectorySpec == TrajectoryInit /\ [][TrajectoryNext]_trajectoryVars

-----------------------------------------------------------------------------
\* The turn whose events count: the one that runs, unless it has been stored already.
Now == IF stage = "none" THEN journey ELSE world

EventsOf(events, kind, topic) ==
  {p \in DOMAIN events : events[p].kind = kind /\ events[p].topic = topic}

\* Each event of an item stands for a step of its trail, and they are in order.
Tells(events, kind, it, at) ==
  \A p \in EventsOf(events, kind, it.topic) :
    /\ events[p].from = it.trail[at[p] - 1] /\ events[p].to = it.trail[at[p]]
    /\ \A q \in EventsOf(events, kind, it.topic) : q > p => at[q] > at[p]

\* The events of an item tell its whole story: they lead, one from the other,
\* from the status it was created with to the one it has, however many stages
\* and turns had their part in it, unless recording is off or a crash came
\* between the two writes of a turn.
TrailUnbroken ==
  (recording /\ ~unsaved) =>
    \A k \in {"goal", "decision"} :
      \A it \in ToSet(IF k = "goal" THEN Now.goals ELSE Now.decisions) :
        LET events == records \o observed
            steps == 2..Len(it.trail)
        IN \E at \in [EventsOf(events, k, it.topic) -> steps] :
             Tells(events, k, it, at) /\ \A n \in steps : \E p \in DOMAIN at : at[p] = n

TrueMoves(w, kind, to) ==
  LET items == IF kind = "goal" THEN w.goals ELSE w.decisions
  IN UNION {{<<i, n>> : n \in {m \in 2..Len(items[i].trail) : items[i].trail[m] = to}} :
              i \in DOMAIN items}

\* A pattern never counts more transitions than there were, lost events or not.
PatternsBorneOut ==
  \A p \in patterns \cup context.patterns :
    MinEvidence <= p.count /\ p.count <= Cardinality(TrueMoves(journey, p.kind, p.to))

\* Whatever is called stalled has not changed for as long as that says, and
\* Home says so of no Journey in which nothing is.
StallsAreReal ==
  /\ card.signal /\ card.turn = journey.turn =>
       \E it \in ToSet(journey.goals) \cup ToSet(journey.decisions) \cup journey.unknowns :
         it.status \in {"active", "open"} /\ journey.turn - it.since >= StallAfter
  /\ \A w \in {journey, world} : \A it \in Signals(w) :
       /\ it \in w.unknowns \/ Last(it.trail) = it.status
       /\ it.since <= it.updated /\ w.turn - it.since >= StallAfter

\* The need a turn begins with is never at odds with the signals: it asks for
\* accountability exactly if a goal or a decision of the stored state stalls.
NeedAgrees ==
  stage = "loaded" =>
    (context.need = "accountability" <=> Signals(world) \ world.unknowns # {})

\* The person is told of their Journey what really happened to it.
ToldAsItWent == TrailUnbroken /\ PatternsBorneOut /\ StallsAreReal /\ NeedAgrees
=============================================================================
