-------------------------------- MODULE People --------------------------------
(***************************************************************************)
(* The people and the feelings a Journey keeps (state/builder.py:          *)
(* _merge_entities and _merge_emotional_signals), which, unlike the other  *)
(* knowledge of a WorldState, are rewritten in place by each message that  *)
(* comes back to them; and what they are shown as by Tier 1 and the        *)
(* Personal Operating Model.                                               *)
(*                                                                         *)
(* Names, attributes and emotions are equal here if they are up to case    *)
(* and blanks.  Nothing ever fills Entity.relationships; source and        *)
(* confidence of a feeling go with its intensity.                          *)
(***************************************************************************)
EXTENDS Naturals, Sequences, FiniteSets, SequencesExt

CONSTANTS
  Messages,     \* what Interpretation may extract: [names, updates, feelings]
  RecallWindow, \* TIER2_RECENCY_WINDOW_TURNS
  LastMessage   \* bound: turns

\* Whom the messages name, what they tell of them, and what is felt in them.
Updates == UNION {ToSet(m.updates) : m \in Messages}
Names == UNION {ToSet(m.names) \cup {u.name : u \in ToSet(m.updates)} : m \in Messages}
Feelings == UNION {ToSet(m.feelings) : m \in Messages}
Emotions == {s.emotion : s \in Feelings}

ASSUME PeopleAssumption ==
  /\ \A m \in Messages : m.names \in Seq(Names) /\ m.updates \in Seq(Updates) /\ m.feelings \in Seq(Feelings)
  /\ RecallWindow \in Nat /\ LastMessage \in Nat

VARIABLES
  messageNo, \* turn_count
  entities,  \* WorldState.entities
  emotions,  \* WorldState.emotional_signal_items
  namedAll,  \* history: the people mentioned,
  toldAll,   \* what was told of people, in order, each with its turn,
  feltAll    \* and likewise what was felt

peopleVars == <<messageNo, entities, emotions, namedAll, toldAll, feltAll>>

Person(name, turn) == [name |-> name, attributes |-> <<>>, updated |-> turn]
Attribute(update) == [attribute |-> update.attribute, value |-> update.value]

WithName(list, name) == SelectInSeq(list, LAMBDA e : e.name = name)

Mention(list, name, turn) ==
  IF WithName(list, name) = 0 THEN Append(list, Person(name, turn)) ELSE list

\* Fault: the update is dropped if the attribute has a value already.
SetAttributeOnce(attributes, update) ==
  IF SelectInSeq(attributes, LAMBDA a : a.attribute = update.attribute) = 0
    THEN Append(attributes, Attribute(update)) ELSE attributes

SetAttribute(attributes, update) ==
  LET at == SelectInSeq(attributes, LAMBDA a : a.attribute = update.attribute)
  IN IF at = 0 THEN Append(attributes, Attribute(update))
               ELSE [attributes EXCEPT ![at].value = update.value]

\* An update names its person even if the message did not otherwise.
Enrich(list, update, turn) ==
  LET known == Mention(list, update.name, turn)
      i == WithName(known, update.name)
  IN [known EXCEPT ![i].attributes = SetAttribute(@, update), ![i].updated = turn]

MergeEntities(list, message, turn) ==
  FoldLeft(LAMBDA l, u : Enrich(l, u, turn),
           FoldLeft(LAMBDA l, n : Mention(l, n, turn), list, message.names), message.updates)

\* A feeling that recurs is a fresh reading of the same signal.
Feel(list, signal, turn) ==
  LET i == SelectInSeq(list, LAMBDA f : f.emotion = signal.emotion)
  IN IF i # 0 THEN [list EXCEPT ![i].intensity = signal.intensity, ![i].updated = turn]
     ELSE Append(list, [emotion |-> signal.emotion, intensity |-> signal.intensity,
                        first |-> turn, updated |-> turn])
MergeEmotions(list, signals, turn) == FoldLeft(LAMBDA l, s : Feel(l, s, turn), list, signals)

\* A person is worth a statement once something is known of them.
Described(list) == {e \in ToSet(list) : e.attributes # <<>>}
\* Those Tier 2 may still draw on.
Recalled(list, turn) == {e \in Described(list) : turn - e.updated <= RecallWindow}

PeopleInit ==
  /\ messageNo = 0 /\ entities = <<>> /\ emotions = <<>>
  /\ namedAll = {} /\ toldAll = <<>> /\ feltAll = <<>>

Dated(list, turn) == [k \in DOMAIN list |-> [turn |-> turn, of |-> list[k]]]

TakeIn(message) ==
  /\ messageNo < LastMessage /\ messageNo' = messageNo + 1
  /\ entities' = MergeEntities(entities, message, messageNo')
  /\ emotions' = MergeEmotions(emotions, message.feelings, messageNo')
  /\ namedAll' = namedAll \cup ToSet(message.names)
  /\ toldAll' = toldAll \o Dated(message.updates, messageNo')
  /\ feltAll' = feltAll \o Dated(message.feelings, messageNo')

PeopleNext == \E message \in Messages : TakeIn(message)

PeopleSpec == PeopleInit /\ [][PeopleNext]_peopleVars

-----------------------------------------------------------------------------
\* What was told of a name, and what of it nothing told since has replaced.
Told(name) == {p \in DOMAIN toldAll : toldAll[p].of.name = name}
Standing(p) ==
  \A q \in Told(toldAll[p].of.name) : toldAll[q].of.attribute = toldAll[p].of.attribute => q <= p

\* However often and in whatever order a Journey comes back to a person, there
\* is one record of them; it holds, of each attribute, what was told last and
\* nothing that was not told; and it is recalled for as long as that is recent.
OneRecordAsTold ==
  \A name \in Names :
    LET found == {i \in DOMAIN entities : entities[i].name = name}
    IN /\ found # {} <=> name \in namedAll \/ Told(name) # {}
       /\ \A i \in found :
            LET known == entities[i].attributes IN
            /\ found = {i}
            /\ ToSet(known) = {Attribute(toldAll[p].of) : p \in {q \in Told(name) : Standing(q)}}
            /\ \A j, k \in DOMAIN known : known[j].attribute = known[k].attribute => j = k
            /\ entities[i] \in Recalled(entities, messageNo) <=>
                 \E p \in Told(name) : messageNo - toldAll[p].turn <= RecallWindow

\* A feeling is kept once, as strong as it was last, since the turn it came up.
OneReadingPerEmotion ==
  \A emotion \in Emotions :
    LET found == {i \in DOMAIN emotions : emotions[i].emotion = emotion}
        times == {p \in DOMAIN feltAll : feltAll[p].of.emotion = emotion}
    IN /\ found # {} <=> times # {}
       /\ \A i \in found :
            /\ found = {i}
            /\ \E first, last \in times :
                 /\ \A p \in times : first <= p /\ p <= last
                 /\ emotions[i] = [emotion |-> emotion, intensity |-> feltAll[last].of.intensity,
                                   first |-> feltAll[first].turn, updated |-> feltAll[last].turn]

\* What a Journey knows of people and feelings is what it was told last.
PeopleAsTold == OneRecordAsTold /\ OneReadingPerEmotion
=============================================================================
