--------------------------- MODULE Components_proofs ---------------------------
(***************************************************************************)
(* The components that run within one call, or among calls of their own    *)
(* kind: what each promises, for any number of callers and any bounds.     *)
(***************************************************************************)
EXTENDS RateLimit, ClarityBrief, Understanding, Storage, Coaching, PrivacyScreen, UsageLog,
  StageOutputs, StreamText, People, Trajectory, FiniteSetTheorems, SequenceTheorems, WellFoundedInduction, TLAPS

-----------------------------------------------------------------------------
(* Folds over sequences: community FoldLeft picks the last position of     *)
(* those that are left.                                                    *)

\* What holds of 0 and goes from each number to the next holds up to N.
LEMMA Climb ==
  ASSUME NEW N \in Nat, NEW S, 0 \in S, \A n \in 1..N : n - 1 \in S => n \in S
  PROVE  0..N \subseteq S
<1> SUFFICES ASSUME ~(0..N \subseteq S) PROVE FALSE OBVIOUS
<1> DEFINE T == {n \in 0..N : n \notin S}
           Less == {p \in Nat \X Nat : p[1] < p[2]}
<1>1. T \subseteq Nat /\ T # {} OBVIOUS
<1>2. IsWellFoundedOn(Less, Nat)
  <2>1. Less = OpToRel(<, Nat) BY Zenon DEF OpToRel
  <2>2. IsWellFoundedOn(OpToRel(<, Nat), Nat) BY NatLessThanWellFounded
  <2> HIDE DEF Less
  <2> QED BY ONLY <2>1, <2>2, Zenon
<1>3. PICK x \in T : \A y \in T : <<y, x>> \notin Less
  <2> HIDE DEF T, Less
  <2> QED BY <1>1, <1>2, WFMin
<1>4. ASSUME NEW y \in T, y < x PROVE FALSE
  <2>1. <<y, x>> \in Less BY <1>4
  <2> QED BY <1>3, <2>1
<1>5. x \in 1..N /\ x - 1 \in 0..N BY <1>4
<1>6. x - 1 \notin T BY <1>4, <1>5
<1> QED BY <1>5, <1>6

\* g of a prefix of positions is what folding step over it makes of base.
FoldsBy(g, n, base, step) ==
  /\ g[{}] = base
  /\ \A s \in SUBSET (1..n) : s # {} => g[s] = step[Max(s)][g[s \ {Max(s)}]]

\* A fold of steps that stay in V has a value.
LEMMA FoldExists ==
  ASSUME NEW n \in Nat, NEW V, NEW base \in V, NEW step \in [1..n -> [V -> V]]
  PROVE  \E g \in [SUBSET (1..n) -> V] : FoldsBy(g, n, base, step)
<1> DEFINE Good(g, k) ==
             \A s \in SUBSET (1..k) :
               g[s] = IF s = {} THEN base ELSE step[Max(s)][g[s \ {Max(s)}]]
           S == {k \in 0..n : \E g \in [SUBSET (1..n) -> V] : Good(g, k)}
<1>1. 0 \in S
  <2> DEFINE g == [s \in SUBSET (1..n) |-> base]
  <2>1. g \in [SUBSET (1..n) -> V] OBVIOUS
  <2>2. Good(g, 0) OBVIOUS
  <2> HIDE DEF Good, g
  <2> QED BY <2>1, <2>2
<1>2. ASSUME NEW k \in 1..n, k - 1 \in S PROVE k \in S
  <2>1. PICK g \in [SUBSET (1..n) -> V] : Good(g, k - 1) BY <1>2
  <2> DEFINE h == [s \in SUBSET (1..n) |->
                     IF k \in s THEN step[k][g[s \ {k}]] ELSE g[s]]
  <2>2. h \in [SUBSET (1..n) -> V]
    <3>1. \A s \in SUBSET (1..n) : s \ {k} \in SUBSET (1..n) OBVIOUS
    <3> QED BY <3>1
  <2>3. Good(h, k)
    <3> SUFFICES ASSUME NEW s \in SUBSET (1..k)
                 PROVE  h[s] = IF s = {} THEN base ELSE step[Max(s)][h[s \ {Max(s)}]]
      OBVIOUS
    <3>0. s \in SUBSET (1..n) OBVIOUS
    <3>1. CASE k \in s
      <4>1. Max(s) = k
        <5>1. \A y \in s : k >= y OBVIOUS
        <5>2. \A x \in s : (\A y \in s : x >= y) => x = k BY <3>1
        <5> QED BY <3>1, <5>1, <5>2 DEF Max
      <4>2. s \ {k} \in SUBSET (1..n) /\ h[s \ {k}] = g[s \ {k}] OBVIOUS
      <4> HIDE DEF h
      <4>3. h[s] = step[k][g[s \ {k}]] BY <3>0, <3>1 DEF h
      <4> QED BY <3>1, <4>1, <4>2, <4>3
    <3>2. CASE k \notin s
      <4>1. s \in SUBSET (1..(k - 1)) BY <3>2
      <4>2. g[s] = IF s = {} THEN base ELSE step[Max(s)][g[s \ {Max(s)}]]
        BY <2>1, <4>1
      <4>3. h[s] = g[s] /\ h[s \ {Max(s)}] = g[s \ {Max(s)}] BY <3>0, <3>2
      <4> HIDE DEF h, Good
      <4> QED BY <4>2, <4>3
    <3> QED BY <3>1, <3>2
  <2> HIDE DEF h, Good
  <2> QED BY <2>2, <2>3
<1>3. n \in S
  <2> HIDE DEF S
  <2>1. \A k \in 1..n : k - 1 \in S => k \in S BY <1>2
  <2>2. 0..n \subseteq S BY <1>1, <2>1, Climb
  <2> QED BY <2>2
<1>4. PICK g \in [SUBSET (1..n) -> V] : Good(g, n)
  <2> HIDE DEF Good
  <2> QED BY <1>3
<1>5. g[{}] = base BY <1>4
<1>6. \A s \in SUBSET (1..n) : s # {} => g[s] = step[Max(s)][g[s \ {Max(s)}]] BY <1>4
<1> QED BY <1>5, <1>6 DEF FoldsBy
\* The positions up to k without the last of them are those up to k - 1.
LEMMA MaxUpTo ==
  ASSUME NEW n \in Nat
  PROVE  /\ \A k \in 1..n : 1..k # {} /\ Max(1..k) = k /\ (1..k) \ {k} = 1..(k - 1)
         /\ \A s \in SUBSET (1..n) : s # {} => Max(s) \in s
<1>1. ASSUME NEW k \in 1..n PROVE Max(1..k) = k
  <2>1. k \in 1..k /\ \A y \in 1..k : k >= y OBVIOUS
  <2>2. \A x \in 1..k : (\A y \in 1..k : x >= y) => x = k BY <2>1
  <2> QED BY <2>1, <2>2 DEF Max
<1>2. ASSUME NEW s \in SUBSET (1..n), s # {} PROVE Max(s) \in s
  <2> DEFINE S == {k \in 0..n : \A t \in SUBSET (1..k) : t # {} =>
                                  \E x \in t : \A y \in t : x >= y}
  <2>1. 0 \in S
    <3>1. \A t \in SUBSET (1..0) : t = {} OBVIOUS
    <3>2. 0 \in 0..n OBVIOUS
    <3> QED BY <3>1, <3>2
  <2>2. ASSUME NEW k \in 1..n, k - 1 \in S PROVE k \in S
    <3>1. ASSUME NEW t \in SUBSET (1..k), t # {} PROVE \E x \in t : \A y \in t : x >= y
      <4>1. CASE k \in t BY <4>1
      <4>2. CASE k \notin t
        <5>1. t \in SUBSET (1..(k - 1)) BY <4>2
        <5> QED BY <2>2, <3>1, <5>1
      <4> QED BY <4>1, <4>2
    <3> QED BY <3>1
  <2> HIDE DEF S
  <2>3. 0..n \subseteq S BY <2>1, <2>2, Climb
  <2>4. n \in S BY <2>3
  <2>5. \E x \in s : \A y \in s : x >= y BY <1>2, <2>4 DEF S
  <2> QED BY <2>5 DEF Max
<1>3. \A k \in 1..n : 1..k # {} /\ (1..k) \ {k} = 1..(k - 1) OBVIOUS
<1> QED BY <1>1, <1>2, <1>3


-----------------------------------------------------------------------------
(* ClarityBrief.                                                           *)

BriefTypes ==
  /\ shown \in Briefs \cup {NoBrief} /\ cursor \in Briefs \cup {NoBrief}
  /\ look \in [Looks -> [at : {"unasked", "built", "compared", "told"},
                         brief : Briefs \cup {NoBrief}, previous : Briefs \cup {NoBrief},
                         told : SUBSET (Matters \cup Tensions)]]
  /\ crossed \in [Looks -> BOOLEAN]
  /\ \A q \in Looks : UnderWay(q) => look[q].brief \in Briefs

\* What is stored is what was returned last, and a call that nobody crossed has
\* compared with just that.
CursorInv ==
  /\ cursor = lastSeen
  /\ \A q \in Looks :
       look[q].at = "compared" /\ ~crossed[q] => look[q].told = Changes(cursor, look[q].brief)

LEMMA ChangesType ==
  ASSUME NEW p \in Briefs \cup {NoBrief}, NEW c \in Briefs
  PROVE  Changes(p, c) \in SUBSET (Matters \cup Tensions)
BY DEF Changes, Briefs

LEMMA BriefStep ==
  ASSUME BriefTypes, CursorInv, [BriefNext]_briefVars
  PROVE  BriefTypes' /\ CursorInv'
<1>1. CASE UNCHANGED briefVars
  BY <1>1 DEF briefVars, BriefTypes, CursorInv, UnderWay
<1>2. ASSUME NEW b \in Briefs \cup {NoBrief}, CompleteTurn(b) PROVE BriefTypes' /\ CursorInv'
  BY <1>2 DEF CompleteTurn, BriefTypes, CursorInv, UnderWay
<1>3. ASSUME NEW q \in Looks, LoadBrief(q) \/ NothingYet(q) PROVE BriefTypes' /\ CursorInv'
  <2>1. /\ UNCHANGED <<shown, cursor, lastSeen, crossed>>
        /\ \A p \in Looks : p # q => look'[p] = look[p]
        /\ look'[q].at \in {"built", "told"}
    BY <1>3 DEF LoadBrief, NothingYet, BriefTypes
  <2>2. BriefTypes' BY <1>3 DEF LoadBrief, NothingYet, BriefTypes, UnderWay
  <2>3. CursorInv' BY <2>1 DEF CursorInv
  <2> QED BY <2>2, <2>3
<1>4. ASSUME NEW q \in Looks, Compare(q) PROVE BriefTypes' /\ CursorInv'
  <2>1. look[q].brief \in Briefs BY <1>4 DEF Compare, BriefTypes, UnderWay
  <2>2. Changes(cursor, look[q].brief) \in SUBSET (Matters \cup Tensions)
    BY <2>1, ChangesType DEF BriefTypes
  <2>3. /\ UNCHANGED <<shown, cursor, lastSeen, crossed>>
        /\ \A p \in Looks : p # q => look'[p] = look[p]
        /\ look'[q].at = "compared" /\ look'[q].brief = look[q].brief
        /\ look'[q].told = Changes(cursor, look[q].brief)
    BY <1>4 DEF Compare, BriefTypes
  <2>4. look' \in [Looks -> [at : {"unasked", "built", "compared", "told"},
                            brief : Briefs \cup {NoBrief}, previous : Briefs \cup {NoBrief},
                            told : SUBSET (Matters \cup Tensions)]]
    <3> DEFINE told == Changes(cursor, look[q].brief)
               States == [at : {"unasked", "built", "compared", "told"},
                          brief : Briefs \cup {NoBrief}, previous : Briefs \cup {NoBrief},
                          told : SUBSET (Matters \cup Tensions)]
               now == [look[q] EXCEPT !.at = "compared", !.previous = cursor, !.told = told]
    <3>1. look' = [look EXCEPT ![q] = now] BY <1>4 DEF Compare
    <3>2. look \in [Looks -> States] /\ cursor \in Briefs \cup {NoBrief} BY DEF BriefTypes
    <3>3. now \in States
      <4>1. told \in SUBSET (Matters \cup Tensions) /\ look[q] \in States BY <2>2, <3>2
      <4> HIDE DEF told
      <4> QED BY <3>2, <4>1
    <3> HIDE DEF now, States
    <3>4. look' \in [Looks -> States] BY <3>1, <3>2, <3>3
    <3> QED BY <3>4 DEF States
  <2>5. BriefTypes' BY <2>1, <2>3, <2>4 DEF BriefTypes, UnderWay
  <2>6. CursorInv' BY <2>3 DEF CursorInv
  <2> QED BY <2>5, <2>6
<1>5. ASSUME NEW q \in Looks, StoreBrief(q) PROVE BriefTypes' /\ CursorInv'
  <2>1. /\ cursor' = look[q].brief /\ lastSeen' = look[q].brief /\ shown' = shown
        /\ look'[q].at = "told" /\ \A p \in Looks : p # q => look'[p] = look[p]
        /\ \A p \in Looks : crossed'[p] = (crossed[p] \/ (p # q /\ UnderWay(p)))
    BY <1>5 DEF StoreBrief, BriefTypes
  <2>2. BriefTypes' BY <1>5 DEF StoreBrief, BriefTypes, UnderWay
  <2>3. \A p \in Looks : look'[p].at = "compared" => crossed'[p] BY <2>1 DEF UnderWay
  <2>4. CursorInv' BY <2>1, <2>3 DEF CursorInv
  <2> QED BY <2>2, <2>4
<1> QED BY <1>1, <1>2, <1>3, <1>4, <1>5 DEF BriefNext

\* Whichever calls and turns come between, a call that no other crossed tells
\* exactly what changed since the brief that was returned last.
THEOREM BriefTellsChanges == BriefSpec => []ToldSinceLastLook
<1>1. BriefInit => BriefTypes /\ CursorInv
  BY DEF BriefInit, BriefTypes, CursorInv, NoLook, UnderWay
<1>2. BriefTypes /\ CursorInv /\ [BriefNext]_briefVars => BriefTypes' /\ CursorInv'
  BY BriefStep
<1>3. CursorInv => ToldSinceLastLook BY DEF CursorInv, ToldSinceLastLook
<1> QED BY <1>1, <1>2, <1>3, PTL DEF BriefSpec

-----------------------------------------------------------------------------
(* Coaching.                                                               *)

\* What the clauses are chosen by agrees with what has been said and has ended.
Counted ==
  /\ mode \in Modes /\ reply \in Nat /\ followed.well \in Nat /\ followed.badly \in Nat
  /\ settled \in BOOLEAN /\ optedIn \in BOOLEAN
Spaced ==
  /\ probed \subseteq {t \in Nat : t <= reply /\ t % 3 = 0}
  /\ raised \in [Concepts -> Nat]
  /\ \A c \in Concepts : raised[c] > 0 => raised[c] <= reply /\ c = ConceptFor(raised[c])
Known ==
  settled => /\ profile # NoProfile
             /\ profile["competence"].level # "unclear" /\ profile["competence"].evidence # {}
CoachingInv == Counted /\ Spaced /\ Known /\ ReadingsEvidenced

LEMMA SpacedStays ==
  ASSUME Counted, Spaced, UNCHANGED <<probed, raised>>, reply' \in Nat, reply' >= reply
  PROVE  Spaced'
BY DEF Counted, Spaced, Concepts

LEMMA NewJourneyStep ==
  ASSUME CoachingInv, NEW m \in Modes, NewJourney(m)
  PROVE  CoachingInv' /\ ~(reply' > reply)
BY DEF CoachingInv, NewJourney, Counted, Spaced, Known, ReadingsEvidenced, Concepts, NoNote

LEMMA ComputeStep ==
  ASSUME CoachingInv, NEW batch, ComputePOM(batch)
  PROVE  CoachingInv' /\ reply' = reply
<1> DEFINE grounded == [s \in Systems |-> Grounded(batch[s])]
<1>1. \A s \in Systems :
        /\ grounded[s].evidence \subseteq {"said"}
        /\ grounded[s].level # "unclear" => grounded[s].evidence # {}
  BY DEF Grounded
<1>2. Competence.level # "unclear" /\ Competence.evidence = {"followed"}
  BY DEF Competence
<1>3. /\ profile' = Override(grounded) /\ settled' = (Followed >= MinFollowed)
      /\ UNCHANGED <<mode, reply, followed, optedIn, probed, raised>>
  BY DEF ComputePOM
<1>4. DOMAIN profile' = Systems
  BY <1>3 DEF Override
<1>5. \A s \in Systems : profile'[s] = grounded[s] \/ profile'[s] = Competence
  BY <1>3 DEF Override
<1>6. ReadingsEvidenced'
  <2> HIDE DEF grounded
  <2> QED BY <1>1, <1>2, <1>4, <1>5 DEF ReadingsEvidenced
<1>7. Known'
  <2>1. profile' # NoProfile BY <1>4 DEF NoProfile, Systems
  <2>2. Followed >= MinFollowed => ~(Followed < MinFollowed)
    BY CoachingAssumption DEF CoachingInv, Counted, Followed
  <2>3. settled' => profile' = [grounded EXCEPT !["competence"] = Competence]
    BY <1>3, <2>2 DEF Override
  <2>4. settled' => profile'["competence"] = Competence
    <3> HIDE DEF grounded
    <3> QED BY <1>4, <2>3 DEF Systems
  <2> QED BY <1>2, <2>1, <2>4 DEF Known
<1>8. Counted' BY <1>3, CoachingAssumption DEF CoachingInv, Counted, Followed
<1>9. Spaced' BY <1>3, SpacedStays DEF CoachingInv, Counted
<1> QED BY <1>3, <1>6, <1>7, <1>8, <1>9 DEF CoachingInv

LEMMA RespondStep ==
  ASSUME CoachingInv, NEW active \in ConcreteLenses \cup {"none"}, NEW relevant \in BOOLEAN,
         Respond(active, relevant)
  PROVE  CoachingInv' /\ ~AskedWhatIsKnown /\ ~TooSoon
<1> DEFINE turn == reply + 1
           lens == IF mode = "adaptive" /\ active # "none" THEN active ELSE mode
<1>1. /\ reply' = turn /\ note' = NoteFor(lens, turn, relevant)
      /\ probed' = IF note'.probe THEN probed \cup {turn} ELSE probed
      /\ raised' = [c \in Concepts |-> IF c = note'.concept THEN turn ELSE raised[c]]
      /\ UNCHANGED <<mode, followed, profile, optedIn, settled>>
  BY DEF Respond
<1>2. /\ note'.lens = IF lens \in Focused THEN lens ELSE "none"
      /\ note'.probe = ShouldSeed(lens, turn)
      /\ note'.concept = IF lens = "realign" THEN ConceptFor(turn) ELSE 0
  BY <1>1 DEF NoteFor
<1> HIDE DEF lens
<1>3. reply \in Nat /\ turn \in Nat BY DEF CoachingInv, Counted
<1>4. note'.probe => turn % 3 = 0 BY <1>2 DEF ShouldSeed
<1>5. \A c \in Concepts : c = note'.concept => c = ConceptFor(turn)
  BY <1>2 DEF Concepts
<1>6. Spaced'
  <2>1. probed' \subseteq {t \in Nat : t <= reply' /\ t % 3 = 0}
    BY <1>1, <1>3, <1>4 DEF CoachingInv, Spaced
  <2>2. raised' \in [Concepts -> Nat] BY <1>1, <1>3 DEF CoachingInv, Spaced
  <2>3. \A c \in Concepts : raised'[c] > 0 => raised'[c] <= reply' /\ c = ConceptFor(raised'[c])
    BY <1>1, <1>3, <1>5 DEF CoachingInv, Spaced
  <2> QED BY <2>1, <2>2, <2>3 DEF Spaced
<1>7. ~AskedWhatIsKnown
  <2> SUFFICES ASSUME AskedWhatIsKnown PROVE FALSE OBVIOUS
  <2>1. lens = "commit" BY <1>2 DEF AskedWhatIsKnown
  <2>2. Thin("commit") BY <1>2, <2>1 DEF AskedWhatIsKnown, ShouldSeed
  <2>3. SystemsRead("commit") = {"competence"} BY DEF SystemsRead
  <2> QED BY <2>2, <2>3 DEF AskedWhatIsKnown, Thin, CoachingInv, Known
<1>8. ~(note'.probe /\ \E t \in probed : reply' - t < 3)
  BY <1>1, <1>3, <1>4 DEF CoachingInv, Spaced
<1>9. ~ \E c \in Concepts : note'.concept = c /\ raised[c] > 0 /\ reply' - raised[c] < 5
  BY <1>1, <1>3, <1>5 DEF CoachingInv, Spaced, ConceptFor
<1>10. Counted' /\ Known' /\ ReadingsEvidenced'
  BY <1>1, <1>3 DEF CoachingInv, Counted, Known, ReadingsEvidenced
<1> QED BY <1>6, <1>7, <1>8, <1>9, <1>10 DEF CoachingInv, TooSoon

LEMMA CoachingStep ==
  ASSUME CoachingInv, [CoachingNext]_coachingVars
  PROVE  CoachingInv' /\ (reply' > reply => ~AskedWhatIsKnown /\ ~TooSoon)
<1>1. CASE UNCHANGED coachingVars
  BY <1>1 DEF coachingVars, CoachingInv, Counted, Spaced, Known, ReadingsEvidenced
<1>2. ASSUME NEW how \in {"well", "badly"}, End(how) PROVE CoachingInv' /\ reply' = reply
  <2>1. followed'.well \in Nat /\ followed'.badly \in Nat
    BY <1>2 DEF End, CoachingInv, Counted
  <2> QED BY <1>2, <2>1, SpacedStays DEF End, CoachingInv, Counted, Known, ReadingsEvidenced
<1>3. CASE SetLearning
  BY <1>3, SpacedStays DEF SetLearning, CoachingInv, Counted, Known, ReadingsEvidenced
<1>4. ASSUME FailAfterCounting PROVE CoachingInv' /\ ~AskedWhatIsKnown /\ ~TooSoon
  <2>1. CoachingInv' 
    BY <1>4, SpacedStays DEF FailAfterCounting, CoachingInv, Counted, Known, ReadingsEvidenced
  <2>2. ~note'.probe /\ note'.concept = 0 BY <1>4 DEF FailAfterCounting, NoNote
  <2>3. ~AskedWhatIsKnown /\ ~TooSoon BY <2>2 DEF AskedWhatIsKnown, TooSoon, Concepts
  <2> QED BY <2>1, <2>3
<1>5. reply \in Nat BY DEF CoachingInv, Counted
<1> QED BY <1>1, <1>2, <1>3, <1>4, <1>5, NewJourneyStep, ComputeStep, RespondStep DEF CoachingNext

\* Whatever a model answers and however goals end: no stored reading rests on
\* nothing, nobody is asked what is known, and neither a probe nor a concept
\* comes back too soon.
THEOREM CoachingByEvidence == CoachingSpec => CoachesOnEvidence
<1>1. CoachingInit => CoachingInv
  <2> SUFFICES ASSUME CoachingInit PROVE CoachingInv OBVIOUS
  <2>1. Counted BY DEF CoachingInit, Counted, Modes
  <2>2. Spaced BY DEF CoachingInit, Spaced
  <2>3. Known /\ ReadingsEvidenced BY DEF CoachingInit, Known, ReadingsEvidenced, NoProfile
  <2> QED BY <2>1, <2>2, <2>3 DEF CoachingInv
<1>2. CoachingInv /\ [CoachingNext]_coachingVars => CoachingInv' BY CoachingStep
<1>3. CoachingInv /\ [CoachingNext]_coachingVars =>
        [ReadingsEvidenced' /\ (reply' > reply => ~AskedWhatIsKnown /\ ~TooSoon)]_coachingVars
  BY CoachingStep DEF CoachingInv
<1> QED BY <1>1, <1>2, <1>3, PTL DEF CoachingSpec, CoachesOnEvidence

-----------------------------------------------------------------------------
(* Understanding.                                                          *)

\* An item knows since when it is closed or hidden, and no detail is ever held.
ItemsInv ==
  /\ turnCount \in Nat /\ status \in [Items -> Statuses] /\ outSince \in [Items -> Nat]
  /\ \A i \in Items :
       /\ outSince[i] > 0 <=> status[i] \in {"ended", "hidden"}
       /\ i \in Details => status[i] \in {"absent", "open", "hidden"}

\* What the gate remembers of the synthesis that is stored.
GateInv ==
  /\ computedAt \subseteq 0..turnCount
  /\ tier2 \subseteq Items
  /\ \A i \in tier2 \cap Threads : \E now \in OpenStatuses : <<i, now>> \in signature
UnderstandingInv == ItemsInv /\ GateInv /\ SynthesisStands

\* What one turn may do to one item.
LEMMA ItemMoves ==
  ASSUME ItemsInv, NEW now, NEW renewed, Integrate(now, renewed), NEW i \in Items
  PROVE  /\ now[i] \in Statuses /\ outSince'[i] \in Nat
         /\ outSince'[i] > 0 <=> now[i] \in {"ended", "hidden"}
         /\ i \in Details => now[i] \in {"absent", "open", "hidden"}
         /\ status[i] # "absent" => now[i] # "absent"
         /\ outSince'[i] \in {0, outSince[i], turnCount + 1}
<1>1. now[i] \in Moves(i) BY DEF Integrate
<1>2. outSince'[i] = IF now[i] \in OpenStatuses \cup {"absent"} THEN 0
                     ELSE IF status[i] \in {"ended", "hidden"} THEN outSince[i] ELSE turnCount + 1
  BY DEF Integrate
<1>3. /\ status[i] \in Statuses /\ outSince[i] \in Nat /\ turnCount \in Nat
      /\ outSince[i] > 0 <=> status[i] \in {"ended", "hidden"}
      /\ i \in Details => status[i] \in {"absent", "open", "hidden"}
  BY DEF ItemsInv
<1>4. now[i] \in Statuses /\ (status[i] # "absent" => now[i] # "absent")
  BY <1>1, <1>3 DEF Moves, Fresh, Statuses
<1>5. ASSUME i \in Details PROVE now[i] \in {"absent", "open", "hidden"}
  <2>1. i \notin Goals /\ i \notin Decisions /\ i \notin Unknowns
    BY <1>5, UnderstandingAssumption DEF Threads
  <2>2. CASE i \in Facts BY <1>1, <1>3, <1>5, <2>1, <2>2 DEF Moves, Fresh
  <2>3. CASE i \notin Facts BY <1>1, <1>3, <1>5, <2>1, <2>3 DEF Moves, Fresh
  <2> QED BY <2>2, <2>3
<1>6. now[i] \in OpenStatuses \cup {"absent"} <=> now[i] \notin {"ended", "hidden"}
  BY <1>4 DEF Statuses, OpenStatuses
<1> QED BY <1>2, <1>3, <1>4, <1>5, <1>6

LEMMA IntegrateStep ==
  ASSUME UnderstandingInv, NEW now \in [Items -> Statuses], NEW renewed, Integrate(now, renewed)
  PROVE  UnderstandingInv'
<1>1. /\ status' = now /\ turnCount' = turnCount + 1 /\ awaiting' = TRUE
      /\ UNCHANGED <<tier2, signature, computedAt>>
      /\ turnCount \in Nat /\ ItemsInv
  BY DEF Integrate, UnderstandingInv, ItemsInv
<1>2. DOMAIN outSince' = Items /\ outSince' = [i \in Items |-> outSince'[i]]
  BY DEF Integrate
<1>3. outSince' \in [Items -> Nat] BY <1>1, <1>2, ItemMoves
<1>4. ItemsInv' BY <1>1, <1>3, ItemMoves DEF ItemsInv
<1>5. GateInv' BY <1>1 DEF UnderstandingInv, GateInv
<1>6. SynthesisGrounded'
  <2> SUFFICES ASSUME NEW i \in tier2
               PROVE  /\ now[i] # "absent"
                      /\ outSince'[i] > 0 => \A t \in computedAt : outSince'[i] > t
    BY <1>1 DEF SynthesisGrounded
  <2>1. /\ i \in Items /\ status[i] # "absent" /\ outSince[i] \in Nat
        /\ outSince[i] > 0 => \A t \in computedAt : outSince[i] > t
        /\ \A t \in computedAt : t \in Nat /\ t <= turnCount
    BY <1>1 DEF UnderstandingInv, ItemsInv, GateInv, SynthesisStands, SynthesisGrounded
  <2>2. now[i] # "absent" /\ outSince'[i] \in {0, outSince[i], turnCount + 1}
    BY <1>1, <2>1, ItemMoves
  <2> QED BY <1>1, <2>1, <2>2
<1> QED BY <1>1, <1>4, <1>5, <1>6 DEF UnderstandingInv, SynthesisStands, RestsOnTheLiving

LEMMA TurnStep ==
  ASSUME UnderstandingInv, Turn
  PROVE  UnderstandingInv'
<1>1. PICK threads \in [Threads -> Statuses], details \in [Details -> {"absent", "open", "hidden"}],
           renewed \in SUBSET Renewables :
        Integrate([i \in Items |-> IF i \in Threads THEN threads[i] ELSE details[i]], renewed)
  BY DEF Turn
<1> DEFINE now == [i \in Items |-> IF i \in Threads THEN threads[i] ELSE details[i]]
<1>2. now \in [Items -> Statuses] BY DEF Items, Statuses
<1>3. Integrate(now, renewed) BY <1>1
<1> HIDE DEF now
<1> QED BY <1>2, <1>3, IntegrateStep

LEMMA ShutStep ==
  ASSUME UnderstandingInv, GateStaysShut
  PROVE  UnderstandingInv'
<1>1. UNCHANGED <<status, turnCount, tier2, signature, computedAt, missed, outSince>>
  BY DEF GateStaysShut
<1>2. ItemsInv' /\ GateInv' /\ SynthesisGrounded'
  BY <1>1 DEF UnderstandingInv, ItemsInv, GateInv, SynthesisStands, SynthesisGrounded
<1>3. /\ signature = GroundingSignature
      /\ \E t \in computedAt : ~(turnCount - t >= StalenessTurns)
  BY DEF GateStaysShut, ShouldRecompute
<1>4. ASSUME NEW i \in tier2
      PROVE  status[i] \in OpenStatuses \/ (i \in Details /\ turnCount - outSince[i] < StalenessTurns)
  <2>1. CASE i \in Threads
    <3>1. PICK now \in OpenStatuses : <<i, now>> \in signature
      BY <2>1 DEF UnderstandingInv, GateInv
    <3>2. PICK j \in Candidates \cap Threads : <<i, now>> = <<j, status[j]>>
      BY <1>3, <3>1 DEF GroundingSignature
    <3> QED BY <3>1, <3>2
  <2>2. CASE i \notin Threads
    <3>1. PICK t \in computedAt : ~(turnCount - t >= StalenessTurns) BY <1>3
    <3>2. i \in Details /\ i \in Items BY <2>2 DEF UnderstandingInv, GateInv, Items
    <3>3. /\ t \in Nat /\ turnCount \in Nat /\ outSince[i] \in Nat /\ StalenessTurns \in Nat
          /\ status[i] \in {"open", "hidden"}
          /\ status[i] = "hidden" => outSince[i] > t
      BY <3>2, UnderstandingAssumption
      DEF UnderstandingInv, GateInv, ItemsInv, SynthesisStands, SynthesisGrounded
    <3> QED BY <3>1, <3>2, <3>3 DEF OpenStatuses
  <2> QED BY <2>1, <2>2
<1>5. RestsOnTheLiving' BY <1>1, <1>4 DEF RestsOnTheLiving
<1> QED BY <1>2, <1>5 DEF UnderstandingInv, SynthesisStands

\* What a synthesis may rest on was on offer.
LEMMA SynthesesOffered ==
  ASSUME NEW made \in Syntheses
  PROVE  made \subseteq Candidates
<1>1. ASSUME NEW cited \in [1..MinGrounding -> Items]
      PROVE  GroundedIn(cited) \subseteq Candidates
  BY DEF GroundedIn
<1> QED BY <1>1 DEF Syntheses

LEMMA SynthesiseStep ==
  ASSUME UnderstandingInv, Synthesise
  PROVE  UnderstandingInv'
<1>1. /\ UNCHANGED <<status, turnCount, missed, outSince>>
      /\ signature' = GroundingSignature /\ computedAt' = {turnCount}
      /\ tier2' \subseteq Candidates
  BY SynthesesOffered DEF Synthesise
<1>2. ItemsInv /\ ItemsInv'
  BY <1>1 DEF UnderstandingInv, ItemsInv
<1>3. \A i \in Candidates :
        /\ i \in Items /\ status[i] \in OpenStatuses
        /\ status[i] # "absent" /\ ~(outSince[i] > 0)
  BY <1>2 DEF Candidates, Tier1, ItemsInv, Items, OpenStatuses
<1>4. \A i \in tier2' \cap Threads : \E now \in OpenStatuses : <<i, now>> \in signature'
  BY <1>1, <1>3 DEF GroundingSignature
<1>5. GateInv' BY <1>1, <1>2, <1>3, <1>4 DEF GateInv, ItemsInv
<1>6. SynthesisGrounded' /\ RestsOnTheLiving'
  BY <1>1, <1>3 DEF SynthesisGrounded, RestsOnTheLiving
<1> QED BY <1>2, <1>5, <1>6 DEF UnderstandingInv, SynthesisStands

\* Whatever the items do, reopened ones included, whichever turn fails and
\* whenever a synthesis is missed: the evidence of the stored one was on offer
\* when it was made, and none of it has been gone for longer than the gate may
\* overlook.
THEOREM SynthesisRests == UnderstandingSpec => []SynthesisStands
<1>1. UnderstandingInit => UnderstandingInv
  BY DEF UnderstandingInit, UnderstandingInv, ItemsInv, GateInv, Statuses, SynthesisStands,
         SynthesisGrounded, RestsOnTheLiving
<1>2. UnderstandingInv /\ [UnderstandingNext]_understandingVars => UnderstandingInv'
  <2> SUFFICES ASSUME UnderstandingInv, [UnderstandingNext]_understandingVars
               PROVE  UnderstandingInv'
    OBVIOUS
  <2>1. CASE UNCHANGED understandingVars
    BY <2>1 DEF understandingVars, UnderstandingInv, ItemsInv, GateInv, SynthesisStands,
                SynthesisGrounded, RestsOnTheLiving
  <2>2. CASE TurnFails \/ SynthesisFails \/ TaskLost
    BY <2>2 DEF TurnFails, SynthesisFails, TaskLost, Missed, UnderstandingInv, ItemsInv, GateInv,
                SynthesisStands, SynthesisGrounded, RestsOnTheLiving
  <2> QED BY <2>1, <2>2, TurnStep, ShutStep, SynthesiseStep DEF UnderstandingNext
<1>3. UnderstandingInv => SynthesisStands BY DEF UnderstandingInv
<1> QED BY <1>1, <1>2, <1>3, PTL DEF UnderstandingSpec

-----------------------------------------------------------------------------
(* Storage.                                                                *)

Steps == {"off", "schema", "columns", "look", "drop", "create", "serving"}
SchemaTypes ==
  /\ shape \in [Tables -> {"none", "old", "current"}]
  /\ upgrade \in [Processes -> [at : Steps, table : Tables]]
AllCurrent == \A t \in Tables : shape[t] = "current"

\* What a process has behind it in init_db, at each step of it.
Done(p) ==
  LET at == upgrade[p].at
      table == upgrade[p].table
  IN /\ at \in {"columns", "look", "drop"} => \A t \in Tables : shape[t] # "none"
     /\ at \in {"look", "drop", "create"} => \A t \in Tables : t < table => shape[t] = "current"
     /\ at = "drop" => shape[table] = "old"
     /\ at = "create" => /\ shape[table] = "none"
                         /\ \A t \in Tables : t # table => shape[t] # "none"
     /\ at \in {"look", "drop", "create", "serving"} => Columns \subseteq columns
     /\ at = "serving" => AllCurrent

\* The script is started on a server that is up, whose tables are rebuilt by
\* then: so nothing is ever rebuilt by the two of them at once.
SchemaInv ==
  /\ SchemaTypes
  /\ \A p \in Processes : Done(p)
  /\ upgrade[Script].at # "off" => AllCurrent
  /\ rows \subseteq {t \in Tables : shape[t] = "current"} /\ stored = rows

LEMMA TablesFact == Tables = 1..Len(Rebuilt) /\ Len(Rebuilt) \in Nat \ {0} /\ 1 \in Tables
BY StorageAssumption DEF Tables

LEMMA AtMoves ==
  ASSUME SchemaTypes, NEW p \in Processes, NEW step \in Steps, NEW t \in Tables, At(p, step, t)
  PROVE  /\ upgrade' \in [Processes -> [at : Steps, table : Tables]]
         /\ upgrade'[p].at = step /\ upgrade'[p].table = t
         /\ \A q \in Processes : q # p => upgrade'[q] = upgrade[q]
BY DEF SchemaTypes, At

LEMMA ServerScript == Server \in Processes /\ Script \in Processes /\ Server # Script
BY StorageAssumption DEF Processes

\* Once a table is past, the next is looked at or the process is up.
LEMMA OnwardsMoves ==
  ASSUME SchemaTypes, NEW p \in Processes, Onwards(p)
  PROVE  /\ upgrade' \in [Processes -> [at : Steps, table : Tables]]
         /\ \A q \in Processes : q # p => upgrade'[q] = upgrade[q]
         /\ \/ /\ upgrade'[p].at = "serving"
               /\ \A t \in Tables : t <= upgrade[p].table
            \/ /\ upgrade'[p].at = "look"
               /\ \A t \in Tables : t < upgrade'[p].table => t <= upgrade[p].table
<1>1. upgrade[p].table \in Tables BY DEF SchemaTypes
<1>2. CASE upgrade[p].table = Len(Rebuilt)
  <2>1. At(p, "serving", 1) BY <1>2 DEF Onwards
  <2>2. 1 \in Tables BY <1>1, TablesFact
  <2>3. /\ upgrade' \in [Processes -> [at : Steps, table : Tables]]
        /\ upgrade'[p].at = "serving"
        /\ \A q \in Processes : q # p => upgrade'[q] = upgrade[q]
    BY <2>1, <2>2, AtMoves DEF Steps
  <2>4. \A t \in Tables : t <= upgrade[p].table BY <1>2, TablesFact
  <2> QED BY <2>3, <2>4
<1>3. CASE upgrade[p].table # Len(Rebuilt)
  <2>1. At(p, "look", upgrade[p].table + 1) BY <1>3 DEF Onwards
  <2>2. upgrade[p].table + 1 \in Tables BY <1>1, <1>3, TablesFact
  <2>3. /\ upgrade' \in [Processes -> [at : Steps, table : Tables]]
        /\ upgrade'[p].at = "look" /\ upgrade'[p].table = upgrade[p].table + 1
        /\ \A q \in Processes : q # p => upgrade'[q] = upgrade[q]
    BY <2>1, <2>2, AtMoves DEF Steps
  <2> QED BY <1>1, <2>3, TablesFact
<1> QED BY <1>2, <1>3

LEMMA StartUpStep ==
  ASSUME SchemaInv, NEW p \in Processes, StartUp(p)
  PROVE  SchemaInv'
<1>1. /\ upgrade' \in [Processes -> [at : Steps, table : Tables]]
      /\ upgrade'[p].at = "schema" /\ \A q \in Processes : q # p => upgrade'[q] = upgrade[q]
      /\ UNCHANGED <<shape, columns, rows, stored>>
      /\ p = Script => upgrade[Server].at = "serving"
  BY AtMoves, TablesFact DEF StartUp, SchemaInv, Steps
<1>2. upgrade'[Script].at # "off" => AllCurrent
  BY <1>1, ServerScript DEF SchemaInv, Done
<1>3. \A q \in Processes : Done(q)'
  BY <1>1 DEF SchemaInv, Done, AllCurrent
<1> QED BY <1>1, <1>2, <1>3 DEF SchemaInv, SchemaTypes, AllCurrent

LEMMA CreateMissingStep ==
  ASSUME SchemaInv, NEW p \in Processes, CreateMissing(p)
  PROVE  SchemaInv'
<1>1. /\ upgrade' \in [Processes -> [at : Steps, table : Tables]]
      /\ upgrade'[p].at = "columns" /\ \A q \in Processes : q # p => upgrade'[q] = upgrade[q]
      /\ UNCHANGED <<columns, rows, stored>> /\ upgrade[p].at = "schema"
  BY AtMoves, TablesFact DEF CreateMissing, SchemaInv, Steps
<1>2. /\ shape' \in [Tables -> {"none", "old", "current"}]
      /\ \A t \in Tables : shape'[t] = IF shape[t] = "none" THEN "current" ELSE shape[t]
  BY DEF CreateMissing, SchemaInv, SchemaTypes
<1>3. \A q \in Processes : q # p => upgrade[q].at # "create"
  \* a table that is away is the server's to make, before the script is there
  <2>1. CASE p = Script
    BY <1>1, <2>1 DEF SchemaInv, Done, AllCurrent, SchemaTypes
  <2>2. CASE p = Server
    BY <2>2, ServerScript DEF SchemaInv, Done, AllCurrent, SchemaTypes, Processes
  <2> QED BY <2>1, <2>2 DEF Processes
<1>4. Done(p)' BY <1>1, <1>2 DEF Done
<1>5. ASSUME NEW q \in Processes, q # p PROVE Done(q)'
  BY <1>1, <1>2, <1>3, <1>5 DEF SchemaInv, SchemaTypes, Done, AllCurrent
<1>6. upgrade'[Script].at # "off" => AllCurrent'
  BY <1>1, <1>2, ServerScript DEF SchemaInv, AllCurrent
<1> QED BY <1>1, <1>2, <1>4, <1>5, <1>6 DEF SchemaInv, SchemaTypes

LEMMA ColumnStep ==
  ASSUME SchemaInv, NEW p \in Processes, ColumnsAdded(p) \/ \E c \in Columns : AddColumn(p, c)
  PROVE  SchemaInv'
<1>1. ASSUME NEW c \in Columns, AddColumn(p, c) PROVE SchemaInv'
  BY <1>1 DEF AddColumn, SchemaInv, SchemaTypes, Done, AllCurrent
<1>2. CASE ColumnsAdded(p)
  <2>1. /\ upgrade' \in [Processes -> [at : Steps, table : Tables]]
        /\ upgrade'[p].at = "look" /\ upgrade'[p].table = 1
        /\ \A q \in Processes : q # p => upgrade'[q] = upgrade[q]
        /\ UNCHANGED <<shape, columns, rows, stored>>
        /\ upgrade[p].at = "columns" /\ Columns \subseteq columns
    BY <1>2, AtMoves, TablesFact DEF ColumnsAdded, SchemaInv, Steps
  <2>2. Done(p)' BY <2>1, TablesFact DEF SchemaInv, Done
  <2>3. \A q \in Processes : q # p => Done(q)' BY <2>1 DEF SchemaInv, Done, AllCurrent
  <2> QED BY <2>1, <2>2, <2>3, ServerScript DEF SchemaInv, SchemaTypes, AllCurrent
<1> QED BY <1>1, <1>2

\* A process that is past its last table, or looks at the next, has done what
\* that takes.
LEMMA OnwardsDone ==
  ASSUME SchemaInv, NEW p \in Processes, Onwards(p), columns' = columns,
         shape' \in [Tables -> {"none", "old", "current"}],
         \A t \in Tables : t <= upgrade[p].table => shape'[t] = "current",
         \A t \in Tables : shape'[t] # "none",
         Columns \subseteq columns
  PROVE  Done(p)'
<1>1. \/ /\ upgrade'[p].at = "serving"
         /\ \A t \in Tables : t <= upgrade[p].table
      \/ /\ upgrade'[p].at = "look"
         /\ \A t \in Tables : t < upgrade'[p].table => t <= upgrade[p].table
  BY OnwardsMoves DEF SchemaInv
<1> QED BY <1>1 DEF Done, AllCurrent

LEMMA LookStep ==
  ASSUME SchemaInv, NEW p \in Processes, Look(p)
  PROVE  SchemaInv'
<1> DEFINE table == upgrade[p].table
<1>1. /\ UNCHANGED <<shape, columns, rows, stored>> /\ upgrade[p].at = "look"
      /\ table \in Tables
      /\ \A t \in Tables : shape[t] # "none" /\ (t < table => shape[t] = "current")
      /\ Columns \subseteq columns
  BY DEF Look, SchemaInv, SchemaTypes, Done
<1>2. CASE IsOld(table)
  <2>1. /\ upgrade' \in [Processes -> [at : Steps, table : Tables]]
        /\ upgrade'[p].at = "drop" /\ upgrade'[p].table = table
        /\ \A q \in Processes : q # p => upgrade'[q] = upgrade[q]
    BY <1>1, <1>2, AtMoves DEF Look, SchemaInv, Steps
  <2>2. Done(p)' BY <1>1, <1>2, <2>1 DEF Done, IsOld
  <2>3. \A q \in Processes : q # p => Done(q)' BY <1>1, <2>1 DEF SchemaInv, Done, AllCurrent
  <2>4. upgrade'[Script].at # "off" => AllCurrent'
    BY <1>1, <2>1, ServerScript DEF SchemaInv, AllCurrent
  <2> QED BY <1>1, <2>1, <2>2, <2>3, <2>4 DEF SchemaInv, SchemaTypes
<1>3. CASE ~IsOld(table)
  <2>1. Onwards(p) BY <1>3 DEF Look
  <2>2. /\ upgrade' \in [Processes -> [at : Steps, table : Tables]]
        /\ \A q \in Processes : q # p => upgrade'[q] = upgrade[q]
    BY <2>1, OnwardsMoves DEF SchemaInv
  <2>3. \A t \in Tables : t <= table => shape[t] = "current"
    <3>1. shape[table] = "current" BY <1>1, <1>3 DEF IsOld, SchemaInv, SchemaTypes
    <3> QED BY <1>1, <3>1, TablesFact
  <2>4. Done(p)' BY <1>1, <2>1, <2>3, OnwardsDone DEF SchemaInv, SchemaTypes
  <2>5. \A q \in Processes : q # p => Done(q)' BY <1>1, <2>2 DEF SchemaInv, Done, AllCurrent
  <2>6. upgrade'[Script].at # "off" => AllCurrent'
    BY <1>1, <2>2, ServerScript DEF SchemaInv, AllCurrent
  <2> QED BY <1>1, <2>2, <2>4, <2>5, <2>6 DEF SchemaInv, SchemaTypes
<1> QED BY <1>2, <1>3

\* Where a table is not current, it is the server that is at work and the
\* script is not there.
LEMMA ServerAlone ==
  ASSUME SchemaInv, NEW p \in Processes, upgrade[p].at # "off",
         NEW t \in Tables, shape[t] # "current"
  PROVE  /\ upgrade[Script].at = "off"
         /\ \A q \in Processes : q # p => upgrade[q].at = "off"
BY ServerScript DEF SchemaInv, AllCurrent, Processes

LEMMA RebuildStep ==
  ASSUME SchemaInv, NEW p \in Processes, DropOld(p) \/ CreateCurrent(p)
  PROVE  SchemaInv'
<1> DEFINE table == upgrade[p].table
<1>1. /\ table \in Tables /\ upgrade[p].at \in {"drop", "create"}
      /\ shape[table] # "current"
      /\ Columns \subseteq columns
      /\ \A t \in Tables : t # table => shape[t] # "none"
      /\ \A t \in Tables : t < table => shape[t] = "current"
  BY DEF DropOld, CreateCurrent, SchemaInv, SchemaTypes, Done
<1>2. /\ upgrade[Script].at = "off" /\ \A q \in Processes : q # p => upgrade[q].at = "off"
  BY <1>1, ServerAlone
<1>3. CASE DropOld(p)
  <2>1. /\ upgrade' \in [Processes -> [at : Steps, table : Tables]]
        /\ upgrade'[p].at = "create" /\ upgrade'[p].table = table
        /\ \A q \in Processes : q # p => upgrade'[q] = upgrade[q]
    BY <1>1, <1>3, AtMoves DEF DropOld, SchemaInv, Steps
  <2>2. /\ shape' \in [Tables -> {"none", "old", "current"}] /\ shape'[table] = "none"
        /\ \A t \in Tables : t # table => shape'[t] = shape[t]
        /\ columns' = columns /\ stored' = stored /\ rows' = rows \ {table}
    BY <1>1, <1>3 DEF DropOld, SchemaInv, SchemaTypes
  <2>3. rows' = rows /\ rows \subseteq {t \in Tables : shape'[t] = "current"}
    BY <1>1, <2>2 DEF SchemaInv
  <2>4. Done(p)' BY <1>1, <2>1, <2>2, TablesFact DEF Done
  <2>5. \A q \in Processes : q # p => Done(q)' BY <1>2, <2>1 DEF Done
  <2>6. upgrade'[Script].at = "off"
    BY <1>1, <1>2, <2>1, ServerScript
  <2> QED BY <2>1, <2>2, <2>3, <2>4, <2>5, <2>6 DEF SchemaInv, SchemaTypes
<1>4. CASE CreateCurrent(p)
  <2>1. /\ upgrade' \in [Processes -> [at : Steps, table : Tables]] /\ Onwards(p)
        /\ \A q \in Processes : q # p => upgrade'[q] = upgrade[q]
    BY <1>4, OnwardsMoves DEF CreateCurrent, SchemaInv
  <2>2. /\ shape' \in [Tables -> {"none", "old", "current"}] /\ shape'[table] = "current"
        /\ \A t \in Tables : t # table => shape'[t] = shape[t]
        /\ UNCHANGED <<columns, rows, stored>>
    BY <1>1, <1>4 DEF CreateCurrent, SchemaInv, SchemaTypes
  <2>3. \A t \in Tables : shape'[t] # "none" /\ (t <= table => shape'[t] = "current")
    BY <1>1, <2>2, TablesFact
  <2>4. Done(p)' BY <1>1, <2>1, <2>2, <2>3, OnwardsDone
  <2>5. \A q \in Processes : q # p => Done(q)' BY <1>2, <2>1 DEF Done
  <2>6. upgrade'[Script].at = "off" BY <1>1, <1>2, <2>1, ServerScript
  <2>7. rows \subseteq {t \in Tables : shape'[t] = "current"} BY <2>2 DEF SchemaInv
  <2> QED BY <2>1, <2>2, <2>4, <2>5, <2>6, <2>7 DEF SchemaInv, SchemaTypes
<1> QED BY <1>3, <1>4

LEMMA StopStep ==
  ASSUME SchemaInv, NEW p \in Processes, Stop(p)
  PROVE  SchemaInv'
<1>1. /\ upgrade' \in [Processes -> [at : Steps, table : Tables]]
      /\ upgrade'[p].at = "off" /\ \A q \in Processes : q # p => upgrade'[q] = upgrade[q]
      /\ UNCHANGED <<shape, columns, rows, stored>>
  BY AtMoves, TablesFact DEF Stop, SchemaInv, Steps
<1>2. \A q \in Processes : Done(q)' BY <1>1 DEF SchemaInv, Done, AllCurrent
<1>3. upgrade'[Script].at # "off" => AllCurrent' BY <1>1, ServerScript DEF SchemaInv, AllCurrent
<1> QED BY <1>1, <1>2, <1>3 DEF SchemaInv, SchemaTypes

\* The ids of the items: of a Journey that no two writers have crossed, every
\* copy a writer works on has the ids that were given.
Carries(s, items) ==
  \A i \in 1..MaxItems : given[s][i] # 0 => i \in DOMAIN items /\ items[i] = given[s][i]
ItemIdsInv ==
  /\ nextId \in Nat
  /\ saved \in [Sessions -> Seq(Nat)] /\ held \in [Writers -> [Sessions -> Seq(Nat)]]
  /\ given \in [Sessions -> [1..MaxItems -> Nat]]
  /\ \A s \in Sessions \ overtaken : \A w \in Writers : held[w][s] # <<>> => Carries(s, held[w][s])

LEMMA StampKeeps ==
  ASSUME NEW items \in Seq(Nat), nextId \in Nat
  PROVE  /\ Stamp(items) \in Seq(Nat) /\ Len(Stamp(items)) = Len(items)
         /\ \A i \in 1..Len(items) : items[i] # 0 => Stamp(items)[i] = items[i]
<1>1. Stamp(items) = [i \in 1..Len(items) |-> IF items[i] = 0 THEN nextId + i - 1 ELSE items[i]]
  BY DEF Stamp
<1>2. \A i \in 1..Len(items) : (IF items[i] = 0 THEN nextId + i - 1 ELSE items[i]) \in Nat
  OBVIOUS
<1> QED BY <1>1, <1>2

\* A copy extended, or with ids where there were none, carries what it carried.
LEMMA StampCarries ==
  ASSUME ItemIdsInv, NEW s \in Sessions, NEW items \in Seq(Nat), Carries(s, items)
  PROVE  Carries(s, Stamp(items))
<1>1. /\ Stamp(items) \in Seq(Nat) /\ Len(Stamp(items)) = Len(items)
      /\ \A i \in 1..Len(items) : items[i] # 0 => Stamp(items)[i] = items[i]
  BY StampKeeps DEF ItemIdsInv
<1>2. DOMAIN items = 1..Len(items) /\ DOMAIN Stamp(items) = 1..Len(items) BY <1>1
<1> QED BY <1>1, <1>2 DEF Carries

LEMMA MoreCarries ==
  ASSUME NEW s \in Sessions, NEW items \in Seq(Nat), NEW more \in Seq(Nat), Carries(s, items)
  PROVE  Carries(s, items \o more)
<1>1. \A i \in 1..Len(items) : i \in DOMAIN (items \o more) /\ (items \o more)[i] = items[i]
  OBVIOUS
<1> QED BY <1>1 DEF Carries

\* A writer that carries the given ids and crosses nobody may save.
LEMMA SaveKeepsIds ==
  ASSUME ItemIdsInv, IdsStand, NEW w \in Writers, NEW s \in Sessions, NEW items \in Seq(Nat),
         Save(w, s, items), nextId' \in Nat,
         s \notin overtaken => Carries(s, items)
  PROVE  ItemIdsInv' /\ IdsStand'
<1>1. /\ saved' \in [Sessions -> Seq(Nat)]
      /\ saved'[s] = items /\ \A r \in Sessions : r # s => saved'[r] = saved[r]
  BY DEF Save, ItemIdsInv
<1>2. /\ \A r \in Sessions : r # s => given'[r] = given[r]
      /\ given'[s] = [i \in 1..MaxItems |->
           IF given[s][i] = 0 /\ i \in DOMAIN items THEN items[i] ELSE given[s][i]]
      /\ DOMAIN given' = Sessions /\ given' = [r \in Sessions |-> given'[r]]
  BY DEF Save, ItemIdsInv
<1>3. given'[s] \in [1..MaxItems -> Nat]
  <2>1. given[s] \in [1..MaxItems -> Nat] /\ \A i \in DOMAIN items : items[i] \in Nat
    BY DEF ItemIdsInv
  <2>2. \A i \in 1..MaxItems :
          (IF given[s][i] = 0 /\ i \in DOMAIN items THEN items[i] ELSE given[s][i]) \in Nat
    BY <2>1
  <2> QED BY <1>2, <2>2
<1>4. given' \in [Sessions -> [1..MaxItems -> Nat]]
  BY <1>2, <1>3 DEF ItemIdsInv
<1>5. /\ held' \in [Writers -> [Sessions -> Seq(Nat)]]
      /\ held'[w][s] = <<>>
      /\ \A v \in Writers, r \in Sessions : v # w \/ r # s => held'[v][r] = held[v][r]
  <2>1. held' = [held EXCEPT ![w] = [held[w] EXCEPT ![s] = <<>>]]
        /\ held \in [Writers -> [Sessions -> Seq(Nat)]] /\ <<>> \in Seq(Nat)
    BY DEF Save, ItemIdsInv
  <2> QED BY <2>1
<1>6. /\ overtaken \subseteq overtaken'
      /\ s \notin overtaken' => \A v \in Writers : v # w => held[v][s] = <<>>
  BY DEF Save
<1>7. ASSUME s \notin overtaken, NEW i \in 1..MaxItems, given'[s][i] # 0
      PROVE  i \in DOMAIN items /\ items[i] = given'[s][i]
  <2>1. given'[s][i] = IF given[s][i] = 0 /\ i \in DOMAIN items THEN items[i] ELSE given[s][i]
    BY <1>2
  <2>2. given[s][i] # 0 => i \in DOMAIN items /\ items[i] = given[s][i]
    BY <1>7 DEF Carries
  <2> QED BY <1>7, <2>1, <2>2
<1>8. IdsStand'
  <2> SUFFICES ASSUME NEW r \in Sessions \ overtaken', NEW i \in 1..MaxItems, given'[r][i] # 0
               PROVE  i \in DOMAIN saved'[r] /\ saved'[r][i] = given'[r][i]
    BY DEF IdsStand
  <2>1. CASE r = s BY <1>1, <1>6, <1>7, <2>1
  <2>2. CASE r # s
    <3>1. saved'[r] = saved[r] /\ given'[r] = given[r] /\ r \notin overtaken BY <1>1, <1>2, <1>6, <2>2
    <3> QED BY <3>1 DEF IdsStand
  <2> QED BY <2>1, <2>2
<1>9. ASSUME NEW r \in Sessions \ overtaken', NEW v \in Writers, held'[v][r] # <<>>
      PROVE  Carries(r, held[v][r])'
  <2>1. r # s BY <1>5, <1>6, <1>9
  <2>2. held'[v][r] = held[v][r] /\ given'[r] = given[r] BY <1>2, <1>5, <2>1
  <2>3. Carries(r, held[v][r]) BY <1>6, <1>9, <2>2 DEF ItemIdsInv
  <2> QED BY <2>2, <2>3 DEF Carries
<1>10. ItemIdsInv' BY <1>1, <1>4, <1>5, <1>9 DEF ItemIdsInv
<1> QED BY <1>8, <1>10

\* So may one that takes a fresh copy, or lets one go.
LEMMA CopyKeepsIds ==
  ASSUME ItemIdsInv, IdsStand, UNCHANGED <<saved, given, overtaken>>, nextId' \in Nat,
         held' \in [Writers -> [Sessions -> Seq(Nat)]],
         \A v \in Writers, r \in Sessions :
           held'[v][r] \in {<<>>, held[v][r], saved[r], Stamp(saved[r])}
  PROVE  ItemIdsInv' /\ IdsStand'
<1>1. ASSUME NEW r \in Sessions \ overtaken, NEW v \in Writers, held'[v][r] # <<>>
      PROVE  Carries(r, held'[v][r])
  <2>1. Carries(r, saved[r]) /\ saved[r] \in Seq(Nat)
    BY DEF IdsStand, Carries, ItemIdsInv
  <2>2. Carries(r, Stamp(saved[r])) BY <2>1, StampCarries
  <2>3. held[v][r] # <<>> => Carries(r, held[v][r]) BY DEF ItemIdsInv
  <2> QED BY <1>1, <2>1, <2>2, <2>3
<1>2. ItemIdsInv' BY <1>1 DEF ItemIdsInv, Carries
<1> QED BY <1>2 DEF IdsStand

LEMMA LoadStateStep ==
  ASSUME ItemIdsInv, IdsStand, NEW t \in Turns, NEW s \in Sessions, LoadState(t, s)
  PROVE  ItemIdsInv' /\ IdsStand'
<1>1. saved[s] \in Seq(Nat) /\ nextId \in Nat /\ <<>> \in Seq(Nat) BY DEF ItemIdsInv
<1>2. Stamp(saved[s]) \in Seq(Nat) BY <1>1, StampKeeps
<1>3. held' = [held EXCEPT ![t] = [NoCopy EXCEPT ![s] = Stamp(saved[s])]]
      /\ UNCHANGED <<saved, given, overtaken>>
  BY DEF LoadState
<1>4. nextId' \in Nat
  <2>1. Len(saved[s]) \in Nat BY <1>1
  <2> QED BY <1>1, <2>1 DEF LoadState, Give
<1>5. t \in Writers /\ held \in [Writers -> [Sessions -> Seq(Nat)]]
      /\ NoCopy \in [Sessions -> Seq(Nat)] /\ \A r \in Sessions : NoCopy[r] = <<>>
  BY <1>1 DEF Writers, ItemIdsInv, NoCopy
<1>6. [NoCopy EXCEPT ![s] = Stamp(saved[s])] \in [Sessions -> Seq(Nat)]
      /\ \A r \in Sessions : [NoCopy EXCEPT ![s] = Stamp(saved[s])][r] \in {<<>>, Stamp(saved[r])}
  BY <1>2, <1>5
<1>7. held' \in [Writers -> [Sessions -> Seq(Nat)]]
      /\ \A v \in Writers, r \in Sessions : held'[v][r] \in {<<>>, held[v][r], Stamp(saved[r])}
  BY <1>3, <1>5, <1>6
<1> QED BY <1>3, <1>4, <1>7, CopyKeepsIds

LEMMA SaveTurnStep ==
  ASSUME ItemIdsInv, IdsStand, NEW t \in Turns, NEW s \in Sessions, SaveTurn(t, s)
  PROVE  ItemIdsInv' /\ IdsStand'
<1>1. PICK more \in {<<>>, <<nextId>>} : Give(Len(more)) /\ Save(t, s, held[t][s] \o more)
  BY DEF SaveTurn
<1>2. t \in Writers /\ held[t][s] \in Seq(Nat) /\ nextId \in Nat /\ held[t][s] # <<>>
  BY DEF Writers, ItemIdsInv, SaveTurn
<1>3. more \in Seq(Nat)
  <2>1. <<>> \in Seq(Nat) /\ \A n \in Nat : <<n>> \in Seq(Nat) OBVIOUS
  <2> QED BY <1>1, <1>2, <2>1
<1>4. held[t][s] \o more \in Seq(Nat) BY <1>2, <1>3
<1>5. nextId' \in Nat
  <2>1. Len(more) \in Nat BY <1>3
  <2> QED BY <1>1, <1>2, <2>1 DEF Give
<1>6. s \notin overtaken => Carries(s, held[t][s] \o more)
  BY <1>2, <1>3, MoreCarries DEF ItemIdsInv
<1> QED BY <1>1, <1>2, <1>4, <1>5, <1>6, SaveKeepsIds

LEMMA SaveBackfilledStep ==
  ASSUME ItemIdsInv, IdsStand, NEW s \in Sessions, SaveBackfilled(s)
  PROVE  ItemIdsInv' /\ IdsStand'
<1> DEFINE mine == held[Script][s]
<1>1. Script \in Writers /\ mine \in Seq(Nat) /\ nextId \in Nat
  BY DEF Writers, ItemIdsInv
<1>2. mine # <<>> BY DEF SaveBackfilled, Missing
<1>3. Stamp(mine) \in Seq(Nat) BY <1>1, StampKeeps
<1>4. s \notin overtaken => Carries(s, Stamp(mine))
  BY <1>1, <1>2, StampCarries DEF ItemIdsInv
<1>5. nextId' \in Nat
  <2>1. Len(mine) \in Nat BY <1>1
  <2> QED BY <1>1, <2>1 DEF SaveBackfilled, Give
<1>6. Save(Script, s, Stamp(mine)) BY DEF SaveBackfilled
<1> QED BY <1>1, <1>3, <1>4, <1>5, <1>6, SaveKeepsIds

LEMMA CopyStep ==
  ASSUME ItemIdsInv, IdsStand,
         \/ ReadAll
         \/ \E t \in Turns : DropTurn(t)
         \/ \E s \in Sessions : PassOver(s)
         \/ \E p \in Processes : Stop(p)
  PROVE  ItemIdsInv' /\ IdsStand'
<1>1. UNCHANGED <<saved, nextId, given, overtaken>> BY DEF ReadAll, DropTurn, PassOver, Stop
<1>2. /\ held \in [Writers -> [Sessions -> Seq(Nat)]] /\ saved \in [Sessions -> Seq(Nat)]
      /\ NoCopy \in [Sessions -> Seq(Nat)] /\ \A r \in Sessions : NoCopy[r] = <<>>
      /\ Script \in Writers /\ Turns \subseteq Writers /\ <<>> \in Seq(Nat) /\ nextId \in Nat
  BY DEF ItemIdsInv, NoCopy, Writers
<1>3. /\ held' \in [Writers -> [Sessions -> Seq(Nat)]]
      /\ \A v \in Writers, r \in Sessions : held'[v][r] \in {<<>>, held[v][r], saved[r]}
  <2>1. CASE ReadAll BY <1>2, <2>1 DEF ReadAll
  <2>2. CASE \E t \in Turns : DropTurn(t) BY <1>2, <2>2 DEF DropTurn
  <2>3. CASE \E s \in Sessions : PassOver(s)
    <3>1. PICK s \in Sessions : held' = [held EXCEPT ![Script] = [held[Script] EXCEPT ![s] = <<>>]]
      BY <2>3 DEF PassOver
    <3>2. [held[Script] EXCEPT ![s] = <<>>] \in [Sessions -> Seq(Nat)]
          /\ \A r \in Sessions : [held[Script] EXCEPT ![s] = <<>>][r] \in {<<>>, held[Script][r]}
      BY <1>2
    <3> QED BY <1>2, <3>1, <3>2
  <2>4. CASE \E p \in Processes : Stop(p) BY <1>2, <2>4 DEF Stop
  <2> QED BY <2>1, <2>2, <2>3, <2>4
<1> QED BY <1>1, <1>2, <1>3, CopyKeepsIds

StorageInv == SchemaInv /\ ItemIdsInv /\ IdsStand

LEMMA StorageInvariant == StorageSpec => []StorageInv
<1>1. StorageInit => StorageInv
  <2> SUFFICES ASSUME StorageInit PROVE StorageInv OBVIOUS
  <2>1. SchemaTypes BY TablesFact DEF StorageInit, SchemaTypes, Steps
  <2>2. \A p \in Processes : upgrade[p].at = "off" BY DEF StorageInit
  <2>3. SchemaInv BY <2>1, <2>2, ServerScript DEF StorageInit, SchemaInv, Done
  <2>4. <<0>> \in Seq(Nat) /\ <<>> \in Seq(Nat) OBVIOUS
  <2>5. ItemIdsInv BY <2>4 DEF StorageInit, ItemIdsInv, NoCopy
  <2>6. IdsStand BY DEF StorageInit, IdsStand
  <2> QED BY <2>3, <2>5, <2>6 DEF StorageInv
<1>2. StorageInv /\ [StorageNext]_storageVars => StorageInv'
  <2> SUFFICES ASSUME StorageInv, [StorageNext]_storageVars PROVE StorageInv' OBVIOUS
  <2> USE DEF StorageInv
  <2>1. UNCHANGED schemaVars => SchemaInv'
    BY DEF schemaVars, SchemaInv, SchemaTypes, Done, AllCurrent
  <2>2. ASSUME NEW t \in Tables, WriteRow(t) PROVE SchemaInv'
    BY <2>2 DEF WriteRow, SchemaInv, SchemaTypes, Done, AllCurrent
  <2>3. UNCHANGED itemVars => ItemIdsInv' /\ IdsStand'
    BY DEF itemVars, ItemIdsInv, Carries, IdsStand
  <2>4. SchemaInv'
    <3>1. CASE UNCHANGED storageVars BY <2>1, <3>1 DEF storageVars, schemaVars
    <3>2. CASE ReadAll \/ \E s \in Sessions : SaveBackfilled(s) \/ PassOver(s)
      BY <2>1, <3>2 DEF ReadAll, SaveBackfilled, PassOver
    <3>3. CASE \E t \in Turns : DropTurn(t) \/ \E s \in Sessions : LoadState(t, s) \/ SaveTurn(t, s)
      BY <2>1, <3>3 DEF DropTurn, LoadState, SaveTurn
    <3> QED BY <2>2, <3>1, <3>2, <3>3, StartUpStep, CreateMissingStep, ColumnStep, LookStep,
               RebuildStep, StopStep DEF StorageNext
  <2>5. ItemIdsInv' /\ IdsStand'
    <3>1. CASE UNCHANGED storageVars BY <2>3, <3>1 DEF storageVars, itemVars
    <3>2. ASSUME NEW p \in Processes,
                 \/ StartUp(p) \/ CreateMissing(p) \/ ColumnsAdded(p) \/ Look(p)
                 \/ DropOld(p) \/ CreateCurrent(p)
                 \/ \E c \in Columns : AddColumn(p, c)
          PROVE  UNCHANGED itemVars
      BY <3>2 DEF StartUp, CreateMissing, ColumnsAdded, Look, DropOld, CreateCurrent, AddColumn
    <3>3. ASSUME NEW t \in Tables, WriteRow(t) PROVE UNCHANGED itemVars
      BY <3>3 DEF WriteRow
    <3> QED BY <2>3, <3>1, <3>2, <3>3, CopyStep, LoadStateStep, SaveTurnStep, SaveBackfilledStep
        DEF StorageNext
  <2> QED BY <2>4, <2>5
<1> QED BY <1>1, <1>2, PTL DEF StorageSpec

\* Whatever shape an earlier version left the tables in, wherever a start is cut
\* off, and however turns, background tasks and the backfill overlap: who is up
\* finds every table and every row, and an id once saved stays, until a writer
\* saves a Journey another one holds a copy of.
THEOREM UpgradesKeep == StorageSpec => []UpgradesKeepWhatIsThere
<1>1. StorageInv => SchemaStands
  BY DEF StorageInv, SchemaInv, Done, AllCurrent, SchemaStands
<1>2. StorageInv => IdsStand
  BY DEF StorageInv
<1>3. StorageInv => UpgradesKeepWhatIsThere
  BY <1>1, <1>2 DEF UpgradesKeepWhatIsThere
<1> QED BY <1>3, StorageInvariant, PTL

-----------------------------------------------------------------------------
(* RateLimit.                                                              *)

Under(c) == caller[c].at \in {"admitted", "refused"}
Admitted == {c \in Callers : caller[c].at = "admitted"}

LimiterTypes ==
  /\ tick \in 0..LastTick /\ hits \in Seq(Nat) /\ late \subseteq Callers
  /\ caller \in [Callers -> [at : {"away", "waiting", "admitted", "refused"}, now : Nat]]
  /\ \A c \in Callers : caller[c].now <= tick

\* Who waits and was not overtaken is not behind anybody who has had the lock.
InTurn ==
  \A c, d \in Callers : Under(c) /\ caller[d].at = "waiting" /\ d \notin late =>
    caller[c].now <= caller[d].now

\* At any moment nobody has had the lock after, as many of the hits as of the
\* calls admitted are no older than the window.
CallsWithin(end) == {c \in Admitted : end <= caller[c].now + WindowTicks}
HitsWithin(q, end) == {i \in DOMAIN q : end <= q[i] + WindowTicks}
HitsAreCalls ==
  /\ \A i \in DOMAIN hits : \E c \in Admitted : hits[i] = caller[c].now
  /\ \A end \in 0..LastTick :
       (\A c \in Callers : Under(c) => caller[c].now <= end) =>
         Cardinality(CallsWithin(end)) = Cardinality(HitsWithin(hits, end))

\* As long as nobody was overtaken the hits are in order.
HitsInOrder ==
  late = {} => \A i, j \in DOMAIN hits : i <= j => hits[i] <= hits[j]

\* Those who were not overtaken keep to the limit.
OnTimeBounded ==
  \A t \in 0..LastTick : Cardinality(AdmittedIn(Back(t), t) \ late) <= Limit

LimiterInv ==
  /\ LimiterTypes /\ InTurn /\ HitsAreCalls /\ HitsInOrder /\ OnTimeBounded
  /\ RefusedOnlyAtLimit

-----------------------------------------------------------------------------
LEMMA LimiterConstants ==
  Limit \in Nat /\ WindowTicks \in Nat /\ LastTick \in Nat /\ IsFiniteSet(Callers)
BY LimiterAssumption

LEMMA UpTo ==
  ASSUME NEW n \in Nat
  PROVE  IsFiniteSet(1..n) /\ Cardinality(1..n) = n
BY FS_Interval

\* A set of positions that has all below each of its own is a first stretch.
LEMMA FirstStretch ==
  ASSUME NEW n \in Nat, NEW R \in SUBSET (1..n), \A i \in R : 1..i \subseteq R
  PROVE  Cardinality(R) \in 0..n /\ R = 1..Cardinality(R)
<1> DEFINE m == Cardinality(R)
<1>1. IsFiniteSet(1..n) /\ Cardinality(1..n) = n BY FS_Interval
<1>2. IsFiniteSet(R) /\ m \in Nat /\ m <= n BY <1>1, FS_Subset, FS_CardinalityType
<1>3. \A i \in R : i <= m
  <2> SUFFICES ASSUME NEW i \in R PROVE i <= m OBVIOUS
  <2>1. Cardinality(1..i) = i BY FS_Interval
  <2> QED BY <1>2, <2>1, FS_Subset
<1>4. IsFiniteSet(1..m) /\ Cardinality(1..m) = m BY <1>2, FS_Interval
<1> HIDE DEF m
<1>5. R \subseteq 1..m BY <1>2, <1>3
<1>6. R = 1..m BY <1>4, <1>5, FS_Subset DEF m
<1> QED BY <1>2, <1>6 DEF m

LEMMA Dropped ==
  ASSUME NEW q \in Seq(Nat), NEW now \in Nat
  PROVE  \E m \in 0..Len(q) :
           /\ DropExpired(q, now) = SubSeq(q, m + 1, Len(q))
           /\ \A j \in 1..m : now > q[j] + WindowTicks
           /\ m < Len(q) => now <= q[m + 1] + WindowTicks
<1> DEFINE gone == {i \in DOMAIN q : \A j \in 1..i : now > q[j] + WindowTicks}
           m == Cardinality(gone)
<1>1. DOMAIN q = 1..Len(q) /\ Len(q) \in Nat OBVIOUS
<1>2. gone \subseteq 1..Len(q) /\ \A i \in gone : 1..i \subseteq gone BY <1>1
<1>3. m \in 0..Len(q) /\ gone = 1..m
  <2> HIDE DEF gone
  <2> QED BY <1>1, <1>2, FirstStretch
<1>4. DropExpired(q, now) = SubSeq(q, 1 + m, Len(q)) BY DEF DropExpired
<1>5. \A j \in 1..m : now > q[j] + WindowTicks
  <2> SUFFICES ASSUME NEW j \in 1..m PROVE now > q[j] + WindowTicks OBVIOUS
  <2>1. j \in gone /\ j \in 1..j BY <1>3
  <2> QED BY <2>1
<1>6. m < Len(q) => now <= q[m + 1] + WindowTicks
  <2> SUFFICES ASSUME m < Len(q), ~(now <= q[m + 1] + WindowTicks) PROVE FALSE OBVIOUS
  <2> DEFINE k == m + 1
  <2>1. k \in 1..Len(q) /\ k \notin 1..m BY <1>3
  <2>2. q[k] \in Nat /\ WindowTicks \in Nat BY <2>1, LimiterConstants
  <2>3. now > q[k] + WindowTicks BY <2>2
  <2>4. \A j \in 1..k : j \in 1..m \/ j = k BY <1>3
  <2>5. k \in gone
    <3> HIDE DEF k, m
    <3> QED BY <1>1, <1>5, <2>1, <2>3, <2>4
  <2> QED BY <1>3, <2>1, <2>5
<1>7. 1 + m = m + 1 BY <1>3
<1> HIDE DEF m
<1> QED BY <1>3, <1>4, <1>5, <1>6, <1>7

LEMMA HitsFinite ==
  ASSUME NEW q \in Seq(Nat), NEW end \in Nat
  PROVE  IsFiniteSet(HitsWithin(q, end)) /\ Cardinality(HitsWithin(q, end)) \in 0..Len(q)
<1>1. HitsWithin(q, end) \subseteq 1..Len(q) /\ Len(q) \in Nat BY DEF HitsWithin
<1>2. IsFiniteSet(1..Len(q)) /\ Cardinality(1..Len(q)) = Len(q) BY <1>1, UpTo
<1> QED BY <1>1, <1>2, FS_Subset, FS_CardinalityType

\* Dropping what is older than the window takes nothing from it.
LEMMA TailWithin ==
  ASSUME NEW q \in Seq(Nat), NEW end \in Nat, NEW m \in 0..Len(q), NEW r \in Seq(Nat),
         Len(r) = Len(q) - m, \A i \in 1..Len(r) : r[i] = q[i + m],
         \A j \in 1..m : end > q[j] + WindowTicks
  PROVE  Cardinality(HitsWithin(r, end)) = Cardinality(HitsWithin(q, end))
<1> DEFINE S == HitsWithin(r, end)
           T == HitsWithin(q, end)
           f == [i \in S |-> i + m]
<1>1. S \subseteq 1..Len(r) /\ T \subseteq 1..Len(q) BY SMTT(40) DEF HitsWithin
<1>2. \A i \in S : i + m \in T
  <2> SUFFICES ASSUME NEW i \in S PROVE i + m \in T OBVIOUS
  <2>1. i \in 1..Len(r) /\ end <= r[i] + WindowTicks BY <1>1 DEF HitsWithin
  <2>2. r[i] = q[i + m] /\ i + m \in DOMAIN q BY <2>1
  <2> QED BY <2>1, <2>2 DEF HitsWithin
<1>3. \A j \in T : j > m
  <2> SUFFICES ASSUME NEW j \in T, ~(j > m) PROVE FALSE OBVIOUS
  <2>1. j \in 1..m /\ end <= q[j] + WindowTicks /\ q[j] \in Nat BY <1>1 DEF HitsWithin
  <2>2. end > q[j] + WindowTicks BY <2>1
  <2> QED BY <2>1, <2>2, LimiterConstants
<1>4. \A j \in T : j - m \in S
  <2> SUFFICES ASSUME NEW j \in T PROVE j - m \in S OBVIOUS
  <2>1. j \in 1..Len(q) /\ j > m /\ end <= q[j] + WindowTicks BY <1>3 DEF HitsWithin
  <2>2. j - m \in 1..Len(r) /\ (j - m) + m = j BY <2>1
  <2>3. r[j - m] = q[j] BY <2>2
  <2> QED BY <2>1, <2>2, <2>3 DEF HitsWithin
<1>5. f \in Bijection(S, T)
  <2> HIDE DEF S, T
  <2>1. f \in [S -> T] BY <1>2
  <2>2. \A a, b \in S : f[a] = f[b] => a = b BY <1>1
  <2>3. \A t \in T : \E s \in S : f[s] = t
    <3> SUFFICES ASSUME NEW t \in T PROVE \E s \in S : f[s] = t OBVIOUS
    <3>1. t - m \in S /\ f[t - m] = (t - m) + m /\ (t - m) + m = t BY <1>1, <1>4
    <3> QED BY <3>1
  <2> HIDE DEF f
  <2> QED BY <2>1, <2>2, <2>3 DEF Bijection, Injection, Surjection, IsInjective
<1>6. IsFiniteSet(S) BY HitsFinite
<1> QED BY <1>5, <1>6, FS_Bijection DEF ExistsBijection

LEMMA AppendWithin ==
  ASSUME NEW q \in Seq(Nat), NEW end \in Nat, NEW now \in Nat
  PROVE  /\ end <= now + WindowTicks =>
              Cardinality(HitsWithin(Append(q, now), end)) = Cardinality(HitsWithin(q, end)) + 1
         /\ ~(end <= now + WindowTicks) =>
              Cardinality(HitsWithin(Append(q, now), end)) = Cardinality(HitsWithin(q, end))
<1>1. /\ DOMAIN q = 1..Len(q) /\ DOMAIN Append(q, now) = 1..(Len(q) + 1)
      /\ \A i \in 1..Len(q) : Append(q, now)[i] = q[i]
      /\ Append(q, now)[Len(q) + 1] = now
  OBVIOUS
<1>2. CASE end <= now + WindowTicks
  <2>1. HitsWithin(Append(q, now), end) = HitsWithin(q, end) \cup {Len(q) + 1}
    BY <1>1, <1>2 DEF HitsWithin
  <2>2. Len(q) + 1 \notin HitsWithin(q, end) BY <1>1 DEF HitsWithin
  <2> QED BY <1>2, <2>1, <2>2, HitsFinite, FS_AddElement
<1>3. CASE ~(end <= now + WindowTicks)
  <2>1. HitsWithin(Append(q, now), end) = HitsWithin(q, end)
    BY <1>1, <1>3 DEF HitsWithin
  <2> QED BY <1>3, <2>1
<1> QED BY <1>2, <1>3

\* What a caller finds in the deque under the lock.
StillWithin(left, q, now) ==
  /\ left \in Seq(Nat)
  /\ \A end \in Nat : now <= end =>
       Cardinality(HitsWithin(left, end)) = Cardinality(HitsWithin(q, end))
  /\ \A i \in DOMAIN left : \E j \in DOMAIN q : left[i] = q[j]
  /\ (\A i, j \in DOMAIN q : i <= j => q[i] <= q[j]) =>
       /\ \A i, j \in DOMAIN left : i <= j => left[i] <= left[j]
       /\ \A i \in DOMAIN left : now <= left[i] + WindowTicks

LEMMA Kept ==
  ASSUME NEW q \in Seq(Nat), NEW now \in Nat
  PROVE  StillWithin(DropExpired(q, now), q, now)
<1> DEFINE left == DropExpired(q, now)
<1> HIDE DEF left
<1>1. PICK m \in 0..Len(q) :
        /\ left = SubSeq(q, m + 1, Len(q))
        /\ \A j \in 1..m : now > q[j] + WindowTicks
        /\ m < Len(q) => now <= q[m + 1] + WindowTicks
  BY Dropped DEF left
<1>2. /\ left \in Seq(Nat) /\ Len(left) = Len(q) - m
      /\ \A i \in 1..Len(left) : left[i] = q[i + m]
  <2>1. m + 1 \in 1..(Len(q) + 1) /\ Len(q) \in Nat OBVIOUS
  <2>2. \A i \in (m + 1)..Len(q) : q[i] \in Nat OBVIOUS
  <2>3. /\ left = SubSeq(q, m + 1, Len(q))
        /\ Len(SubSeq(q, m + 1, Len(q))) = Len(q) - m
        /\ \A i \in 1..(Len(q) - m) : SubSeq(q, m + 1, Len(q))[i] = q[i + m]
    BY <1>1, SubSeqProperties
  <2> QED BY <2>2, <2>3, SubSeqProperties
<1>3. ASSUME NEW end \in Nat, now <= end
      PROVE  Cardinality(HitsWithin(left, end)) = Cardinality(HitsWithin(q, end))
  <2>1. \A j \in 1..m : end > q[j] + WindowTicks BY <1>1, <1>3, LimiterConstants
  <2> QED BY <1>2, <2>1, TailWithin
<1>4. DOMAIN left = 1..Len(left) /\ DOMAIN q = 1..Len(q) BY <1>2
<1>5. ASSUME NEW i \in DOMAIN left PROVE i + m \in DOMAIN q /\ left[i] = q[i + m]
  <2>1. i \in 1..Len(left) /\ Len(left) = Len(q) - m BY <1>2, <1>4, <1>5
  <2>2. i + m \in 1..Len(q) BY <2>1
  <2> QED BY <1>2, <1>4, <2>1, <2>2
<1>6. ASSUME \A i, j \in DOMAIN q : i <= j => q[i] <= q[j]
      PROVE  /\ \A i, j \in DOMAIN left : i <= j => left[i] <= left[j]
             /\ \A i \in DOMAIN left : now <= left[i] + WindowTicks
  <2>1. \A i, j \in DOMAIN left : i <= j => left[i] <= left[j]
    <3> SUFFICES ASSUME NEW i \in DOMAIN left, NEW j \in DOMAIN left, i <= j
                 PROVE  left[i] <= left[j]
      OBVIOUS
    <3>1. i + m <= j + m BY <1>4
    <3> QED BY <1>5, <1>6, <3>1
  <2>2. ASSUME NEW i \in DOMAIN left PROVE now <= left[i] + WindowTicks
    <3>1. m + 1 \in DOMAIN q /\ m + 1 <= i + m /\ m < Len(q) BY <1>2, <1>4
    <3>2. q[m + 1] <= left[i] BY <1>5, <1>6, <3>1
    <3>3. q[m + 1] \in Nat /\ left[i] \in Nat BY <1>2, <1>4, <3>1
    <3>4. now <= q[m + 1] + WindowTicks BY <1>1, <3>1
    <3> QED BY <3>2, <3>3, <3>4, LimiterConstants
  <2> QED BY <2>1, <2>2
<1>7. StillWithin(left, q, now) BY <1>2, <1>3, <1>5, <1>6 DEF StillWithin
<1> QED BY <1>7 DEF left

LEMMA BackIs ==
  ASSUME NEW t \in Nat, NEW x \in Nat
  PROVE  Back(t) \in Nat /\ (Back(t) <= x <=> t <= x + WindowTicks)
BY LimiterConstants DEF Back

LEMMA SomeCallers ==
  ASSUME NEW S \in SUBSET Callers
  PROVE  IsFiniteSet(S) /\ Cardinality(S) \in Nat
BY LimiterConstants, FS_Subset, FS_CardinalityType

\* What a call under the lock changes.
LEMMA LockMoves ==
  ASSUME LimiterInv, NEW c \in Callers, UnderLock(c)
  PROVE  \E left \in Seq(Nat) :
           /\ left = DropExpired(hits, caller[c].now)
           /\ Len(left) < Limit =>
                hits' = Append(left, caller[c].now) /\ caller'[c].at = "admitted"
           /\ ~(Len(left) < Limit) => hits' = left /\ caller'[c].at = "refused"
           /\ caller[c].at = "waiting" /\ c \notin late' \ late
           /\ caller' \in [Callers -> [at : {"away", "waiting", "admitted", "refused"}, now : Nat]]
           /\ \A d \in Callers : caller'[d].now = caller[d].now
           /\ \A d \in Callers : d # c => caller'[d] = caller[d]
           /\ tick' = tick /\ late \subseteq late' /\ late' \subseteq Callers
           /\ \A d \in Callers :
                caller[d].at = "waiting" /\ d \notin late' => caller[c].now <= caller[d].now
           /\ \A d \in late' \ late : caller[d].at = "waiting"
<1> DEFINE left == DropExpired(hits, caller[c].now)
<1>1. /\ hits \in Seq(Nat) /\ late \subseteq Callers /\ caller[c].now \in Nat
      /\ caller \in [Callers -> [at : {"away", "waiting", "admitted", "refused"}, now : Nat]]
  BY DEF LimiterInv, LimiterTypes
<1>2. left \in Seq(Nat) BY <1>1, Kept DEF StillWithin
<1>3. /\ caller[c].at = "waiting" /\ tick' = tick
      /\ hits' = IF Len(left) < Limit THEN Append(left, caller[c].now) ELSE left
      /\ caller' = [caller EXCEPT ![c].at = IF Len(left) < Limit THEN "admitted" ELSE "refused"]
      /\ late' = late \cup {d \in Callers : caller[d].at = "waiting" /\ caller[d].now < caller[c].now}
  BY DEF UnderLock
<1> HIDE DEF left
<1>4. /\ Len(left) < Limit => hits' = Append(left, caller[c].now) /\ caller'[c].at = "admitted"
      /\ ~(Len(left) < Limit) => hits' = left /\ caller'[c].at = "refused"
  BY <1>1, <1>3
<1>5. /\ caller' \in [Callers -> [at : {"away", "waiting", "admitted", "refused"}, now : Nat]]
      /\ \A d \in Callers : caller'[d].now = caller[d].now
      /\ \A d \in Callers : d # c => caller'[d] = caller[d]
  BY <1>1, <1>3
<1>6. /\ late \subseteq late' /\ late' \subseteq Callers
      /\ \A d \in late' \ late : caller[d].at = "waiting" /\ caller[d].now < caller[c].now
  BY <1>1, <1>3
<1>7. ASSUME NEW d \in Callers, caller[d].at = "waiting", d \notin late'
      PROVE  caller[c].now <= caller[d].now
  <2>1. ~(caller[d].now < caller[c].now) BY <1>3, <1>7
  <2> QED BY <1>1, <2>1
<1>8. c \notin late' \ late BY <1>1, <1>6
<1> QED BY <1>2, <1>3, <1>4, <1>5, <1>6, <1>7, <1>8 DEF left

\* The calls admitted and the hits under way keep step.
LEMMA HitsStep ==
  ASSUME LimiterInv, NEW c \in Callers, UnderLock(c)
  PROVE  HitsAreCalls'
<1> DEFINE now == caller[c].now
<1>1. PICK left \in Seq(Nat) :
        /\ left = DropExpired(hits, now)
        /\ Len(left) < Limit => hits' = Append(left, now) /\ caller'[c].at = "admitted"
        /\ ~(Len(left) < Limit) => hits' = left /\ caller'[c].at = "refused"
        /\ caller[c].at = "waiting"
        /\ \A d \in Callers : caller'[d].now = caller[d].now
        /\ \A d \in Callers : d # c => caller'[d] = caller[d]
  BY LockMoves
<1>2. hits \in Seq(Nat) /\ now \in Nat /\ \A d \in Callers : caller[d].now \in Nat
  BY DEF LimiterInv, LimiterTypes
<1>3. /\ \A end \in Nat : now <= end =>
           Cardinality(HitsWithin(left, end)) = Cardinality(HitsWithin(hits, end))
      /\ \A i \in DOMAIN left : \E j \in DOMAIN hits : left[i] = hits[j]
  <2>1. StillWithin(left, hits, now) BY <1>1, <1>2, Kept
  <2> HIDE DEF now
  <2> QED BY <2>1 DEF StillWithin
<1>4. c \notin Admitted /\ (Len(left) < Limit => Admitted' = Admitted \cup {c})
      /\ (~(Len(left) < Limit) => Admitted' = Admitted)
  BY <1>1 DEF Admitted
<1>5. \A d \in Callers : Under(d) => Under(d)'
  BY <1>1 DEF Under
<1>6. Under(c)' BY <1>1 DEF Under
<1> HIDE DEF now
<1>7. \A i \in DOMAIN left : \E d \in Admitted : left[i] = caller[d].now
  BY <1>3 DEF LimiterInv, HitsAreCalls
<1>8. ASSUME NEW i \in DOMAIN hits' PROVE \E d \in Admitted' : hits'[i] = caller'[d].now
  <2>1. CASE Len(left) < Limit
    <3>1. hits' = Append(left, now) /\ Admitted' = Admitted \cup {c} BY <1>1, <1>4, <2>1
    <3>2. (i \in DOMAIN left /\ hits'[i] = left[i]) \/ hits'[i] = now
      BY <1>2, <1>8, <3>1
    <3> QED BY <1>1, <1>7, <3>1, <3>2 DEF now, Admitted
  <2>2. CASE ~(Len(left) < Limit)
    <3>1. hits' = left /\ Admitted' = Admitted BY <1>1, <1>4, <2>2
    <3> QED BY <1>1, <1>7, <1>8, <3>1 DEF Admitted
  <2> QED BY <2>1, <2>2
<1>9. ASSUME NEW end \in 0..LastTick, \A d \in Callers : Under(d)' => caller'[d].now <= end
      PROVE  Cardinality(CallsWithin(end)') = Cardinality(HitsWithin(hits', end))
  <2>1. end \in Nat /\ now <= end BY <1>1, <1>6, <1>9 DEF now
  <2>2. \A d \in Callers : Under(d) => caller[d].now <= end BY <1>1, <1>5, <1>9
  <2>3. Cardinality(CallsWithin(end)) = Cardinality(HitsWithin(left, end))
    BY <1>3, <2>1, <2>2 DEF LimiterInv, HitsAreCalls
  <2>4. IsFiniteSet(CallsWithin(end)) /\ c \notin CallsWithin(end)
    BY <1>4, SomeCallers DEF CallsWithin, Admitted
  <2>5. CASE Len(left) < Limit
    <3>1. hits' = Append(left, now) /\ Admitted' = Admitted \cup {c} BY <1>1, <1>4, <2>5
    <3>2. CASE end <= now + WindowTicks
      <4>1. CallsWithin(end)' = CallsWithin(end) \cup {c}
        BY <1>1, <3>1, <3>2 DEF CallsWithin, Admitted, now
      <4>2. Cardinality(CallsWithin(end)') = Cardinality(CallsWithin(end)) + 1
        BY <2>4, <4>1, FS_AddElement
      <4>3. Cardinality(HitsWithin(hits', end)) = Cardinality(HitsWithin(left, end)) + 1
        BY <1>2, <2>1, <3>1, <3>2, AppendWithin
      <4> QED BY <2>3, <4>2, <4>3
    <3>3. CASE ~(end <= now + WindowTicks)
      <4>1. CallsWithin(end)' = CallsWithin(end)
        BY <1>1, <3>1, <3>3 DEF CallsWithin, Admitted, now
      <4>2. Cardinality(HitsWithin(hits', end)) = Cardinality(HitsWithin(left, end))
        BY <1>2, <2>1, <3>1, <3>3, AppendWithin
      <4> QED BY <2>3, <4>1, <4>2
    <3> QED BY <3>2, <3>3
  <2>6. CASE ~(Len(left) < Limit)
    <3>1. hits' = left /\ Admitted' = Admitted BY <1>1, <1>4, <2>6
    <3>2. CallsWithin(end)' = CallsWithin(end)
      BY <1>1, <3>1 DEF CallsWithin, Admitted
    <3> QED BY <2>3, <3>1, <3>2
  <2> QED BY <2>5, <2>6
<1> QED BY <1>8, <1>9 DEF HitsAreCalls, HitsWithin

\* Nobody who was overtaken on the way to the lock adds to those on time; and who
\* was not finds all that the window holds still in the deque.
LEMMA LimitStep ==
  ASSUME LimiterInv, NEW c \in Callers, UnderLock(c)
  PROVE  OnTimeBounded' /\ RefusedOnlyAtLimit' /\ HitsInOrder'
<1> DEFINE now == caller[c].now
<1>1. PICK left \in Seq(Nat) :
        /\ left = DropExpired(hits, now)
        /\ Len(left) < Limit => hits' = Append(left, now) /\ caller'[c].at = "admitted"
        /\ ~(Len(left) < Limit) => hits' = left /\ caller'[c].at = "refused"
        /\ caller[c].at = "waiting" /\ c \notin late' \ late
        /\ \A d \in Callers : caller'[d].now = caller[d].now
        /\ \A d \in Callers : d # c => caller'[d] = caller[d]
        /\ late \subseteq late' /\ late' \subseteq Callers
        /\ \A d \in late' \ late : caller[d].at = "waiting"
  BY LockMoves
<1>2. /\ hits \in Seq(Nat) /\ now \in Nat /\ now \in 0..LastTick
      /\ \A d \in Callers : caller[d].now \in Nat
  BY LimiterConstants DEF LimiterInv, LimiterTypes
<1> HIDE DEF now
<1>3. left = DropExpired(hits, now) BY <1>1
<1>4. /\ Cardinality(HitsWithin(left, now)) = Cardinality(HitsWithin(hits, now))
      /\ \A i \in DOMAIN left : \E j \in DOMAIN hits : left[i] = hits[j]
      /\ (\A i, j \in DOMAIN hits : i <= j => hits[i] <= hits[j]) =>
           /\ \A i, j \in DOMAIN left : i <= j => left[i] <= left[j]
           /\ \A i \in DOMAIN left : now <= left[i] + WindowTicks
  <2>1. now <= now BY <1>2
  <2>2. StillWithin(left, hits, now) BY <1>2, <1>3, Kept
  <2> QED BY <1>2, <2>1, <2>2 DEF StillWithin
<1>5. Cardinality(HitsWithin(left, now)) <= Len(left)
  BY <1>2, HitsFinite
\* who was not overtaken comes after all who have had the lock
<1>6. c \notin late => \A d \in Callers : Under(d) => caller[d].now <= now
  BY <1>1 DEF LimiterInv, InTurn, now
<1>7. c \notin late => Cardinality(CallsWithin(now)) = Cardinality(HitsWithin(left, now))
  BY <1>2, <1>4, <1>6 DEF LimiterInv, HitsAreCalls
<1>8. OnTimeBounded'
  <2> SUFFICES ASSUME NEW t \in 0..LastTick
               PROVE  Cardinality(AdmittedIn(Back(t), t)' \ late') <= Limit
    BY DEF OnTimeBounded
  <2> DEFINE S == AdmittedIn(Back(t), t) \ late
  <2>1. IsFiniteSet(S) /\ Cardinality(S) \in Nat /\ Cardinality(S) <= Limit /\ S \subseteq Callers
    BY SomeCallers DEF LimiterInv, OnTimeBounded, AdmittedIn
  <2>2. ASSUME NEW d \in AdmittedIn(Back(t), t)' \ late', d # c PROVE d \in S
    BY <1>1, <2>2 DEF AdmittedIn
  <2>3. CASE c \notin AdmittedIn(Back(t), t)' \ late'
    <3>1. AdmittedIn(Back(t), t)' \ late' \subseteq S BY <2>2, <2>3
    <3> QED BY <2>1, <3>1, FS_Subset, SomeCallers, LimiterConstants
  <2>4. CASE c \in AdmittedIn(Back(t), t)' \ late'
    <3>1. c \notin late /\ now \in Back(t)..t /\ Len(left) < Limit
      BY <1>1, <2>4 DEF AdmittedIn, now
    <3>2. S \subseteq CallsWithin(now)
      <4> SUFFICES ASSUME NEW d \in S PROVE d \in CallsWithin(now) OBVIOUS
      <4>1. d \in Admitted /\ caller[d].now \in Back(t)..t BY DEF AdmittedIn, Admitted
      <4>2. caller[d].now \in Nat /\ t \in Nat BY <1>2, <4>1, LimiterConstants DEF Admitted
      <4>3. t <= caller[d].now + WindowTicks BY <4>1, <4>2, BackIs
      <4>4. now <= t BY <3>1
      <4> QED BY <1>2, <4>1, <4>2, <4>3, <4>4, LimiterConstants DEF CallsWithin
    <3>3. IsFiniteSet(CallsWithin(now)) BY SomeCallers DEF CallsWithin, Admitted
    <3>4. Cardinality(S) <= Cardinality(CallsWithin(now)) BY <3>2, <3>3, FS_Subset
    <3>5. Cardinality(S) <= Len(left)
      BY <1>5, <1>7, <2>1, <3>1, <3>3, <3>4, FS_CardinalityType
    <3>6. AdmittedIn(Back(t), t)' \ late' \subseteq S \cup {c} BY <2>2
    <3>7. IsFiniteSet(S \cup {c}) /\ Cardinality(S \cup {c}) <= Cardinality(S) + 1
      <4>1. c \notin S BY <1>1 DEF AdmittedIn
      <4>2. IsFiniteSet(S \cup {c}) /\ Cardinality(S \cup {c}) = Cardinality(S) + 1
        BY <2>1, <4>1, FS_AddElement
      <4> QED BY <2>1, <4>2
    <3>8. Cardinality(AdmittedIn(Back(t), t)' \ late') <= Cardinality(S \cup {c})
      BY <3>6, <3>7, FS_Subset
    <3>9. /\ Cardinality(S \cup {c}) \in Nat
          /\ Cardinality(AdmittedIn(Back(t), t)' \ late') \in Nat
      BY <3>6, <3>7, FS_Subset, FS_CardinalityType
    <3> HIDE DEF S
    <3> QED BY <2>1, <3>1, <3>5, <3>7, <3>8, <3>9, LimiterConstants
  <2> QED BY <2>3, <2>4
<1>9. ASSUME late' = {} PROVE late = {} /\ c \notin late BY <1>1, <1>9
<1>10. late = {} => /\ \A i, j \in DOMAIN left : i <= j => left[i] <= left[j]
                    /\ \A i \in DOMAIN left : now <= left[i] + WindowTicks
  BY <1>4 DEF LimiterInv, HitsInOrder
<1>11. RefusedOnlyAtLimit'
  <2> SUFFICES ASSUME late' = {}, NEW d \in Callers, caller'[d].at = "refused"
               PROVE  Cardinality(AdmittedIn(Back(caller[d].now), caller[d].now)') >= Limit
    BY <1>1 DEF RefusedOnlyAtLimit, AdmittedIn
  <2> DEFINE end == caller[d].now
             S == AdmittedIn(Back(end), end)
  <2>1. S \subseteq AdmittedIn(Back(caller[d].now), caller[d].now)'
    BY <1>1 DEF AdmittedIn
  <2>2. IsFiniteSet(AdmittedIn(Back(caller[d].now), caller[d].now)')
    <3>1. AdmittedIn(Back(caller[d].now), caller[d].now)' \subseteq Callers BY DEF AdmittedIn
    <3> QED BY <3>1, SomeCallers
  <2>3. Cardinality(S) >= Limit
    <3>1. CASE d # c
      BY <1>1, <1>9, <3>1 DEF LimiterInv, RefusedOnlyAtLimit
    <3>2. CASE d = c
      <4>1. ~(Len(left) < Limit) BY <1>1, <3>2
      <4>2. HitsWithin(left, now) = DOMAIN left BY <1>9, <1>10 DEF HitsWithin
      <4>3. Cardinality(HitsWithin(left, now)) = Len(left)
        <5>1. DOMAIN left = 1..Len(left) /\ Len(left) \in Nat OBVIOUS
        <5> QED BY <4>2, <5>1, UpTo
      <4>4. CallsWithin(now) \subseteq S
        <5> SUFFICES ASSUME NEW e \in CallsWithin(now) PROVE e \in S OBVIOUS
        <5>1. e \in Callers /\ caller[e].at = "admitted" /\ now <= caller[e].now + WindowTicks
          BY DEF CallsWithin, Admitted
        <5>2. caller[e].now \in Nat /\ caller[e].now <= now
          BY <1>2, <1>6, <1>9, <5>1 DEF Under
        <5>3. Back(now) \in Nat /\ Back(now) <= caller[e].now BY <1>2, <5>1, <5>2, BackIs
        <5> QED BY <1>2, <3>2, <5>1, <5>2, <5>3 DEF AdmittedIn, now
      <4>5. IsFiniteSet(S) /\ Cardinality(S) \in Nat BY SomeCallers DEF AdmittedIn
      <4>6. Cardinality(CallsWithin(now)) <= Cardinality(S) BY <4>4, <4>5, FS_Subset
      <4>7. Len(left) \in Nat OBVIOUS
      <4> HIDE DEF S
      <4> QED BY <1>7, <1>9, <4>1, <4>3, <4>5, <4>6, <4>7, LimiterConstants
    <3> QED BY <3>1, <3>2
  <2>4. Cardinality(S) <= Cardinality(AdmittedIn(Back(caller[d].now), caller[d].now)')
    BY <2>1, <2>2, FS_Subset
  <2>5. /\ Cardinality(S) \in Nat
        /\ Cardinality(AdmittedIn(Back(caller[d].now), caller[d].now)') \in Nat
    BY <2>1, <2>2, FS_Subset, FS_CardinalityType
  <2> HIDE DEF S
  <2> QED BY <2>3, <2>4, <2>5, LimiterConstants
<1>12. HitsInOrder'
  <2> SUFFICES ASSUME late' = {} PROVE \A i, j \in DOMAIN hits' : i <= j => hits'[i] <= hits'[j]
    BY DEF HitsInOrder
  <2>1. \A i, j \in DOMAIN left : i <= j => left[i] <= left[j] BY <1>9, <1>10
  <2>2. \A i \in DOMAIN left : left[i] <= now
    <3> SUFFICES ASSUME NEW i \in DOMAIN left PROVE left[i] <= now OBVIOUS
    <3>1. PICK j \in DOMAIN hits : left[i] = hits[j] BY <1>4
    <3>2. PICK d \in Admitted : hits[j] = caller[d].now BY DEF LimiterInv, HitsAreCalls
    <3> QED BY <1>6, <1>9, <3>1, <3>2 DEF Admitted, Under
  <2>3. CASE Len(left) < Limit
    <3>1. hits' = Append(left, now) BY <1>1, <2>3
    <3> QED BY <1>2, <2>1, <2>2, <3>1
  <2>4. CASE ~(Len(left) < Limit) BY <1>1, <2>1, <2>4
  <2> QED BY <2>3, <2>4
<1> QED BY <1>8, <1>11, <1>12

LEMMA LockStep ==
  ASSUME LimiterInv, NEW c \in Callers, UnderLock(c)
  PROVE  LimiterInv'
<1>1. PICK left \in Seq(Nat) :
        /\ Len(left) < Limit => hits' = Append(left, caller[c].now)
        /\ ~(Len(left) < Limit) => hits' = left
        /\ caller' \in [Callers -> [at : {"away", "waiting", "admitted", "refused"}, now : Nat]]
        /\ \A d \in Callers : caller'[d].now = caller[d].now
        /\ \A d \in Callers : d # c => caller'[d] = caller[d]
        /\ caller'[c].at \in {"admitted", "refused"}
        /\ tick' = tick /\ late \subseteq late' /\ late' \subseteq Callers
        /\ \A d \in Callers :
             caller[d].at = "waiting" /\ d \notin late' => caller[c].now <= caller[d].now
  <2>1. PICK left \in Seq(Nat) :
          /\ Len(left) < Limit =>
               hits' = Append(left, caller[c].now) /\ caller'[c].at = "admitted"
          /\ ~(Len(left) < Limit) => hits' = left /\ caller'[c].at = "refused"
          /\ caller' \in [Callers -> [at : {"away", "waiting", "admitted", "refused"}, now : Nat]]
          /\ \A d \in Callers : caller'[d].now = caller[d].now
          /\ \A d \in Callers : d # c => caller'[d] = caller[d]
          /\ tick' = tick /\ late \subseteq late' /\ late' \subseteq Callers
          /\ \A d \in Callers :
               caller[d].at = "waiting" /\ d \notin late' => caller[c].now <= caller[d].now
    BY LockMoves
  <2> QED BY <2>1
<1>2. hits' \in Seq(Nat)
  <2>1. caller[c].now \in Nat BY DEF LimiterInv, LimiterTypes
  <2>2. Append(left, caller[c].now) \in Seq(Nat) BY <2>1
  <2> QED BY <1>1, <2>2
<1>3. LimiterTypes'
  BY <1>1, <1>2 DEF LimiterInv, LimiterTypes
<1>4. InTurn'
  <2> SUFFICES ASSUME NEW d \in Callers, NEW e \in Callers, Under(d)',
                      caller'[e].at = "waiting", e \notin late'
               PROVE  caller'[d].now <= caller'[e].now
    BY DEF InTurn
  <2>1. e # c /\ caller[e].at = "waiting" /\ e \notin late BY <1>1
  <2>2. CASE d = c BY <1>1, <2>1, <2>2
  <2>3. CASE d # c
    <3>1. Under(d) BY <1>1, <2>3 DEF Under
    <3>2. caller[d].now <= caller[e].now BY <2>1, <3>1 DEF LimiterInv, InTurn
    <3> QED BY <1>1, <3>2
  <2> QED BY <2>2, <2>3
<1> QED BY <1>3, <1>4, HitsStep, LimitStep DEF LimiterInv

\* Until the lock, a caller is in nobody's count.
LEMMA ClockStep ==
  ASSUME LimiterInv, Tick \/ \E c \in Callers : ReadClock(c)
  PROVE  LimiterInv'
<1>1. /\ hits' = hits /\ late' = late /\ tick' \in 0..LastTick /\ tick' >= tick
      /\ caller' \in [Callers -> [at : {"away", "waiting", "admitted", "refused"}, now : Nat]]
      /\ \A c \in Callers :
           \/ caller'[c] = caller[c]
           \/ caller[c].at = "away" /\ caller'[c].at = "waiting" /\ caller'[c].now = tick
  <2>1. /\ tick \in 0..LastTick /\ tick \in Nat
        /\ caller \in [Callers -> [at : {"away", "waiting", "admitted", "refused"}, now : Nat]]
    BY LimiterConstants DEF LimiterInv, LimiterTypes
  <2>2. CASE Tick BY <2>1, <2>2, LimiterConstants DEF Tick
  <2>3. CASE \E c \in Callers : ReadClock(c) BY <2>1, <2>3 DEF ReadClock
  <2> QED BY <2>2, <2>3
<1>2. /\ tick \in Nat /\ \A c \in Callers : caller[c].now \in Nat /\ caller[c].now <= tick
  BY LimiterConstants DEF LimiterInv, LimiterTypes
<1>3. LimiterTypes' BY <1>1, <1>2, LimiterConstants DEF LimiterInv, LimiterTypes
<1>4. \A c \in Callers : /\ Under(c)' <=> Under(c)
                         /\ caller'[c].at = "admitted" <=> caller[c].at = "admitted"
                         /\ Under(c) => caller'[c] = caller[c]
  BY <1>1 DEF Under
<1>5. Admitted' = Admitted /\ \A c \in Admitted : caller'[c] = caller[c] /\ Under(c)
  BY <1>4 DEF Admitted, Under
<1>6. InTurn'
  <2> SUFFICES ASSUME NEW c \in Callers, NEW d \in Callers, Under(c)',
                      caller'[d].at = "waiting", d \notin late
               PROVE  caller'[c].now <= caller'[d].now
    BY <1>1 DEF InTurn
  <2> QED BY <1>1, <1>2, <1>4 DEF LimiterInv, InTurn
<1>7. \A from, to : AdmittedIn(from, to)' = AdmittedIn(from, to)
  BY <1>4, <1>5 DEF AdmittedIn, Admitted
<1>8. HitsAreCalls'
  <2>1. \A end : CallsWithin(end)' = CallsWithin(end) BY <1>5 DEF CallsWithin
  <2>2. \A end \in 0..LastTick :
          (\A c \in Callers : Under(c)' => caller'[c].now <= end) =>
            Cardinality(CallsWithin(end)) = Cardinality(HitsWithin(hits, end))
    BY <1>4 DEF LimiterInv, HitsAreCalls
  <2>3. \A i \in DOMAIN hits : \E c \in Admitted : hits[i] = caller'[c].now
    BY <1>5 DEF LimiterInv, HitsAreCalls
  <2> QED BY <1>1, <1>5, <2>1, <2>2, <2>3 DEF HitsAreCalls, HitsWithin
<1>9. OnTimeBounded'
  BY <1>1, <1>7 DEF LimiterInv, OnTimeBounded
<1>10. RefusedOnlyAtLimit'
  <2> SUFFICES ASSUME late = {}, NEW c \in Callers, caller'[c].at = "refused"
               PROVE  Cardinality(AdmittedIn(Back(caller[c].now), caller[c].now)') >= Limit
    BY <1>1 DEF RefusedOnlyAtLimit
  <2>1. caller'[c] = caller[c] BY <1>1
  <2>2. AdmittedIn(Back(caller[c].now), caller[c].now)' = AdmittedIn(Back(caller[c].now), caller[c].now)
    <3>1. \A e \in Callers :
            /\ caller'[e].at = "admitted" <=> caller[e].at = "admitted"
            /\ caller[e].at = "admitted" => caller'[e].now = caller[e].now
      BY <1>4 DEF Under
    <3> QED BY <2>1, <3>1 DEF AdmittedIn, Back
  <2>3. Cardinality(AdmittedIn(Back(caller[c].now), caller[c].now)) >= Limit
    BY <2>1 DEF LimiterInv, RefusedOnlyAtLimit
  <2> QED BY <2>2, <2>3
<1>11. HitsInOrder' BY <1>1 DEF LimiterInv, HitsInOrder
<1> QED BY <1>3, <1>6, <1>8, <1>9, <1>10, <1>11 DEF LimiterInv

LEMMA OnTimeIsBound ==
  ASSUME LimiterInv
  PROVE  WindowKept
<1>1. ASSUME NEW t \in 0..LastTick
      PROVE  Cardinality(AdmittedIn(Back(t), t)) <=
               Limit + Cardinality(late \cap AdmittedIn(Back(t), t))
  <2> DEFINE A == AdmittedIn(Back(t), t)
  <2>1. A \subseteq Callers BY DEF AdmittedIn
  <2>2. Cardinality(A \ late) <= Limit BY DEF LimiterInv, OnTimeBounded
  <2> HIDE DEF A
  <2>3. IsFiniteSet(A) /\ IsFiniteSet(A \ late) /\ IsFiniteSet(late \cap A)
    BY <2>1, SomeCallers
  <2>4. A = (A \ late) \cup (late \cap A) /\ (A \ late) \cap (late \cap A) = {} OBVIOUS
  <2>5. Cardinality(A) = Cardinality(A \ late) + Cardinality(late \cap A)
    <3> DEFINE S == A \ late
               T == late \cap A
    <3>1. IsFiniteSet(S) /\ IsFiniteSet(T) /\ Cardinality(S \cap T) = 0
      BY <2>3, <2>4, FS_EmptySet
    <3>2. A = S \cup T BY <2>4
    <3>3. Cardinality(S) \in Nat /\ Cardinality(T) \in Nat BY <3>1, FS_CardinalityType
    <3> HIDE DEF S, T
    <3>4. Cardinality(S \cup T) = Cardinality(S) + Cardinality(T) - Cardinality(S \cap T)
      BY <3>1, FS_Union
    <3>5. Cardinality(A) = Cardinality(S) + Cardinality(T) BY <3>1, <3>2, <3>3, <3>4
    <3> QED BY <3>5 DEF S, T
  <2>6. Cardinality(A \ late) \in Nat /\ Cardinality(late \cap A) \in Nat
    BY <2>3, FS_CardinalityType
  <2>7. Cardinality(A) <= Limit + Cardinality(late \cap A)
    BY <2>2, <2>5, <2>6, LimiterConstants
  <2> QED BY <2>7 DEF A
<1> QED BY <1>1 DEF WindowKept, BurstBounded, LimiterInv

\* For any number of callers, limit, window and clock: the calls admitted in one
\* window pass the limit by no more than were overtaken on the way to the lock,
\* and while none was, nobody is refused before the limit is reached.
THEOREM WindowStays == LimiterSpec => []WindowKept
<1>1. LimiterInit => LimiterInv
  <2> SUFFICES ASSUME LimiterInit PROVE LimiterInv OBVIOUS
  <2>1. /\ hits = <<>> /\ late = {} /\ tick = 0 /\ <<>> \in Seq(Nat) /\ DOMAIN <<>> = {}
        /\ \A c \in Callers : caller[c] = [at |-> "away", now |-> 0]
        /\ DOMAIN caller = Callers
    BY DEF LimiterInit
  <2>2. Admitted = {} /\ \A c \in Callers : ~Under(c) BY <2>1 DEF Admitted, Under
  <2>3. \A end : CallsWithin(end) = {} /\ HitsWithin(hits, end) = {}
    BY <2>1, <2>2 DEF CallsWithin, HitsWithin
  <2>4. \A from, to : AdmittedIn(from, to) = {} BY <2>1 DEF AdmittedIn
  <2>5. LimiterTypes BY LimiterConstants DEF LimiterInit, LimiterTypes
  <2>6. OnTimeBounded
    <3>1. \A t : AdmittedIn(Back(t), t) \ late = {} BY <2>4
    <3> QED BY <3>1, FS_EmptySet, LimiterConstants DEF OnTimeBounded
  <2>7. HitsAreCalls BY <2>1, <2>3 DEF HitsAreCalls
  <2>8. InTurn /\ HitsInOrder /\ RefusedOnlyAtLimit
    BY <2>1, <2>2 DEF InTurn, HitsInOrder, RefusedOnlyAtLimit
  <2> QED BY <2>5, <2>6, <2>7, <2>8 DEF LimiterInv
<1>2. LimiterInv /\ [LimiterNext]_limiterVars => LimiterInv'
  <2> SUFFICES ASSUME LimiterInv, [LimiterNext]_limiterVars PROVE LimiterInv' OBVIOUS
  <2>1. CASE UNCHANGED limiterVars
    <3>1. UNCHANGED <<tick, hits, caller, late>> BY <2>1 DEF limiterVars
    <3>2. LimiterTypes' /\ InTurn' /\ HitsInOrder'
      BY <3>1 DEF LimiterInv, LimiterTypes, InTurn, HitsInOrder, Under
    <3>3. HitsAreCalls'
      BY <3>1 DEF LimiterInv, HitsAreCalls, HitsWithin, CallsWithin, Admitted, Under
    <3>4. OnTimeBounded' /\ RefusedOnlyAtLimit'
      BY <3>1 DEF LimiterInv, OnTimeBounded, RefusedOnlyAtLimit, AdmittedIn, Back
    <3> QED BY <3>2, <3>3, <3>4 DEF LimiterInv
  <2> QED BY <2>1, ClockStep, LockStep DEF LimiterNext
<1> QED BY <1>1, <1>2, OnTimeIsBound, PTL DEF LimiterSpec

-----------------------------------------------------------------------------
(* PrivacyScreen.                                                          *)

Pairs == [learning : BOOLEAN, prompt : BOOLEAN]

SwitchTypes ==
  /\ kept \in Pairs /\ switches \in Pairs /\ answer \in Pairs
  /\ post \in [Posts -> [at : {"unsent", "sent", "half", "done", "failed"}, body : Pairs]]

Sensible(s) == s.prompt => s.learning

\* What is posted is sensible, whatever the screen knew, and while no two POSTs
\* mingle, what is stored is so up to the one that is half written.
SensibleInv ==
  /\ \A p \in Running : Sensible(post[p].body)
  /\ ~mingled => \A p, q \in Running : p = q
  /\ (~mingled /\ ~torn) => (Running = {} => Sensible(kept))
  /\ (~mingled /\ ~torn) => \A p \in Running : post[p].at = "sent" => Sensible(kept)
  /\ ~mingled => \A p \in Running : post[p].at = "half" => kept.learning = post[p].body.learning

Calm == ~mingled /\ ~hasty /\ ~denied

\* For the patient: nothing is written while the screen loads, and afterwards
\* what is stored is what the screen shows, up to the request under way.
FaithfulInv ==
  Calm =>
    /\ load # "done" => Running = {}
    /\ load = "half" => answer.learning = kept.learning
    /\ load = "answered" => answer = kept
    /\ load = "done" => \A p \in Running : post[p].body = switches
    /\ (load = "done" /\ Running = {}) => switches = kept

LEMMA PairsEqual ==
  ASSUME NEW a \in Pairs, NEW b \in Pairs, a.learning = b.learning, a.prompt = b.prompt
  PROVE  a = b
BY DEF Pairs

\* What an action does to a POST, and to those that are under way.
LEMMA PostMoves ==
  ASSUME SwitchTypes, NEW p \in Posts, NEW at \in {"sent", "half", "done", "failed"},
         post' = [post EXCEPT ![p].at = at]
  PROVE  /\ post' \in [Posts -> [at : {"unsent", "sent", "half", "done", "failed"}, body : Pairs]]
         /\ \A q \in Posts : post'[q].body = post[q].body
         /\ post'[p].at = at
         /\ \A q \in Posts \ {p} : post'[q] = post[q]
         /\ Running' = IF at \in {"sent", "half"} THEN Running \cup {p} ELSE Running \ {p}
BY DEF SwitchTypes, Running

LEMMA AfterTouch ==
  ASSUME SwitchTypes, NEW now \in Pairs, Send(now)
  PROVE  /\ SwitchTypes'
         /\ \E p \in Posts \ Running :
              /\ Running' = Running \cup {p} /\ post'[p].at = "sent" /\ post'[p].body = now
              /\ \A q \in Posts \ {p} : post'[q] = post[q]
<1>1. PICK p \in Posts : /\ post[p].at = "unsent"
                         /\ post' = [post EXCEPT ![p] = [at |-> "sent", body |-> now]]
  BY DEF Send
<1>2. /\ post' \in [Posts -> [at : {"unsent", "sent", "half", "done", "failed"}, body : Pairs]]
      /\ post'[p].at = "sent" /\ post'[p].body = now
      /\ \A q \in Posts \ {p} : post'[q] = post[q]
  BY <1>1 DEF SwitchTypes
<1>3. p \notin Running /\ Running' = Running \cup {p}
  BY <1>1, <1>2 DEF Running
<1>4. SwitchTypes'
  BY <1>2 DEF SwitchTypes, Send
<1> QED BY <1>2, <1>3, <1>4

LEMMA SwitchTypesStep ==
  ASSUME SwitchTypes, [PrivacyNext]_privacyVars
  PROVE  SwitchTypes'
<1> USE DEF SwitchTypes, Pairs
<1>1. CASE OpenSettings
  BY <1>1 DEF OpenSettings, Defaults, Settings
<1>2. CASE ReadLearning
  BY <1>2 DEF ReadLearning
<1>3. CASE ReadPrompt
  BY <1>3 DEF ReadPrompt
<1>4. CASE ShowStored \/ LoadFails
  BY <1>4 DEF ShowStored, LoadFails
<1>5. CASE ToggleLearning
  <2>1. AfterLearning(switches) \in Pairs
    BY DEF AfterLearning, Settings
  <2> QED BY <1>5, <2>1, AfterTouch DEF ToggleLearning
<1>6. CASE TogglePrompt
  <2>1. [switches EXCEPT !.prompt = ~@] \in Pairs
    OBVIOUS
  <2> QED BY <1>6, <2>1, AfterTouch DEF TogglePrompt
<1>7. ASSUME NEW p \in Posts, WriteLearning(p) \/ WritePrompt(p) \/ PostFails(p)
      PROVE  SwitchTypes'
  <2>1. CASE WriteLearning(p)
    BY <2>1 DEF WriteLearning
  <2>2. CASE WritePrompt(p)
    BY <2>2 DEF WritePrompt
  <2>3. CASE PostFails(p)
    BY <2>3 DEF PostFails
  <2> QED BY <1>7, <2>1, <2>2, <2>3
<1>8. CASE UNCHANGED privacyVars
  BY <1>8 DEF privacyVars
<1> QED BY <1>1, <1>2, <1>3, <1>4, <1>5, <1>6, <1>7, <1>8 DEF PrivacyNext

(* No prompt without learning.                                             *)

LEMMA TouchKeepsSensible ==
  ASSUME SwitchTypes, SensibleInv, NEW now \in Pairs, Sensible(now), Send(now)
  PROVE  SensibleInv'
<1>1. PICK p \in Posts \ Running :
        /\ Running' = Running \cup {p} /\ post'[p].at = "sent" /\ post'[p].body = now
        /\ \A q \in Posts \ {p} : post'[q] = post[q]
  BY AfterTouch
<1>2. /\ kept' = kept /\ torn' = torn
      /\ ~mingled' => ~mingled /\ Running = {}
  BY DEF Send
<1>3. \A q \in Running : q \in Posts \ {p}
  BY DEF Running
<1>4. \A q \in Running' : Sensible(post'[q].body)
  BY <1>1, <1>3 DEF SensibleInv, Sensible
<1>5. ~mingled' => Running' = {p}
  BY <1>1, <1>2
<1>6. (~mingled' /\ ~torn') => Sensible(kept')
  BY <1>2 DEF SensibleInv, Sensible
<1> QED BY <1>1, <1>4, <1>5, <1>6 DEF SensibleInv, Sensible

LEMMA SensibleStep ==
  ASSUME SwitchTypes, SensibleInv, [PrivacyNext]_privacyVars
  PROVE  SensibleInv'
<1>1. CASE OpenSettings \/ ReadLearning \/ ReadPrompt \/ ShowStored \/ LoadFails
  BY <1>1 DEF OpenSettings, ReadLearning, ReadPrompt, ShowStored, LoadFails, SensibleInv,
              Sensible, Running
<1>2. CASE ToggleLearning
  <2>1. AfterLearning(switches) \in Pairs /\ Sensible(AfterLearning(switches))
    BY DEF AfterLearning, Settings, Sensible, SwitchTypes, Pairs
  <2> QED BY <1>2, <2>1, TouchKeepsSensible DEF ToggleLearning
<1>3. CASE TogglePrompt
  <2> DEFINE now == [switches EXCEPT !.prompt = ~@]
  <2>1. now \in Pairs /\ now.learning = switches.learning
    BY DEF SwitchTypes, Pairs
  <2>2. Sensible(now) /\ Send(now)
    BY <1>3, <2>1 DEF TogglePrompt, Sensible
  <2> HIDE DEF now
  <2> QED BY <2>1, <2>2, TouchKeepsSensible
<1>4. ASSUME NEW p \in Posts, WriteLearning(p)
      PROVE  SensibleInv'
  <2>1. /\ post[p].at = "sent" /\ p \in Running
        /\ post' = [post EXCEPT ![p].at = "half"]
        /\ kept' = [kept EXCEPT !.learning = post[p].body.learning]
        /\ mingled' = mingled /\ torn' = torn
    BY <1>4 DEF WriteLearning, Running
  <2>2. /\ \A q \in Posts : post'[q].body = post[q].body
        /\ post'[p].at = "half" /\ Running' = Running
    BY <2>1, PostMoves DEF Running
  <2>3. kept'.learning = post[p].body.learning
    BY <2>1 DEF SwitchTypes, Pairs
  <2>4. ~mingled => Running = {p}
    BY <2>1 DEF SensibleInv
  <2>5. Running \subseteq Posts
    BY DEF Running
  <2> QED BY <2>1, <2>2, <2>3, <2>4, <2>5 DEF SensibleInv, Sensible
<1>5. ASSUME NEW p \in Posts, WritePrompt(p)
      PROVE  SensibleInv'
  <2>1. /\ post[p].at = "half" /\ p \in Running
        /\ post' = [post EXCEPT ![p].at = "done"]
        /\ kept' = [kept EXCEPT !.prompt = post[p].body.prompt]
        /\ mingled' = mingled /\ torn' = torn
    BY <1>5 DEF WritePrompt, Running
  <2>2. /\ \A q \in Posts : post'[q].body = post[q].body
        /\ \A q \in Posts \ {p} : post'[q] = post[q]
        /\ Running' = Running \ {p}
    BY <2>1, PostMoves
  <2>3. kept'.learning = kept.learning /\ kept'.prompt = post[p].body.prompt
    BY <2>1 DEF SwitchTypes, Pairs
  <2>4. ~mingled => Running' = {} /\ Sensible(kept')
    BY <2>1, <2>2, <2>3 DEF SensibleInv, Sensible
  <2>5. Running \subseteq Posts
    BY DEF Running
  <2> QED BY <2>1, <2>2, <2>4, <2>5 DEF SensibleInv, Sensible
<1>6. ASSUME NEW p \in Posts, PostFails(p)
      PROVE  SensibleInv'
  <2>1. /\ p \in Running /\ post' = [post EXCEPT ![p].at = "failed"]
        /\ kept' = kept /\ mingled' = mingled
        /\ ~torn' => ~torn /\ post[p].at = "sent"
    BY <1>6 DEF PostFails, Running
  <2>2. /\ \A q \in Posts : post'[q].body = post[q].body
        /\ \A q \in Posts \ {p} : post'[q] = post[q]
        /\ Running' = Running \ {p}
    BY <2>1, PostMoves
  <2>3. (~mingled' /\ ~torn') => Sensible(kept')
    BY <2>1 DEF SensibleInv, Sensible
  <2>4. Running \subseteq Posts
    BY DEF Running
  <2> QED BY <2>1, <2>2, <2>3, <2>4 DEF SensibleInv, Sensible
<1>7. CASE UNCHANGED privacyVars
  BY <1>7 DEF privacyVars, SensibleInv, Sensible, Running
<1> QED BY <1>1, <1>2, <1>3, <1>4, <1>5, <1>6, <1>7 DEF PrivacyNext

(* The screen shows what is kept.                                          *)

LEMMA TouchKeepsFaithful ==
  ASSUME SwitchTypes, FaithfulInv, NEW now \in Pairs, Send(now)
  PROVE  FaithfulInv'
<1>1. PICK p \in Posts \ Running :
        Running' = Running \cup {p} /\ post'[p].body = now
  BY AfterTouch
<1>2. /\ switches' = now /\ load' = load
      /\ Calm' => load = "done" /\ Running = {}
  BY DEF Send, Calm
<1> QED BY <1>1, <1>2 DEF FaithfulInv

LEMMA FaithfulStep ==
  ASSUME SwitchTypes, SwitchTypes', SensibleInv, FaithfulInv, [PrivacyNext]_privacyVars
  PROVE  FaithfulInv'
<1>1. CASE OpenSettings
  BY <1>1 DEF OpenSettings, FaithfulInv, Calm, Running
<1>2. CASE ReadLearning
  <2>1. answer'.learning = kept.learning
    BY <1>2 DEF ReadLearning, SwitchTypes, Pairs
  <2> QED BY <1>2, <2>1 DEF ReadLearning, FaithfulInv, Calm, Running
<1>3. CASE ReadPrompt
  <2>1. Calm => answer'.learning = kept.learning /\ answer'.prompt = kept.prompt
    BY <1>3 DEF ReadPrompt, SwitchTypes, Pairs, FaithfulInv
  <2>2. Calm => answer' = kept
    BY <2>1, PairsEqual DEF SwitchTypes
  <2> QED BY <1>3, <2>2 DEF ReadPrompt, FaithfulInv, Calm, Running
<1>4. CASE ShowStored \/ LoadFails
  BY <1>4 DEF ShowStored, LoadFails, FaithfulInv, Calm, Running, Loading
<1>5. CASE ToggleLearning
  <2>1. AfterLearning(switches) \in Pairs
    BY DEF AfterLearning, Settings, SwitchTypes, Pairs
  <2> QED BY <1>5, <2>1, TouchKeepsFaithful DEF ToggleLearning
<1>6. CASE TogglePrompt
  <2>1. [switches EXCEPT !.prompt = ~@] \in Pairs
    BY DEF SwitchTypes, Pairs
  <2> QED BY <1>6, <2>1, TouchKeepsFaithful DEF TogglePrompt
<1>7. ASSUME NEW p \in Posts, WriteLearning(p)
      PROVE  FaithfulInv'
  <2>1. /\ p \in Running /\ post' = [post EXCEPT ![p].at = "half"]
        /\ switches' = switches /\ load' = load /\ answer' = answer
        /\ Calm' <=> Calm
    BY <1>7 DEF WriteLearning, Running, Calm
  <2>2. /\ \A q \in Posts : post'[q].body = post[q].body
        /\ Running' = Running
    BY <2>1, PostMoves DEF Running
  <2>3. Running \subseteq Posts
    BY DEF Running
  <2> QED BY <2>1, <2>2, <2>3 DEF FaithfulInv
<1>8. ASSUME NEW p \in Posts, WritePrompt(p)
      PROVE  FaithfulInv'
  <2>1. /\ p \in Running /\ post[p].at = "half" /\ post' = [post EXCEPT ![p].at = "done"]
        /\ kept' = [kept EXCEPT !.prompt = post[p].body.prompt]
        /\ switches' = switches /\ load' = load /\ answer' = answer
        /\ Calm' <=> Calm
    BY <1>8 DEF WritePrompt, Running, Calm
  <2>2. /\ \A q \in Posts : post'[q].body = post[q].body
        /\ Running' = Running \ {p}
    BY <2>1, PostMoves
  <2>3. /\ kept'.learning = kept.learning /\ kept'.prompt = post[p].body.prompt
        /\ kept' \in Pairs
    BY <2>1 DEF SwitchTypes, Pairs
  <2>4. Calm => load = "done" /\ post[p].body = switches
    BY <2>1 DEF FaithfulInv
  <2>5. Calm => kept.learning = post[p].body.learning
    BY <2>1 DEF SensibleInv, Calm
  <2>6. Calm => kept' = switches
    BY <2>3, <2>4, <2>5, PairsEqual DEF SwitchTypes
  <2>7. Running \subseteq Posts
    BY DEF Running
  <2> QED BY <2>1, <2>2, <2>4, <2>6, <2>7 DEF FaithfulInv
<1>9. ASSUME NEW p \in Posts, PostFails(p)
      PROVE  FaithfulInv'
  BY <1>9 DEF PostFails, FaithfulInv, Calm
<1>10. CASE UNCHANGED privacyVars
  BY <1>10 DEF privacyVars, FaithfulInv, Calm, Running
<1> QED BY <1>1, <1>2, <1>3, <1>4, <1>5, <1>6, <1>7, <1>8, <1>9, <1>10 DEF PrivacyNext

\* Whoever waits for each request sees what is stored, and nobody whose requests
\* did not mingle is left with a prompt that nothing learns from, for any number
\* of requests, openings and failures.
THEOREM SwitchesAlwaysKeep == PrivacySpec => []SwitchesKeep
<1> DEFINE IInv == SwitchTypes /\ SensibleInv /\ FaithfulInv
<1>1. PrivacyInit => IInv
  <2> SUFFICES ASSUME PrivacyInit PROVE IInv
    OBVIOUS
  <2>1. Defaults \in Pairs /\ Sensible(Defaults)
    BY DEF Defaults, Settings, Pairs, Sensible
  <2>2. SwitchTypes /\ Running = {} /\ Sensible(kept)
    BY <2>1 DEF PrivacyInit, SwitchTypes, Running
  <2>3. load = "none"
    BY DEF PrivacyInit
  <2> QED BY <2>2, <2>3 DEF SensibleInv, FaithfulInv
<1>2. IInv /\ [PrivacyNext]_privacyVars => IInv'
  BY SwitchTypesStep, SensibleStep, FaithfulStep
<1>3. IInv => SwitchesKeep
  BY DEF SwitchesKeep, NoPromptWithoutLearning, ShownIsKept, SensibleInv, Sensible, FaithfulInv, Calm
<1> QED BY <1>1, <1>2, <1>3, PTL DEF PrivacySpec

-----------------------------------------------------------------------------
(* UsageLog.                                                                *)

Usages ==
  {u \in [component : Stages, model : Priced \cup Unpriced, tokens : Nat, cost : SUBSET Nat] :
     u.cost = Cost(u.model, u.tokens)}
Results == [component : Stages, outcome : {t.outcome : t \in Attempts}]
Trackers == [records : Seq(Usages), outcomes : Seq(Results)]
UsageTypes ==
  /\ tracking \in BOOLEAN /\ busy \subseteq Actors
  /\ tracker \in [Actors -> Trackers] /\ start \in [Actors -> Trackers]
  /\ called \in [Actors -> Seq(Usages)] /\ ended \in [Actors -> Seq(Results)]

\* A tracker holds what it held when its turn began and then that turn's calls.
TurnsOwn ==
  /\ \A a \in busy : tracking =>
       /\ tracker[a].records = start[a].records \o called[a]
       /\ tracker[a].outcomes = start[a].outcomes \o ended[a]
  /\ \A a \in Actors \ busy : called[a] = <<>> /\ ended[a] = <<>>
  /\ \A a \in Actors : a # Runner => start[a] = NewTracker

\* No attempt succeeds without a call that is recorded.
SuccessesPaid == \A a \in Actors : Successes(ended[a]) <= Len(called[a])

WrittenOwn ==
  \A w \in written :
    /\ w.called \in Seq(Usages) /\ w.ended \in Seq(Results)
    /\ w.usage = [records |-> w.called, outcomes |-> w.ended]
    /\ Successes(w.ended) <= Len(w.called)

UsageInv == UsageTypes /\ TurnsOwn /\ SuccessesPaid /\ WrittenOwn

\* The records since a point are what was added there.
LEMMA SinceIs ==
  ASSUME NEW S, NEW s \in Seq(S), NEW q \in Seq(S)
  PROVE  Since(s \o q, s) = q
<1>1. /\ s \o q \in Seq(S) /\ Len(s \o q) = Len(s) + Len(q)
      /\ \A i \in 1..(Len(s) + Len(q)) : (s \o q)[i] = IF i <= Len(s) THEN s[i] ELSE q[i - Len(s)]
  BY ConcatProperties
<1> DEFINE m == Len(s) + 1  n == Len(s) + Len(q)  r == s \o q
<1>2. m \in Int /\ n \in Int /\ Len(s) \in Nat /\ Len(q) \in Nat OBVIOUS
<1>3. \A i \in m..n : r[i] \in S /\ r[i] = q[i - Len(s)]
  <2> SUFFICES ASSUME NEW i \in m..n PROVE r[i] \in S /\ r[i] = q[i - Len(s)] OBVIOUS
  <2>1. i \in 1..(Len(s) + Len(q)) /\ ~(i <= Len(s)) BY <1>2
  <2>2. i - Len(s) \in 1..Len(q) BY <1>2
  <2> QED BY <1>1, <2>1, <2>2, ElementOfSeq
<1>4. Since(r, s) = SubSeq(r, m, n) BY <1>1 DEF Since
<1> HIDE DEF r
<1>5. /\ SubSeq(r, m, n) \in Seq(S)
      /\ Len(SubSeq(r, m, n)) = IF m <= n THEN n - m + 1 ELSE 0
      /\ \A i \in 1..(n - m + 1) : SubSeq(r, m, n)[i] = r[m + i - 1]
  BY <1>2, <1>3, SubSeqProperties
<1>6. Len(SubSeq(r, m, n)) = Len(q) BY <1>2, <1>5
<1>7. \A i \in 1..Len(q) : SubSeq(r, m, n)[i] = q[i]
  <2> SUFFICES ASSUME NEW i \in 1..Len(q) PROVE SubSeq(r, m, n)[i] = q[i] OBVIOUS
  <2>1. i \in 1..(n - m + 1) /\ m + i - 1 \in m..n /\ (m + i - 1) - Len(s) = i BY <1>2
  <2> QED BY <1>3, <1>5, <2>1
<1> HIDE DEF m, n
<1>8. SubSeq(r, m, n) = q BY <1>5, <1>6, <1>7, SeqEqual
<1> QED BY <1>4, <1>8 DEF r

LEMMA SuccessesOf ==
  /\ Successes(<<>>) = 0
  /\ \A q \in Seq(Results), r \in Results :
       /\ Successes(q) \in Nat
       /\ Successes(Append(q, r)) = IF r.outcome = "success" THEN Successes(q) + 1 ELSE Successes(q)
<1>1. Successes(<<>>) = 0
  <2>1. {i \in DOMAIN <<>> : <<>>[i].outcome = "success"} = {} OBVIOUS
  <2> QED BY <2>1, FS_EmptySet DEF Successes
<1> SUFFICES ASSUME NEW q \in Seq(Results), NEW r \in Results
             PROVE  /\ Successes(q) \in Nat
                    /\ Successes(Append(q, r)) =
                         IF r.outcome = "success" THEN Successes(q) + 1 ELSE Successes(q)
  BY <1>1
<1> DEFINE n == Len(q)  p == Append(q, r)
           Q == {i \in DOMAIN q : q[i].outcome = "success"}
           P == {i \in DOMAIN p : p[i].outcome = "success"}
<1>2. n \in Nat /\ DOMAIN q = 1..n OBVIOUS
<1>3. DOMAIN p = 1..(n + 1) /\ p[n + 1] = r /\ \A i \in 1..n : p[i] = q[i] BY <1>2
<1>4. IsFiniteSet(Q) /\ Cardinality(Q) \in Nat /\ n + 1 \notin Q
  <2>1. IsFiniteSet(1..n) BY <1>2, FS_Interval
  <2>2. Q \subseteq 1..n BY <1>2
  <2> QED BY <1>2, <2>1, <2>2, FS_Subset, FS_CardinalityType
<1>5. P = IF r.outcome = "success" THEN Q \cup {n + 1} ELSE Q BY <1>2, <1>3
<1>6. Successes(q) = Cardinality(Q) /\ Successes(Append(q, r)) = Cardinality(P) BY DEF Successes
<1> HIDE DEF P, Q
<1>7. Cardinality(Q \cup {n + 1}) = Cardinality(Q) + 1 BY <1>4, FS_AddElement
<1> QED BY <1>4, <1>5, <1>6, <1>7

LEMMA Began ==
  ASSUME UsageInv, NEW a \in Actors, BeginTurn(a)
  PROVE  UsageInv'
<1>1. /\ a \notin busy /\ busy' = busy \cup {a}
      /\ UNCHANGED <<tracking, written, called, ended>> /\ called[a] = <<>> /\ ended[a] = <<>>
  BY DEF BeginTurn, UsageInv, TurnsOwn
<1>2. NewTracker \in Trackers BY DEF NewTracker, Trackers
<1>3. /\ Actors' = Actors /\ tracker' \in [Actors -> Trackers] /\ start' \in [Actors -> Trackers]
      /\ \A b \in Actors : b # a => tracker'[b] = tracker[b] /\ start'[b] = start[b]
      /\ tracker'[a] = start'[a] /\ (a # Runner => start'[a] = NewTracker)
  BY <1>2 DEF BeginTurn, TrackerOf, UsageInv, UsageTypes, TurnsOwn, Actors
<1>4. UsageTypes' BY <1>1, <1>3 DEF UsageInv, UsageTypes
<1>5. TurnsOwn'
  <2>1. \A b \in busy' : tracking => tracker'[b].records = start'[b].records \o called'[b]
    <3> SUFFICES ASSUME NEW b \in busy', tracking
                 PROVE  tracker'[b].records = start'[b].records \o called'[b]
      OBVIOUS
    <3>1. CASE b = a
      <4>1. start'[a].records \in Seq(Usages) BY <1>3 DEF Trackers
      <4> QED BY <1>1, <1>3, <3>1, <4>1, ConcatEmptySeq
    <3>2. CASE b # a BY <1>1, <1>3, <3>2 DEF UsageInv, UsageTypes, TurnsOwn
    <3> QED BY <3>1, <3>2
  <2>2. \A b \in busy' : tracking => tracker'[b].outcomes = start'[b].outcomes \o ended'[b]
    <3> SUFFICES ASSUME NEW b \in busy', tracking
                 PROVE  tracker'[b].outcomes = start'[b].outcomes \o ended'[b]
      OBVIOUS
    <3>1. CASE b = a
      <4>1. start'[a].outcomes \in Seq(Results) BY <1>3 DEF Trackers
      <4> QED BY <1>1, <1>3, <3>1, <4>1, ConcatEmptySeq
    <3>2. CASE b # a BY <1>1, <1>3, <3>2 DEF UsageInv, UsageTypes, TurnsOwn
    <3> QED BY <3>1, <3>2
  <2> QED BY <1>1, <1>3, <2>1, <2>2 DEF UsageInv, TurnsOwn
<1>6. SuccessesPaid' /\ WrittenOwn' BY <1>1, <1>3 DEF UsageInv, SuccessesPaid, WrittenOwn
<1> QED BY <1>4, <1>5, <1>6 DEF UsageInv

LEMMA Ended ==
  ASSUME UsageInv, NEW a \in busy, Over(a)
  PROVE  UsageTypes' /\ TurnsOwn' /\ SuccessesPaid'
<1>0. a \in Actors BY DEF UsageInv, UsageTypes
<1>1. /\ busy' = busy \ {a} /\ UNCHANGED <<tracking, start>> /\ Actors' = Actors
      /\ called' \in [Actors -> Seq(Usages)] /\ ended' \in [Actors -> Seq(Results)]
      /\ tracker' \in [Actors -> Trackers]
      /\ called'[a] = <<>> /\ ended'[a] = <<>>
      /\ \A b \in Actors : b # a => /\ called'[b] = called[b] /\ ended'[b] = ended[b]
                                    /\ tracker'[b] = tracker[b]
  BY <1>0 DEF Over, UsageInv, UsageTypes, TrackerOf, Actors, Trackers, NewTracker
<1>2. UsageTypes' BY <1>1 DEF UsageInv, UsageTypes
<1>3. TurnsOwn' BY <1>1 DEF UsageInv, UsageTypes, TurnsOwn
<1>4. SuccessesPaid'
  <2>1. \A b \in Actors : Successes(ended'[b]) <= Len(called'[b])
    <3>1. Successes(<<>>) <= Len(<<>>) BY SuccessesOf
    <3> QED BY <1>1, <3>1 DEF UsageInv, SuccessesPaid
  <2> QED BY <1>1, <2>1 DEF SuccessesPaid
<1> QED BY <1>2, <1>3, <1>4

LEMMA WroteStep ==
  ASSUME UsageInv, NEW a \in Actors, WriteUsage(a) \/ EndUnrecorded(a)
  PROVE  UsageInv'
<1>1. a \in busy /\ Over(a) BY DEF WriteUsage, EndUnrecorded
<1>2. UsageTypes' /\ TurnsOwn' /\ SuccessesPaid' BY <1>1, Ended
<1>3. CASE EndUnrecorded(a)
  BY <1>2, <1>3 DEF EndUnrecorded, UsageInv, WrittenOwn
<1>4. CASE WriteUsage(a)
  <2>1. tracking /\ written' = {[by |-> a, usage |-> TurnRecords(a), called |-> called[a], ended |-> ended[a]]}
    BY <1>4 DEF WriteUsage
  <2>2. /\ tracker[a].records = start[a].records \o called[a]
        /\ tracker[a].outcomes = start[a].outcomes \o ended[a]
    BY <1>1, <2>1 DEF UsageInv, TurnsOwn
  <2>3. /\ start[a].records \in Seq(Usages) /\ start[a].outcomes \in Seq(Results)
        /\ called[a] \in Seq(Usages) /\ ended[a] \in Seq(Results)
    BY DEF UsageInv, UsageTypes, Trackers
  <2>4. TurnRecords(a) = [records |-> called[a], outcomes |-> ended[a]]
    <3>1. Since(start[a].records \o called[a], start[a].records) = called[a] BY <2>3, SinceIs
    <3>2. Since(start[a].outcomes \o ended[a], start[a].outcomes) = ended[a] BY <2>3, SinceIs
    <3> QED BY <2>2, <3>1, <3>2 DEF TurnRecords, TrackerOf
  <2>5. Successes(ended[a]) <= Len(called[a]) BY DEF UsageInv, SuccessesPaid
  <2>6. WrittenOwn' BY <2>1, <2>3, <2>4, <2>5 DEF WrittenOwn
  <2> QED BY <1>2, <2>6 DEF UsageInv
<1> QED BY <1>3, <1>4

LEMMA AttemptStep ==
  ASSUME UsageInv, NEW a \in Actors, NEW t \in Attempts, Attempt(a, t)
  PROVE  UsageInv'
<1> DEFINE usage == IF Paid(t) THEN <<Usage(t.component, t.model, t.tokens)>> ELSE <<>>
           result == [component |-> t.component, outcome |-> t.outcome]
<1>1. /\ a \in busy /\ called' = [called EXCEPT ![a] = @ \o usage]
      /\ ended' = [ended EXCEPT ![a] = Append(@, result)]
      /\ tracker' = IF ~tracking THEN tracker
                    ELSE [tracker EXCEPT ![a] = [records |-> @.records \o usage,
                                                 outcomes |-> Append(@.outcomes, result)]]
      /\ UNCHANGED <<tracking, start, busy, written>>
  BY DEF Attempt, TrackerOf
<1>2. result \in Results BY UsageLogAssumption DEF Results
<1>3. usage \in Seq(Usages) /\ Len(usage) \in Nat /\ (t.outcome = "success" => Len(usage) = 1)
  <2>1. Usage(t.component, t.model, t.tokens) \in Usages
    BY UsageLogAssumption DEF Usages, Usage, Cost
  <2> HIDE DEF Usages
  <2>2. t.outcome = "success" => Paid(t) BY UsageLogAssumption DEF Paid
  <2> QED BY <2>1, <2>2
<1>4. /\ tracker[a].records \in Seq(Usages) /\ tracker[a].outcomes \in Seq(Results)
      /\ start[a].records \in Seq(Usages) /\ start[a].outcomes \in Seq(Results)
      /\ called[a] \in Seq(Usages) /\ ended[a] \in Seq(Results)
  BY DEF UsageInv, UsageTypes, Trackers
<1> HIDE DEF usage, result, Usages, Results
<1>5. /\ called[a] \o usage \in Seq(Usages) /\ Append(ended[a], result) \in Seq(Results)
      /\ tracker[a].records \o usage \in Seq(Usages)
      /\ Append(tracker[a].outcomes, result) \in Seq(Results)
      /\ Len(called[a] \o usage) = Len(called[a]) + Len(usage)
  BY <1>2, <1>3, <1>4, ConcatProperties, AppendProperties
<1>6. Actors' = Actors BY <1>1 DEF Actors
<1>7. UsageTypes'
  BY <1>1, <1>5, <1>6 DEF UsageInv, UsageTypes, Trackers
<1>8. TurnsOwn'
  <2>1. ASSUME NEW b \in busy', tracking
        PROVE  /\ tracker'[b].records = start'[b].records \o called'[b]
               /\ tracker'[b].outcomes = start'[b].outcomes \o ended'[b]
    <3>0. b \in Actors /\ b \in busy BY <1>1 DEF UsageInv, UsageTypes
    <3>1. CASE b = a
      <4>1. /\ tracker'[a].records = tracker[a].records \o usage
            /\ tracker'[a].outcomes = tracker[a].outcomes \o <<result>>
            /\ called'[a] = called[a] \o usage /\ ended'[a] = ended[a] \o <<result>>
            /\ start' = start
        <5>1. /\ Append(tracker[a].outcomes, result) = tracker[a].outcomes \o <<result>>
              /\ Append(ended[a], result) = ended[a] \o <<result>>
          BY <1>2, <1>4, AppendIsConcat
        <5> QED BY <1>1, <2>1, <5>1 DEF UsageInv, UsageTypes
      <4>2. /\ tracker[a].records = start[a].records \o called[a]
            /\ tracker[a].outcomes = start[a].outcomes \o ended[a]
        BY <1>1, <2>1 DEF UsageInv, TurnsOwn
      <4>3. (start[a].records \o called[a]) \o usage = start[a].records \o (called[a] \o usage)
        <5>1. \A r, p, q \in Seq(Usages) : (r \o p) \o q = r \o (p \o q) BY ConcatAssociative
        <5> QED BY ONLY <1>3, <1>4, <5>1, Zenon
      <4>4. (start[a].outcomes \o ended[a]) \o <<result>> = start[a].outcomes \o (ended[a] \o <<result>>)
        <5>1. \A r, p, q \in Seq(Results) : (r \o p) \o q = r \o (p \o q) BY ConcatAssociative
        <5>2. <<result>> \in Seq(Results) BY <1>2
        <5> QED BY ONLY <1>4, <5>1, <5>2, Zenon
      <4> QED BY <3>1, <4>1, <4>2, <4>3, <4>4
    <3>2. CASE b # a
      BY <1>1, <2>1, <3>0, <3>2 DEF UsageInv, UsageTypes, TurnsOwn
    <3> QED BY <3>1, <3>2
  <2>2. \A b \in Actors \ busy : called'[b] = called[b] /\ ended'[b] = ended[b]
    BY <1>1 DEF UsageInv, UsageTypes
  <2> QED BY <1>1, <1>6, <2>1, <2>2 DEF UsageInv, TurnsOwn
<1>9. SuccessesPaid'
  <2>1. Successes(Append(ended[a], result)) <= Len(called[a] \o usage)
    <3>1. Successes(ended[a]) \in Nat /\ Len(called[a]) \in Nat /\ Successes(ended[a]) <= Len(called[a])
      BY <1>4, <1>2, SuccessesOf DEF UsageInv, SuccessesPaid
    <3>2. Successes(Append(ended[a], result)) =
            IF t.outcome = "success" THEN Successes(ended[a]) + 1 ELSE Successes(ended[a])
      <4>1. result.outcome = t.outcome BY DEF result
      <4> QED BY <1>2, <1>4, <4>1, SuccessesOf
    <3> DEFINE before == Successes(ended[a])  after == Successes(Append(ended[a], result))
               calls == Len(called[a])  more == Len(usage)
    <3>3. Len(called[a] \o usage) = calls + more BY <1>5
    <3>4. /\ before \in Nat /\ calls \in Nat /\ before <= calls
          /\ after = IF t.outcome = "success" THEN before + 1 ELSE before
      BY <3>1, <3>2
    <3>5. more \in Nat /\ (t.outcome = "success" => more = 1) BY <1>3
    <3> HIDE DEF before, after, calls, more
    <3>6. after <= calls + more BY <3>4, <3>5
    <3> QED BY <3>3, <3>6 DEF after
  <2>2. /\ called'[a] = called[a] \o usage /\ ended'[a] = Append(ended[a], result)
        /\ \A b \in Actors : b # a => called'[b] = called[b] /\ ended'[b] = ended[b]
    BY <1>1 DEF UsageInv, UsageTypes
  <2> QED BY <1>6, <2>1, <2>2 DEF UsageInv, SuccessesPaid
<1>10. WrittenOwn' BY <1>1 DEF UsageInv, WrittenOwn
<1> QED BY <1>7, <1>8, <1>9, <1>10 DEF UsageInv

\* A sum is made up number by number.
LEMMA SumIs ==
  ASSUME NEW n \in Nat, NEW q \in [1..n -> Nat]
  PROVE  \E g \in [0..n -> Nat] :
           g[0] = 0 /\ g[n] = SumOf(q) /\ \A k \in 1..n : g[k] = g[k - 1] + q[k]
<1> DEFINE Body(h) == [s \in SUBSET (1..n) |->
                         IF s = {} THEN 0 ELSE h[s \ {Max(s)}] + q[Max(s)]]
           f == CHOOSE h : h = Body(h)
<1>1. SumOf(q) = f[1..n] BY DEF SumOf, FoldLeft, MapThenFoldSet
<1>2. f = Body(f)
  <2> DEFINE step == [i \in 1..n |-> [v \in Nat |-> v + q[i]]]
  <2>1. step \in [1..n -> [Nat -> Nat]] OBVIOUS
  <2>2. PICK h \in [SUBSET (1..n) -> Nat] : FoldsBy(h, n, 0, step)
    <3>1. PICK zero \in Nat : zero = 0 OBVIOUS
    <3> HIDE DEF step
    <3>2. \E h \in [SUBSET (1..n) -> Nat] : FoldsBy(h, n, zero, step) BY <2>1, FoldExists, Zenon
    <3> QED BY <3>1, <3>2
  <2>3. ASSUME NEW s \in SUBSET (1..n), s # {} PROVE h[s] = h[s \ {Max(s)}] + q[Max(s)]
    <3>1. Max(s) \in 1..n BY <2>3, MaxUpTo
    <3>2. h[s \ {Max(s)}] \in Nat BY <2>2
    <3> QED BY <2>2, <2>3, <3>1, <3>2 DEF FoldsBy
  <2>4. h = Body(h) BY <2>2, <2>3 DEF FoldsBy
  <2> HIDE DEF Body
  <2> QED BY <2>4
<1> HIDE DEF f
<1>3. f[1..0] = 0 BY <1>2
<1>4. ASSUME NEW k \in 1..n PROVE f[1..k] = f[1..(k - 1)] + q[k]
  <2>1. 1..k \in SUBSET (1..n) /\ 1..k # {} /\ Max(1..k) = k /\ (1..k) \ {k} = 1..(k - 1)
    BY MaxUpTo
  <2> QED BY <1>2, <2>1
<1>5. \A k \in 0..n : f[1..k] \in Nat
  <2> DEFINE S == {k \in 0..n : f[1..k] \in Nat}
  <2>1. 0 \in S BY <1>3
  <2>2. \A k \in 1..n : k - 1 \in S => k \in S BY <1>4
  <2> HIDE DEF S
  <2>3. 0..n \subseteq S BY <2>1, <2>2, Climb
  <2> QED BY <2>3 DEF S
<1> DEFINE g == [k \in 0..n |-> f[1..k]]
<1>6. /\ g \in [0..n -> Nat] /\ g[0] = 0 /\ g[n] = SumOf(q)
      /\ \A k \in 1..n : g[k] = g[k - 1] + q[k]
  BY <1>1, <1>3, <1>4, <1>5
<1> HIDE DEF g
<1> QED BY <1>6

\* Sums of parts add up to the sum of the wholes.
LEMMA SumsAdd ==
  ASSUME NEW n \in Nat, NEW p \in [1..n -> Nat], NEW q \in [1..n -> Nat], NEW r \in [1..n -> Nat],
         \A k \in 1..n : r[k] = p[k] + q[k]
  PROVE  SumOf(r) = SumOf(p) + SumOf(q)
<1>1. PICK f \in [0..n -> Nat] :
        f[0] = 0 /\ f[n] = SumOf(p) /\ \A k \in 1..n : f[k] = f[k - 1] + p[k]
  BY SumIs
<1>2. PICK g \in [0..n -> Nat] :
        g[0] = 0 /\ g[n] = SumOf(q) /\ \A k \in 1..n : g[k] = g[k - 1] + q[k]
  BY SumIs
<1>3. PICK h \in [0..n -> Nat] :
        h[0] = 0 /\ h[n] = SumOf(r) /\ \A k \in 1..n : h[k] = h[k - 1] + r[k]
  BY SumIs
<1> DEFINE S == {k \in 0..n : h[k] = f[k] + g[k]}
<1>4. 0 \in S BY <1>1, <1>2, <1>3
<1>5. ASSUME NEW k \in 1..n, k - 1 \in S PROVE k \in S
  <2>1. k - 1 \in 0..n /\ k \in 0..n OBVIOUS
  <2>2. h[k - 1] = f[k - 1] + g[k - 1] BY <1>5
  <2>3. /\ f[k - 1] \in Nat /\ g[k - 1] \in Nat /\ p[k] \in Nat /\ q[k] \in Nat BY <2>1
  <2>4. h[k] = h[k - 1] + (p[k] + q[k]) /\ f[k] = f[k - 1] + p[k] /\ g[k] = g[k - 1] + q[k]
    BY <1>1, <1>2, <1>3
  <2> QED BY <2>1, <2>2, <2>3, <2>4
<1> HIDE DEF S
<1>6. 0..n \subseteq S BY <1>4, <1>5, Climb
<1>7. n \in S BY <1>6
<1> QED BY <1>1, <1>2, <1>3, <1>7 DEF S

LEMMA SummaryAccounts ==
  ASSUME NEW q \in Seq(Usages)
  PROVE  /\ Total(q) = TokensOf(q, "Judgment") + TokensOf(q, "Response")
         /\ FullyKnown(q) => CostOf(q) = {Total(q)}
         /\ CostOf(q) = {} => \A i \in DOMAIN q : q[i].model \in Unpriced
<1> DEFINE n == Len(q)
<1>1. n \in Nat /\ DOMAIN q = 1..n OBVIOUS
<1>2. \A i \in 1..n : /\ q[i].tokens \in Nat /\ q[i].component \in Stages
                      /\ q[i].model \in Priced \cup Unpriced
                      /\ q[i].cost = Cost(q[i].model, q[i].tokens)
  <2>1. \A i \in 1..n : q[i] \in Usages BY <1>1, ElementOfSeq
  <2> QED BY <2>1 DEF Usages
<1> HIDE DEF n
<1>3. Total(q) = TokensOf(q, "Judgment") + TokensOf(q, "Response")
  <2> DEFINE all == [i \in 1..n |-> q[i].tokens]
             Of(c) == [i \in 1..n |-> IF q[i].component = c THEN q[i].tokens ELSE 0]
             j == Of("Judgment")  r == Of("Response")
  <2>1. all \in [1..n -> Nat] /\ j \in [1..n -> Nat] /\ r \in [1..n -> Nat] BY <1>2
  <2>2. \A k \in 1..n : all[k] = j[k] + r[k] BY <1>2 DEF Stages
  <2>3. /\ Total(q) = SumOf(all) /\ TokensOf(q, "Judgment") = SumOf(j)
        /\ TokensOf(q, "Response") = SumOf(r)
    BY <1>1 DEF Total, TokensOf
  <2> HIDE DEF all, j, r
  <2>4. SumOf(all) = SumOf(j) + SumOf(r) BY <1>1, <2>1, <2>2, SumsAdd
  <2> QED BY <2>3, <2>4
<1>4. ASSUME FullyKnown(q) PROVE CostOf(q) = {Total(q)}
  <2>1. n # 0 /\ \A i \in 1..n : q[i].cost # {}
    <3>1. n # 0 BY <1>4 DEF FullyKnown, n
    <3> QED BY <1>1, <1>4, <3>1 DEF FullyKnown
  <2>2. \A i \in 1..n : KnownCost(q[i]) = q[i].tokens
    <3>1. \A i \in 1..n : q[i].cost = {q[i].tokens} BY <1>2, <2>1 DEF Cost
    <3> QED BY <3>1 DEF KnownCost
  <2>3. 1 \in 1..n BY <1>1, <2>1
  <2>4. CostOf(q) = {SumOf([i \in DOMAIN q |-> KnownCost(q[i])])}
    BY <1>1, <2>1, <2>3 DEF CostOf
  <2>5. [i \in DOMAIN q |-> KnownCost(q[i])] = [i \in DOMAIN q |-> q[i].tokens] BY <1>1, <2>2
  <2> QED BY <2>4, <2>5 DEF Total
<1>5. ASSUME CostOf(q) = {}, NEW i \in DOMAIN q PROVE q[i].model \in Unpriced
  <2>1. q[i].cost = {} BY <1>5 DEF CostOf
  <2> QED BY <1>1, <1>2, <2>1 DEF Cost
<1> QED BY <1>3, <1>4, <1>5

\* What is written of a turn is its own, however many turns run beside it or
\* came before it in the same tracker, and its report adds up.
THEOREM TurnsAccounted == UsageLogSpec => []EachCallAccounted
<1>1. UsageLogInit => UsageInv
  <2> SUFFICES ASSUME UsageLogInit PROVE UsageInv OBVIOUS
  <2>1. PICK A : /\ tracker = [a \in A |-> NewTracker] /\ start = [a \in A |-> NewTracker]
                 /\ called = [a \in A |-> <<>>] /\ ended = [a \in A |-> <<>>]
    BY DEF UsageLogInit
  <2>2. Actors = A /\ busy = {} /\ written = {} /\ tracking \in BOOLEAN BY <2>1 DEF UsageLogInit, Actors
  <2>3. NewTracker \in Trackers BY DEF NewTracker, Trackers
  <2>4. UsageTypes BY <2>1, <2>2, <2>3 DEF UsageTypes
  <2>5. \A a \in A : called[a] = <<>> /\ ended[a] = <<>> /\ start[a] = NewTracker BY <2>1
  <2>6. TurnsOwn BY <2>2, <2>5 DEF TurnsOwn
  <2>7. SuccessesPaid
    <3>1. Successes(<<>>) <= Len(<<>>) BY SuccessesOf
    <3> QED BY <2>2, <2>5, <3>1 DEF SuccessesPaid
  <2>8. WrittenOwn BY <2>2 DEF WrittenOwn
  <2> QED BY <2>4, <2>6, <2>7, <2>8 DEF UsageInv
<1>2. UsageInv /\ [UsageLogNext]_usageLogVars => UsageInv'
  <2> SUFFICES ASSUME UsageInv, [UsageLogNext]_usageLogVars PROVE UsageInv' OBVIOUS
  <2>1. CASE UNCHANGED usageLogVars
    BY <2>1 DEF usageLogVars, UsageInv, UsageTypes, TurnsOwn, SuccessesPaid, WrittenOwn, Actors
  <2>2. CASE UsageLogNext
    BY <2>2, Began, WroteStep, AttemptStep DEF UsageLogNext
  <2> QED BY <2>1, <2>2
<1>3. UsageInv => EachCallAccounted
  <2> SUFFICES ASSUME UsageInv, NEW w \in written
               PROVE  LET usage == w.usage.records  s == Summary(usage)
                      IN /\ usage = w.called /\ w.usage.outcomes = w.ended
                         /\ s.tokens = s.tokensOf["Judgment"] + s.tokensOf["Response"]
                         /\ s.known => s.cost = {Total(w.called)}
                         /\ s.cost = {} => \A i \in DOMAIN w.called : w.called[i].model \in Unpriced
                         /\ Reliability(w.usage.outcomes).successes <= s.calls
    BY DEF EachCallAccounted
  <2>1. /\ w.called \in Seq(Usages) /\ w.usage.records = w.called /\ w.usage.outcomes = w.ended
        /\ Successes(w.ended) <= Len(w.called)
    <3>1. /\ w.called \in Seq(Usages) /\ w.usage = [records |-> w.called, outcomes |-> w.ended]
          /\ Successes(w.ended) <= Len(w.called)
      BY DEF UsageInv, WrittenOwn
    <3> QED BY ONLY <3>1
  <2>2. /\ Summary(w.called).tokens = Total(w.called) /\ Summary(w.called).calls = Len(w.called)
        /\ Summary(w.called).tokensOf["Judgment"] = TokensOf(w.called, "Judgment")
        /\ Summary(w.called).tokensOf["Response"] = TokensOf(w.called, "Response")
        /\ Summary(w.called).known = FullyKnown(w.called)
        /\ Summary(w.called).cost = CostOf(w.called)
        /\ Reliability(w.ended).successes = Successes(w.ended)
    BY DEF Summary, Reliability, Stages
  <2> QED BY <2>1, <2>2, SummaryAccounts
<1> QED BY <1>1, <1>2, <1>3, PTL DEF UsageLogSpec

-----------------------------------------------------------------------------
(* StageOutputs.                                                           *)

Proposals == [turn : Nat, question : Questions]

\* recent is the end of what was proposed; nothing was proposed in this turn
\* before its planner answers.
AskedInv ==
  /\ exchange \in Nat /\ recent \in Seq(Questions) /\ proposed \in Seq(Proposals)
  /\ Len(recent) = IF Len(proposed) > QuestionWindow THEN QuestionWindow ELSE Len(proposed)
  /\ \A i \in 1..Len(recent) : recent[i] = proposed[Len(proposed) - Len(recent) + i].question
  /\ \A i \in 1..Len(proposed) :
       /\ proposed[i].turn <= exchange /\ ~proposed[i].question.leaks
       /\ due \in {"interpretation", "judgment", "planner"} => proposed[i].turn < exchange

StageOutputsInv == FlagsHonoured /\ NothingInvented /\ QuestionsMoveOn /\ AskedInv

LEMMA InterpretedSafe ==
  ASSUME NEW d \in Interpretations
  PROVE  LET x == Interpreted(d) IN
           /\ x.hasAssumption /\ x.check # {} => x.assumptions # {}
           /\ x.hasEvent /\ Resolution(x.event) # {} => x.events # {}
           /\ {"invention", "pretext"} \cap x.assumptions = {}
           /\ "invention" \notin x.goals \cup x.options \cup x.biases
           /\ x.check \cap x.assumptions # {} => x.hasAssumption
           /\ \A i \in x.inferences : i.hedged => i.confidence <= 4
<1> DEFINE c == CleanUp(d)  g == Ground(c)  x == Interpreted(d)
<1>1. d \in InterpretationFields BY StageOutputsAssumption
<1>2. /\ c.events = Repaired(d.hasEvent, d.events, Resolution(d.event))
      /\ c.inferences = {Capped([i EXCEPT !.confidence = Rescale(@)]) : i \in d.inferences}
      /\ c.goals = d.goals /\ c.options = d.options /\ c.biases = d.biases
      /\ c.hasEvent = d.hasEvent /\ c.event = d.event /\ c.hasAssumption = d.hasAssumption
      /\ c.check = d.check /\ c.tiers = d.tiers
      /\ c.assumptions = Repaired(d.hasAssumption, d.assumptions, d.check)
      /\ DOMAIN c = DOMAIN d
  BY <1>1 DEF CleanUp, InterpretationFields
<1> HIDE DEF c
<1>3. /\ g.biases = AtLeast(c.biases, 60) /\ g.goals = AtLeast(c.goals, 40)
      /\ g.options = AtLeast(c.options, 50)
      /\ g.assumptions = {a \in c.assumptions : IsAssumption(a, c.tiers)}
      /\ g.events = c.events /\ g.inferences = c.inferences /\ g.hasEvent = c.hasEvent
      /\ g.event = c.event /\ g.hasAssumption = c.hasAssumption /\ g.check = c.check
      /\ DOMAIN g = DOMAIN d
  BY <1>1, <1>2 DEF Ground, InterpretationFields
<1> HIDE DEF g
<1>4. x = [g EXCEPT !.assumptions = Repaired(d.hasAssumption, @, d.check)] BY DEF Interpreted, g, c
<1>5. /\ x.assumptions = Repaired(d.hasAssumption, g.assumptions, d.check)
      /\ x.events = Repaired(d.hasEvent, d.events, Resolution(d.event))
      /\ x.inferences = {Capped([i EXCEPT !.confidence = Rescale(@)]) : i \in d.inferences}
      /\ x.goals = AtLeast(d.goals, 40) /\ x.options = AtLeast(d.options, 50)
      /\ x.biases = AtLeast(d.biases, 60)
      /\ x.hasEvent = d.hasEvent /\ x.event = d.event
      /\ x.hasAssumption = d.hasAssumption /\ x.check = d.check
  <2>1. "assumptions" \in DOMAIN g BY <1>1, <1>3 DEF InterpretationFields
  <2> HIDE DEF x
  <2> QED BY <1>2, <1>3, <1>4, <2>1
<1> HIDE DEF x
<1>6. d.check \subseteq {"comment"} /\ d.hasAssumption \in BOOLEAN /\ d.hasEvent \in BOOLEAN
  BY <1>1 DEF InterpretationFields
<1>7. x.hasAssumption /\ x.check # {} => x.assumptions # {} BY <1>5 DEF Repaired
<1>8. x.hasEvent /\ Resolution(x.event) # {} => x.events # {} BY <1>5 DEF Repaired
<1>9. {"invention", "pretext", "comment"} \cap g.assumptions = {}
  <2>1. ~(ReasonOverlap("invention") >= 45) /\ ~(ReasonOverlap("comment") >= 45)
        /\ ~(ReasonOverlap("pretext") >= 45)
    BY DEF ReasonOverlap, Overlap
  <2> QED BY <1>3, <2>1 DEF IsAssumption
<1>10. {"invention", "pretext"} \cap x.assumptions = {} BY <1>5, <1>6, <1>9 DEF Repaired
<1>11. x.check \cap x.assumptions # {} => x.hasAssumption BY <1>5, <1>6, <1>9 DEF Repaired
<1>12. "invention" \notin x.goals \cup x.options \cup x.biases
  <2>1. Overlap("invention") = 14 BY DEF Overlap
  <2> QED BY <1>5, <2>1 DEF AtLeast
<1>13. \A i \in x.inferences : i.hedged => i.confidence <= 4
  <2> SUFFICES ASSUME NEW j \in d.inferences
               PROVE  LET i == Capped([j EXCEPT !.confidence = Rescale(@)])
                      IN i.hedged => i.confidence <= 4
    BY <1>5
  <2>1. j \in [hedged : BOOLEAN, confidence : Nat] BY <1>1 DEF InterpretationFields
  <2>2. [j EXCEPT !.confidence = Rescale(@)] \in [hedged : BOOLEAN, confidence : Nat]
    BY <2>1 DEF Rescale
  <2> QED BY <2>2 DEF Capped
<1> QED BY <1>7, <1>8, <1>10, <1>11, <1>12, <1>13 DEF x

LEMMA JudgedSafe ==
  ASSUME NEW d \in Judgments
  PROVE  LET x == Judged(d, {"known"}) IN
           /\ x.hasRisk /\ x.scan # {} => x.risks # {}
           /\ x.hasResolution /\ Resolution(x.resolution) # {} => x.resolutions # {}
           /\ x.evidence \subseteq {"known"}
           /\ \A t \in x.risks \cup x.insights : ~t.leaks
<1> DEFINE r == Repair(d)  x == Judged(d, {"known"})
<1>1. d \in JudgmentFields BY StageOutputsAssumption
<1>2. /\ r.risks = Repaired(d.hasRisk, d.risks, d.scan)
      /\ r.resolutions = Repaired(d.hasResolution, d.resolutions, Resolution(d.resolution))
      /\ r.hasRisk = d.hasRisk /\ r.scan = d.scan /\ r.hasResolution = d.hasResolution
      /\ r.resolution = d.resolution /\ r.insights = d.insights /\ r.evidence = d.evidence
      /\ DOMAIN r = DOMAIN d
  BY <1>1 DEF Repair, JudgmentFields
<1> HIDE DEF r
<1>3. /\ x.risks = Stripped(r.risks) /\ x.insights = Stripped(d.insights)
      /\ x.evidence = d.evidence \cap {"known"} /\ x.resolutions = r.resolutions
      /\ x.hasRisk = d.hasRisk /\ x.scan = d.scan /\ x.hasResolution = d.hasResolution
      /\ x.resolution = d.resolution
  <2>1. x = [r EXCEPT !.evidence = @ \cap {"known"}, !.risks = Stripped(@), !.insights = Stripped(@)]
    BY DEF Judged, r
  <2>2. {"evidence", "risks", "insights"} \subseteq DOMAIN r BY <1>1, <1>2 DEF JudgmentFields
  <2> HIDE DEF x
  <2> QED BY <1>2, <2>1, <2>2
<1> HIDE DEF x
<1>4. x.hasRisk /\ x.scan # {} => x.risks # {}
  <2>1. r.risks # {} => Stripped(r.risks) # {} BY DEF Stripped
  <2> QED BY <1>2, <1>3, <2>1 DEF Repaired
<1>5. x.hasResolution /\ Resolution(x.resolution) # {} => x.resolutions # {}
  BY <1>2, <1>3 DEF Repaired
<1>6. \A t \in x.risks \cup x.insights : ~t.leaks
  <2>1. r.risks \subseteq FreeTexts /\ d.insights \subseteq FreeTexts
    BY <1>1, <1>2 DEF JudgmentFields, Repaired
  <2>2. \A T \in SUBSET FreeTexts : \A t \in Stripped(T) : ~t.leaks BY DEF Stripped, FreeTexts
  <2> QED BY <1>3, <2>1, <2>2
<1>7. x.evidence \subseteq {"known"} BY <1>3
<1> QED BY <1>4, <1>5, <1>6, <1>7 DEF x

\* A question that is kept was among those asked and repeats none that is seen.
LEMMA FilterKeeps ==
  ASSUME NEW q \in Seq(Questions), NEW seen, \A i \in 1..Len(q) : ~q[i].leaks
  PROVE  /\ FilteredQuestions(q, seen) \in Seq(Questions)
         /\ \A i \in 1..Len(FilteredQuestions(q, seen)) :
              ~FilteredQuestions(q, seen)[i].leaks /\ ~Repeats(FilteredQuestions(q, seen)[i], seen)
<1> DEFINE n == Len(q)
           V == Seq({e \in Questions : ~e.leaks /\ ~Repeats(e, seen)})
           Body(h) == [s \in SUBSET (1..n) |->
                         IF s = {} THEN <<>>
                         ELSE IF Repeats(q[Max(s)], seen) THEN h[s \ {Max(s)}]
                              ELSE Append(h[s \ {Max(s)}], q[Max(s)])]
           f == CHOOSE h : h = Body(h)
<1>1. n \in Nat /\ DOMAIN q = 1..n /\ \A i \in 1..n : q[i] \in Questions BY ElementOfSeq
<1>2. FilteredQuestions(q, seen) = f[1..n]
  BY <1>1 DEF FilteredQuestions, FoldLeft, MapThenFoldSet
<1>3. \A v \in V, i \in 1..n : (IF Repeats(q[i], seen) THEN v ELSE Append(v, q[i])) \in V
  BY <1>1
<1> HIDE DEF V, n
<1>4. <<>> \in V BY DEF V
<1>5. f = Body(f)
  <2> DEFINE step == [i \in 1..n |-> [v \in V |-> IF Repeats(q[i], seen) THEN v ELSE Append(v, q[i])]]
  <2>1. step \in [1..n -> [V -> V]] BY <1>3
  <2>2. PICK h \in [SUBSET (1..n) -> V] : FoldsBy(h, n, <<>>, step)
    <3>1. PICK base \in V : base = <<>> BY <1>4
    <3> HIDE DEF step
    <3>2. n \in Nat BY <1>1
    <3>3. \E h \in [SUBSET (1..n) -> V] : FoldsBy(h, n, base, step) BY <2>1, <3>2, FoldExists, Zenon
    <3> QED BY <3>1, <3>3
  <2>3. ASSUME NEW s \in SUBSET (1..n), s # {}
        PROVE  h[s] = IF Repeats(q[Max(s)], seen) THEN h[s \ {Max(s)}]
                      ELSE Append(h[s \ {Max(s)}], q[Max(s)])
    <3>1. Max(s) \in 1..n BY <1>1, <2>3, MaxUpTo
    <3>2. h[s \ {Max(s)}] \in V BY <2>2
    <3> QED BY <2>2, <2>3, <3>1, <3>2 DEF FoldsBy
  <2>4. h = Body(h) BY <2>2, <2>3 DEF FoldsBy
  <2> HIDE DEF Body
  <2> QED BY <2>4
<1> HIDE DEF f
<1>6. \A k \in 0..n : f[1..k] \in V
  <2> DEFINE S == {k \in 0..n : f[1..k] \in V}
  <2>0. n \in Nat BY <1>1
  <2>1. 0 \in S
    <3>1. 1..0 = {} /\ {} \in SUBSET (1..n) /\ 0 \in 0..n BY <2>0
    <3>2. f[1..0] = <<>> BY <1>5, <3>1
    <3> QED BY <1>4, <3>1, <3>2
  <2>2. ASSUME NEW k \in 1..n, k - 1 \in S PROVE k \in S
    <3>1. 1..k \in SUBSET (1..n) /\ 1..k # {} /\ Max(1..k) = k /\ (1..k) \ {k} = 1..(k - 1)
      BY <2>0, MaxUpTo
    <3>2. f[1..k] = IF Repeats(q[k], seen) THEN f[1..(k - 1)] ELSE Append(f[1..(k - 1)], q[k])
      BY <1>5, <3>1
    <3>3. f[1..(k - 1)] \in V /\ k \in 0..n BY <2>0, <2>2
    <3>4. f[1..k] \in V BY <1>3, <3>2, <3>3
    <3> QED BY <3>3, <3>4
  <2> HIDE DEF S
  <2>3. \A k \in 1..n : k - 1 \in S => k \in S BY <2>2
  <2>4. 0..n \subseteq S BY <2>0, <2>1, <2>3, Climb
  <2> QED BY <2>4 DEF S
<1>7. FilteredQuestions(q, seen) \in V BY <1>1, <1>2, <1>6
<1> DEFINE fresh == FilteredQuestions(q, seen)
<1> HIDE DEF fresh
<1>8. fresh \in Seq(Questions) /\ \A i \in 1..Len(fresh) : ~fresh[i].leaks /\ ~Repeats(fresh[i], seen)
  BY <1>7 DEF V, fresh
<1> QED BY <1>8 DEF fresh

\* The last n of a list.
LEMMA LatestIs ==
  ASSUME NEW s \in Seq(Questions), NEW n \in Nat \ {0}
  PROVE  /\ LatestQuestions(s, n) \in Seq(Questions)
         /\ Len(LatestQuestions(s, n)) = IF Len(s) > n THEN n ELSE Len(s)
         /\ \A i \in 1..Len(LatestQuestions(s, n)) :
              LatestQuestions(s, n)[i] = s[Len(s) - Len(LatestQuestions(s, n)) + i]
<1>0. Len(s) \in Nat OBVIOUS
<1>1. CASE ~(Len(s) > n) BY <1>0, <1>1 DEF LatestQuestions
<1>2. CASE Len(s) > n
  <2> DEFINE m == Len(s) - n + 1  k == Len(s)  p == SubSeq(s, m, k)
  <2>1. m \in Int /\ k \in Int /\ m <= k /\ k - m + 1 = n BY <1>0, <1>2
  <2>2. \A i \in m..k : s[i] \in Questions
    <3> SUFFICES ASSUME NEW i \in m..k PROVE s[i] \in Questions OBVIOUS
    <3>1. i \in 1..Len(s) BY <1>0, <1>2
    <3> QED BY <3>1, ElementOfSeq
  <2>3. LatestQuestions(s, n) = p BY <1>2 DEF LatestQuestions
  <2> HIDE DEF m, k, p
  <2>4. /\ p \in Seq(Questions) /\ Len(p) = (IF m <= k THEN k - m + 1 ELSE 0)
        /\ \A i \in 1..(k - m + 1) : p[i] = s[m + i - 1]
    BY <2>1, <2>2, SubSeqProperties DEF p
  <2>5. Len(p) = n /\ \A i \in 1..n : p[i] = s[m + i - 1] BY <2>1, <2>4
  <2>6. \A i \in 1..n : m + i - 1 = Len(s) - n + i BY <1>0 DEF m
  <2> QED BY <1>2, <2>3, <2>4, <2>5, <2>6
<1> QED BY <1>1, <1>2

\* Two lists one after the other, position by position.
LEMMA Joined ==
  ASSUME NEW S, NEW s \in Seq(S), NEW t \in Seq(S)
  PROVE  /\ s \o t \in Seq(S) /\ Len(s \o t) = Len(s) + Len(t)
         /\ \A i \in 1..Len(s) : (s \o t)[i] = s[i]
         /\ \A i \in 1..Len(t) : (s \o t)[Len(s) + i] = t[i]
OBVIOUS

\* A plan's questions join the history, and what was asked last stays its end.
LEMMA PlanStep ==
  ASSUME StageOutputsInv, NEW d \in Plans, Plan(d)
  PROVE  QuestionsMoveOn' /\ AskedInv'
<1> DEFINE clean == [i \in DOMAIN d.questions |-> [d.questions[i] EXCEPT !.leaks = FALSE]]
           fresh == FilteredQuestions(clean, recent)
           added == [i \in DOMAIN fresh |-> [turn |-> exchange, question |-> fresh[i]]]
<1>1. /\ due = "planner" /\ due' = "response" /\ exchange' = exchange
      /\ recent' = LatestQuestions(recent \o fresh, QuestionWindow)
      /\ proposed' = proposed \o added
  BY DEF Plan
<1>2. clean \in Seq(Questions) /\ \A i \in 1..Len(clean) : ~clean[i].leaks
  <2>1. d.questions \in Seq(Questions) BY StageOutputsAssumption DEF PlanFields
  <2>2. PICK l \in Nat : DOMAIN d.questions = 1..l BY <2>1
  <2>3. \A i \in 1..l : d.questions[i] \in Questions BY <2>1, <2>2
  <2>4. \A i \in 1..l :
          /\ [d.questions[i] EXCEPT !.leaks = FALSE] \in Questions
          /\ ~[d.questions[i] EXCEPT !.leaks = FALSE].leaks
    BY <2>3 DEF Questions
  <2>5. clean = [i \in 1..l |-> [d.questions[i] EXCEPT !.leaks = FALSE]] BY <2>2
  <2>6. \A i \in 1..l : clean[i] = [d.questions[i] EXCEPT !.leaks = FALSE] BY <2>5
  <2>7. \A i \in 1..l : clean[i] \in Questions /\ ~clean[i].leaks BY <2>4, <2>6, Zenon
  <2>8. DOMAIN clean = 1..l /\ clean = [i \in 1..l |-> clean[i]] BY <2>5
  <2> HIDE DEF clean
  <2>9. clean \in [1..l -> Questions] BY <2>7, <2>8
  <2>10. clean \in Seq(Questions) /\ Len(clean) = l BY <2>9
  <2> QED BY <2>7, <2>10
<1> HIDE DEF clean
<1>3. /\ fresh \in Seq(Questions)
      /\ \A i \in 1..Len(fresh) : ~fresh[i].leaks /\ ~Repeats(fresh[i], recent)
  BY <1>2, FilterKeeps
<1> HIDE DEF fresh
<1>4. PICK n \in Nat, m \in Nat : n = Len(proposed) /\ m = Len(fresh)
  BY <1>3 DEF StageOutputsInv, AskedInv
<1>5. /\ exchange \in Nat /\ recent \in Seq(Questions) /\ proposed \in Seq(Proposals)
      /\ Len(recent) = IF n > QuestionWindow THEN QuestionWindow ELSE n
      /\ \A i \in 1..Len(recent) : recent[i] = proposed[n - Len(recent) + i].question
      /\ \A i \in 1..n : ~proposed[i].question.leaks /\ proposed[i].turn < exchange
  BY <1>1, <1>4 DEF StageOutputsInv, AskedInv
<1>6. \A i \in 1..n : proposed[i] \in Proposals /\ proposed[i].turn \in Nat
  <2>1. \A i \in 1..n : proposed[i] \in Proposals BY <1>4, <1>5, ElementOfSeq
  <2> QED BY <2>1 DEF Proposals
<1>7. added \in Seq(Proposals) /\ Len(added) = m
      /\ \A i \in 1..m : added[i].turn = exchange /\ added[i].question = fresh[i]
  <2>1. DOMAIN fresh = 1..m /\ \A i \in 1..m : fresh[i] \in Questions BY <1>3, <1>4
  <2>2. added = [i \in 1..m |-> [turn |-> exchange, question |-> fresh[i]]] BY <2>1
  <2>3. \A i \in 1..m : added[i] = [turn |-> exchange, question |-> fresh[i]] BY <2>2
  <2>4. \A i \in 1..m : added[i] \in Proposals BY <1>5, <2>1, <2>3 DEF Proposals
  <2>5. DOMAIN added = 1..m /\ added = [i \in 1..m |-> added[i]] BY <2>2
  <2> HIDE DEF added
  <2>6. added \in [1..m -> Proposals] BY <2>4, <2>5
  <2>7. added \in Seq(Proposals) /\ Len(added) = m BY <2>6
  <2> QED BY <2>3, <2>7
<1> HIDE DEF added
<1>8. /\ proposed' \in Seq(Proposals) /\ Len(proposed') = n + m
      /\ \A i \in 1..n : proposed'[i] = proposed[i]
      /\ \A i \in 1..m : proposed'[n + i] = added[i]
  <2>1. PICK p \in Seq(Proposals) : p = added BY <1>7
  <2>2. /\ proposed \o p \in Seq(Proposals) /\ Len(proposed \o p) = Len(proposed) + Len(p)
        /\ \A i \in 1..Len(proposed) : (proposed \o p)[i] = proposed[i]
        /\ \A i \in 1..Len(p) : (proposed \o p)[Len(proposed) + i] = p[i]
    BY <1>5, Joined
  <2>3. PICK a : a = proposed \o p OBVIOUS
  <2>4. /\ a \in Seq(Proposals) /\ Len(a) = n + m
        /\ \A i \in 1..n : a[i] = proposed[i]
        /\ \A i \in 1..m : a[n + i] = p[i]
    BY ONLY <1>4, <1>7, <2>1, <2>2, <2>3, Zenon
  <2> QED BY ONLY <1>1, <2>1, <2>3, <2>4, Zenon
<1>9. \A i \in 1..m : proposed'[n + i].turn = exchange /\ proposed'[n + i].question = fresh[i]
  BY ONLY <1>7, <1>8, Zenon
<1>10. \A i \in 1..(n + m) : i \in 1..n \/ \E j \in 1..m : i = n + j
  <2> SUFFICES ASSUME NEW i \in 1..(n + m), i \notin 1..n PROVE i - n \in 1..m /\ i = n + (i - n)
    OBVIOUS
  <2> QED OBVIOUS
<1>11. DOMAIN proposed = 1..n /\ DOMAIN proposed' = 1..(n + m) /\ 1..n \subseteq 1..(n + m)
  BY <1>4, <1>5, <1>8
<1>12. AskedInv'
  <2>0. PICK r \in Nat : r = Len(recent) BY <1>5
  <2>1. PICK s : s = recent \o fresh OBVIOUS
  <2>2. /\ s \in Seq(Questions) /\ Len(s) = r + m
        /\ \A i \in 1..r : s[i] = recent[i]
        /\ \A i \in 1..m : s[r + i] = fresh[i]
    <3>1. PICK p \in Seq(Questions) : p = fresh BY <1>3
    <3>2. recent \in Seq(Questions) BY <1>5
    <3>3. /\ recent \o p \in Seq(Questions) /\ Len(recent \o p) = Len(recent) + Len(p)
          /\ \A i \in 1..Len(recent) : (recent \o p)[i] = recent[i]
          /\ \A i \in 1..Len(p) : (recent \o p)[Len(recent) + i] = p[i]
      BY <3>2, Joined
    <3> QED BY ONLY <1>4, <2>0, <2>1, <3>1, <3>3, Zenon
  <2>3. /\ recent' \in Seq(Questions)
        /\ Len(recent') = IF Len(s) > QuestionWindow THEN QuestionWindow ELSE Len(s)
        /\ \A i \in 1..Len(recent') : recent'[i] = s[Len(s) - Len(recent') + i]
    BY <1>1, <2>1, <2>2, LatestIs, StageOutputsAssumption
  <2>4. PICK w \in Nat : w = Len(recent') BY <2>3
  <2>5. QuestionWindow \in Nat \ {0} BY StageOutputsAssumption
  <2>6. r = IF n > QuestionWindow THEN QuestionWindow ELSE n BY <1>5, <2>0
  <2>7. w = IF n + m > QuestionWindow THEN QuestionWindow ELSE n + m
    <3>1. w = IF r + m > QuestionWindow THEN QuestionWindow ELSE r + m BY <2>2, <2>3, <2>4
    <3> QED BY ONLY <2>5, <2>6, <3>1, n \in Nat, m \in Nat
  <2>8. \A i \in 1..w : recent'[i] = proposed'[(n + m) - w + i].question
    <3> SUFFICES ASSUME NEW i \in 1..w PROVE recent'[i] = proposed'[(n + m) - w + i].question
      OBVIOUS
    <3>1. PICK j \in Int : j = (r + m) - w + i OBVIOUS
    <3>2. recent'[i] = s[j] BY ONLY <2>2, <2>3, <2>4, <3>1
    <3>3. r <= n /\ w <= r + m
      BY ONLY <2>5, <2>6, <2>7, n \in Nat, m \in Nat, r \in Nat
    <3>4. CASE j <= r
      <4>1. PICK k \in 1..n : k = n - r + j BY ONLY <3>1, <3>3, <3>4, n \in Nat, m \in Nat, r \in Nat, w \in Nat, i \in 1..w
      <4>2. j \in 1..r /\ (n + m) - w + i = k
        BY ONLY <3>1, <3>3, <3>4, <4>1, n \in Nat, m \in Nat, r \in Nat, w \in Nat, i \in 1..w
      <4>3. s[j] = recent[j] BY <2>2, <4>2
      <4>4. recent[j] = proposed[k].question BY ONLY <1>5, <2>0, <4>1, <4>2
      <4>5. proposed'[k] = proposed[k] BY <1>8
      <4> QED BY ONLY <3>2, <4>2, <4>3, <4>4, <4>5, Zenon
    <3>5. CASE ~(j <= r)
      <4>1. PICK k \in 1..m : k = j - r BY ONLY <3>1, <3>3, <3>5, n \in Nat, m \in Nat, r \in Nat, w \in Nat, i \in 1..w
      <4>2. j = r + k /\ (n + m) - w + i = n + k
        BY ONLY <3>1, <4>1, n \in Nat, m \in Nat, r \in Nat, w \in Nat, i \in 1..w
      <4>3. s[r + k] = fresh[k] BY <2>2
      <4> QED BY ONLY <1>9, <3>2, <4>2, <4>3, Zenon
    <3> QED BY <3>4, <3>5
  <2>9. \A i \in 1..(n + m) : proposed'[i].turn <= exchange /\ ~proposed'[i].question.leaks
    <3> SUFFICES ASSUME NEW i \in 1..(n + m)
                 PROVE  proposed'[i].turn <= exchange /\ ~proposed'[i].question.leaks
      OBVIOUS
    <3>1. CASE i \in 1..n
      <4>1. proposed'[i] = proposed[i] BY <1>8, <3>1
      <4>2. ~proposed[i].question.leaks /\ proposed[i].turn < exchange /\ proposed[i].turn \in Nat
        BY <1>5, <1>6, <3>1
      <4> QED BY ONLY <1>5, <4>1, <4>2
    <3>2. ASSUME NEW k \in 1..m, i = n + k
          PROVE  proposed'[i].turn <= exchange /\ ~proposed'[i].question.leaks
      <4>1. ~fresh[k].leaks BY <1>3, <1>4
      <4>2. exchange <= exchange BY <1>5
      <4> QED BY ONLY <1>9, <3>2, <4>1, <4>2, Zenon
    <3> QED BY <1>10, <3>1, <3>2
  <2>10. /\ Len(recent') = IF Len(proposed') > QuestionWindow THEN QuestionWindow ELSE Len(proposed')
         /\ \A i \in 1..Len(recent') : recent'[i] = proposed'[Len(proposed') - Len(recent') + i].question
         /\ \A i \in 1..Len(proposed') :
              /\ proposed'[i].turn <= exchange' /\ ~proposed'[i].question.leaks
              /\ due' \in {"interpretation", "judgment", "planner"} => proposed'[i].turn < exchange'
    BY ONLY <1>1, <1>8, <2>4, <2>7, <2>8, <2>9
  <2> QED BY ONLY <1>1, <1>5, <1>8, <2>3, <2>10, Zenon DEF AskedInv
<1>13. QuestionsMoveOn'
  <2> SUFFICES ASSUME NEW i \in 1..(n + m), NEW j \in 1..(n + m),
                      proposed'[i].turn < proposed'[j].turn,
                      \A l \in 1..(n + m) : proposed'[l].turn < proposed'[j].turn => l < i + QuestionWindow
               PROVE  proposed'[i].question.topic # proposed'[j].question.topic
    BY <1>11 DEF QuestionsMoveOn
  <2>1. i \in 1..n
    <3>1. ASSUME NEW k \in 1..m, i = n + k PROVE FALSE
      <4>1. proposed'[i].turn = exchange BY ONLY <1>9, <3>1, Zenon
      <4>2. CASE j \in 1..n
        <5>1. proposed'[j] = proposed[j] /\ proposed[j].turn < exchange /\ proposed[j].turn \in Nat
          BY <1>5, <1>6, <1>8, <4>2
        <5>2. exchange < proposed[j].turn BY ONLY <4>1, <5>1, proposed'[i].turn < proposed'[j].turn
        <5> QED BY ONLY <5>1, <5>2, <1>5
      <4>3. ASSUME NEW l \in 1..m, j = n + l PROVE FALSE
        <5>1. proposed'[j].turn = exchange BY ONLY <1>9, <4>3, Zenon
        <5> QED BY <1>5, <4>1, <5>1
      <4> QED BY <1>10, <4>2, <4>3
    <3> QED BY <1>10, <3>1
  <2>2. proposed'[i] = proposed[i] BY <1>8, <2>1
  <2>3. CASE j \in 1..n
    <3>1. proposed'[j] = proposed[j] BY <1>8, <2>3
    <3>2. proposed[i].turn < proposed[j].turn BY <2>2, <3>1
    <3>3. \A l \in 1..n : proposed[l].turn < proposed[j].turn => l < i + QuestionWindow
      BY <1>8, <1>11, <3>1
    <3>4. proposed[i].question.topic # proposed[j].question.topic
      BY <1>11, <2>1, <2>3, <3>2, <3>3 DEF StageOutputsInv, QuestionsMoveOn
    <3> QED BY <2>2, <3>1, <3>4
  <2>4. ASSUME NEW k \in 1..m, j = n + k
        PROVE  proposed'[i].question.topic # proposed'[j].question.topic
    <3>1. proposed'[j].turn = exchange /\ proposed'[j].question = fresh[k]
      BY ONLY <1>9, <2>4, Zenon
    <3>2. n \in 1..n /\ n \in 1..(n + m) BY <2>1
    <3>3. proposed'[n].turn < proposed'[j].turn BY <1>5, <1>8, <3>1, <3>2
    <3>4. n < i + QuestionWindow BY <3>2, <3>3
    <3>5. PICK r \in Nat : r = Len(recent) BY <1>5
    <3>6. r = IF n > QuestionWindow THEN QuestionWindow ELSE n BY <1>5, <3>5
    <3>7. PICK p \in 1..r : n - r + p = i
      <4>1. QuestionWindow \in Nat \ {0} BY StageOutputsAssumption
      <4>2. i - (n - r) \in 1..r /\ n - r + (i - (n - r)) = i
        BY ONLY <2>1, <3>4, <3>6, <4>1, n \in Nat
      <4> QED BY <4>2
    <3>8. recent[p] = proposed[i].question BY ONLY <1>5, <3>5, <3>7
    <3>9. recent[p] \in ToSet(recent) BY <1>5, <3>5 DEF ToSet
    <3>10. ~Reworded(fresh[k], recent[p])
      <4>1. ~Repeats(fresh[k], recent) BY <1>3, <1>4
      <4> QED BY <3>9, <4>1 DEF Repeats
    <3>11. fresh[k].leaks = FALSE /\ recent[p].leaks = FALSE
      <4>1. fresh[k] \in Questions /\ ~fresh[k].leaks BY <1>3, <1>4, ElementOfSeq
      <4>2. recent[p] \in Questions BY <1>5, <3>5, ElementOfSeq
      <4>3. ~recent[p].leaks BY <1>5, <2>1, <3>8
      <4> QED BY ONLY <4>1, <4>2, <4>3 DEF Questions
    <3>12. fresh[k].topic # proposed[i].question.topic
      BY ONLY <3>8, <3>10, <3>11, Zenon DEF Reworded
    <3> QED BY ONLY <2>2, <3>1, <3>12, Zenon
  <2> QED BY <1>10, <2>3, <2>4
<1> QED BY <1>12, <1>13

LEMMA OutputsStep ==
  ASSUME StageOutputsInv, [StageOutputsNext]_stageOutputsVars
  PROVE  StageOutputsInv'
<1>1. CASE UNCHANGED stageOutputsVars
  BY <1>1 DEF stageOutputsVars, StageOutputsInv, FlagsHonoured, NothingInvented, QuestionsMoveOn, AskedInv
<1>2. ASSUME UNCHANGED <<recent, proposed, exchange>>,
             due' \in {"interpretation", "judgment", "planner"} =>
               due \in {"interpretation", "judgment", "planner"}
      PROVE  QuestionsMoveOn' /\ AskedInv'
  BY <1>2 DEF StageOutputsInv, QuestionsMoveOn, AskedInv
<1>3. CASE Exchange
  <2>1. \A i \in 1..Len(proposed) : proposed[i].turn \in Nat
    <3>1. \A i \in 1..Len(proposed) : proposed[i] \in Proposals
      BY ElementOfSeq DEF StageOutputsInv, AskedInv
    <3> QED BY <3>1 DEF Proposals
  <2>2. AskedInv' /\ QuestionsMoveOn'
    BY <1>3, <2>1 DEF Exchange, StageOutputsInv, AskedInv, QuestionsMoveOn
  <2>3. FlagsHonoured' /\ NothingInvented' BY <1>3 DEF Exchange, FlagsHonoured, NothingInvented
  <2> QED BY <2>2, <2>3 DEF StageOutputsInv
<1>4. CASE StageGivesUp
  <2>1. FlagsHonoured' /\ NothingInvented'
    BY <1>4 DEF StageGivesUp, StageOutputsInv, FlagsHonoured, NothingInvented
  <2> QED BY <1>2, <1>4, <2>1 DEF StageGivesUp, StageOutputsInv
<1>5. ASSUME NEW d \in Interpretations, Interpret(d) PROVE StageOutputsInv'
  <2>1. FlagsHonoured' /\ NothingInvented'
    BY <1>5, InterpretedSafe DEF Interpret, StageOutputsInv, FlagsHonoured, NothingInvented
  <2> QED BY <1>2, <1>5, <2>1 DEF Interpret, StageOutputsInv
<1>6. ASSUME NEW d \in Judgments, Judge(d) PROVE StageOutputsInv'
  <2>1. FlagsHonoured' /\ NothingInvented'
    BY <1>6, JudgedSafe DEF Judge, StageOutputsInv, FlagsHonoured, NothingInvented
  <2> QED BY <1>2, <1>6, <2>1 DEF Judge, StageOutputsInv
<1>7. ASSUME NEW d \in Plans, Plan(d) PROVE StageOutputsInv'
  <2>1. FlagsHonoured' /\ NothingInvented'
    BY <1>7 DEF Plan, StageOutputsInv, FlagsHonoured, NothingInvented
  <2> QED BY <1>7, <2>1, PlanStep DEF StageOutputsInv
<1>8. ASSUME NEW d \in Replies, Reply(d) PROVE StageOutputsInv'
  <2>1. FlagsHonoured' /\ NothingInvented'
    BY <1>8 DEF Reply, StageOutputsInv, FlagsHonoured, NothingInvented
  <2> QED BY <1>2, <1>8, <2>1 DEF Reply, StageOutputsInv
<1> QED BY <1>1, <1>3, <1>4, <1>5, <1>6, <1>7, <1>8 DEF StageOutputsNext

\* Whatever the model answers, what a stage hands on keeps its flags, puts
\* nothing in the person's mouth and asks no question again within the window.
THEOREM AnswersStaySafe == StageOutputsSpec => []AnswersMadeSafe
<1>1. StageOutputsInit => StageOutputsInv
  BY StageOutputsAssumption
     DEF StageOutputsInit, StageOutputsInv, FlagsHonoured, NothingInvented, QuestionsMoveOn, AskedInv
<1>2. StageOutputsInv /\ [StageOutputsNext]_stageOutputsVars => StageOutputsInv' BY OutputsStep
<1>3. StageOutputsInv => AnswersMadeSafe BY DEF StageOutputsInv, AnswersMadeSafe
<1> QED BY <1>1, <1>2, <1>3, PTL DEF StageOutputsSpec

-----------------------------------------------------------------------------
(* StreamText: where the value of a response begins and ends, what the     *)
(* search and the loop make of a stretch of it, and so what is passed on   *)
(* however the stretches are cut.                                          *)

\* The provers are not told that a literal is a string.
Symbols == STRING \cup {"k1", "k2", "x", ":", "q"}
Texts == Seq(Symbols)

\* The least of some numbers.
LEMMA LeastOf ==
  ASSUME NEW T \in SUBSET Nat, T # {}
  PROVE  \E x \in T : \A y \in T : x <= y
<1> DEFINE Less == {p \in Nat \X Nat : p[1] < p[2]}
<1>1. IsWellFoundedOn(Less, Nat)
  <2>1. Less = OpToRel(<, Nat) BY Zenon DEF OpToRel
  <2>2. IsWellFoundedOn(OpToRel(<, Nat), Nat) BY NatLessThanWellFounded
  <2> HIDE DEF Less
  <2> QED BY ONLY <2>1, <2>2, Zenon
<1>2. PICK x \in T : \A y \in T : <<y, x>> \notin Less
  <2> HIDE DEF Less
  <2> QED BY <1>1, WFMin
<1>3. ASSUME NEW y \in T, y < x PROVE FALSE
  <2>1. <<y, x>> \in Less BY <1>3
  <2> QED BY <1>2, <2>1
<1> QED BY <1>3

\* A stretch of a text.
LEMMA Stretch ==
  ASSUME NEW q \in Texts, NEW a \in 1..(Len(q) + 1), NEW b \in (a - 1)..Len(q)
  PROVE  \E s \in Texts :
           /\ s = SubSeq(q, a, b) /\ Len(s) = b - a + 1
           /\ \A i \in 1..(b - a + 1) : s[i] = q[a + i - 1]
<1>1. Len(q) \in Nat /\ a \in Int /\ b \in Int BY DEF Texts
<1>2. \A j \in a..b : q[j] \in Symbols
  <2>1. \A j \in a..b : j \in 1..Len(q) BY <1>1
  <2> QED BY <2>1, ElementOfSeq DEF Texts
<1>3. /\ SubSeq(q, a, b) \in Texts /\ Len(SubSeq(q, a, b)) = (IF a <= b THEN b - a + 1 ELSE 0)
      /\ \A i \in 1..(b - a + 1) : SubSeq(q, a, b)[i] = q[a + i - 1]
  BY <1>1, <1>2, SubSeqProperties DEF Texts
<1>4. PICK s : s = SubSeq(q, a, b) OBVIOUS
<1>5. /\ s \in Texts /\ Len(s) = (IF a <= b THEN b - a + 1 ELSE 0)
      /\ \A i \in 1..(b - a + 1) : s[i] = q[a + i - 1]
  BY ONLY <1>3, <1>4, Zenon
<1>6. Len(s) = b - a + 1 BY <1>1, <1>5
<1> QED BY ONLY <1>4, <1>5, <1>6, Zenon

\* A text of one symbol, or of two, is told by its symbols.
LEMMA OneSymbol ==
  ASSUME NEW s \in Texts, NEW c, Len(s) = 1
  PROVE  s = <<c>> <=> s[1] = c
<1>1. ASSUME s[1] = c PROVE s = <<c>>
  <2>1. DOMAIN s = 1..1 /\ s = [i \in 1..1 |-> s[i]] BY DEF Texts
  <2>2. s = [i \in 1..1 |-> c] BY <1>1, <2>1
  <2> QED BY <2>2
<1> QED BY <1>1

LEMMA TwoSymbols ==
  ASSUME NEW s \in Texts, Len(s) = 2
  PROVE  s = Marker <=> s[1] = "k1" /\ s[2] = "k2"
<1>1. ASSUME s[1] = "k1", s[2] = "k2" PROVE s = Marker
  <2>1. DOMAIN s = 1..2 /\ s = [i \in 1..2 |-> s[i]] BY DEF Texts
  <2>2. Marker = [i \in 1..2 |-> IF i = 1 THEN "k1" ELSE "k2"] BY DEF Marker
  <2> QED BY <1>1, <2>1, <2>2
<1>2. Marker[1] = "k1" /\ Marker[2] = "k2" BY DEF Marker
<1> QED BY <1>1, <1>2

\* str.find finds the first place, or none.
LEMMA FindIs ==
  ASSUME NEW q, NEW part, NEW from, NEW m, m = Len(part),
         NEW spots \in SUBSET Nat,
         \A i : i \in spots <=> i \in from..(Len(q) - m + 1) /\ SubSeq(q, i, i + m - 1) = part
  PROVE  \/ Find(q, part, from) = 0 /\ spots = {}
         \/ Find(q, part, from) \in spots /\ \A i \in spots : Find(q, part, from) <= i
<1>1. Find(q, part, from) = IF spots = {} THEN 0 ELSE CHOOSE i \in spots : \A j \in spots : i <= j
  <2>1. spots = {i \in from..(Len(q) - Len(part) + 1) : SubSeq(q, i, i + Len(part) - 1) = part}
    OBVIOUS
  <2> QED BY ONLY <2>1 DEF Find
<1>2. spots # {} => \E x \in spots : \A y \in spots : x <= y BY LeastOf
<1> QED BY ONLY <1>1, <1>2

\* A symbol, from a place on.
LEMMA FindSymbol ==
  ASSUME NEW q \in Texts, NEW c, NEW part, part = <<c>>, NEW from \in Nat \ {0}
  PROVE  LET at == Find(q, part, from) IN
         \/ at = 0 /\ \A i \in from..Len(q) : q[i] # c
         \/ at \in from..Len(q) /\ q[at] = c /\ \A i \in from..(at - 1) : q[i] # c
<1>1. PICK n \in Nat : n = Len(q) BY DEF Texts
<1>2. ASSUME NEW i \in from..n PROVE SubSeq(q, i, i) = <<c>> <=> q[i] = c
  <2>1. i \in 1..(Len(q) + 1) /\ i \in (i - 1)..Len(q) BY <1>1
  <2>2. PICK s \in Texts : s = SubSeq(q, i, i) /\ Len(s) = 1 /\ s[1] = q[i]
    <3>1. PICK s \in Texts : /\ s = SubSeq(q, i, i) /\ Len(s) = i - i + 1
                             /\ \A j \in 1..(i - i + 1) : s[j] = q[i + j - 1]
      BY <2>1, Stretch, Zenon
    <3>2. i - i + 1 = 1 /\ 1 \in 1..(i - i + 1) /\ i + 1 - 1 = i BY <1>1
    <3> QED BY <3>1, <3>2
  <2> QED BY <2>2, OneSymbol
<1>3. PICK m \in Nat : m = 1 OBVIOUS
<1>4. m = Len(part) BY <1>3
<1>5. {i \in from..n : q[i] = c} \in SUBSET Nat
  <2>1. from..n \subseteq Nat OBVIOUS
  <2> QED BY ONLY <2>1, Zenon
<1>6. PICK spots \in SUBSET Nat : spots = {i \in from..n : q[i] = c} BY <1>5
<1>7. /\ spots \in SUBSET Nat
      /\ \A i : i \in spots <=> i \in from..(Len(q) - m + 1) /\ SubSeq(q, i, i + m - 1) = part
  <2>1. from..(Len(q) - m + 1) = from..n BY <1>1, <1>3
  <2>2. \A i \in from..n : i + m - 1 = i BY <1>3
  <2>3. \A i \in from..n : SubSeq(q, i, i + m - 1) = part <=> q[i] = c
    BY <1>2, <1>3, <2>2
  <2> QED BY <1>6, <2>1, <2>3
<1>8. PICK at : at = Find(q, part, from) OBVIOUS
<1>9. (at = 0 /\ spots = {}) \/ (at \in spots /\ \A i \in spots : at <= i)
  BY ONLY <1>4, <1>7, <1>8, FindIs, Zenon
<1>10. \/ at = 0 /\ \A i \in from..n : q[i] # c
       \/ at \in from..n /\ q[at] = c /\ \A i \in from..(at - 1) : q[i] # c
  <2>1. CASE spots = {} BY ONLY <1>6, <1>9, <2>1
  <2>2. CASE at \in spots /\ \A i \in spots : at <= i
    <3>1. at \in from..n /\ q[at] = c BY ONLY <1>6, <2>2
    <3>2. \A i \in from..(at - 1) : i \in from..n /\ ~(at <= i) BY ONLY <3>1, <1>1, from \in Nat
    <3>3. \A i \in from..(at - 1) : q[i] # c BY ONLY <1>6, <2>2, <3>2
    <3> QED BY <3>1, <3>3
  <2> QED BY <1>9, <2>1, <2>2
<1> QED BY ONLY <1>1, <1>8, <1>10, Zenon

\* The marker.
LEMMA FindMarker ==
  ASSUME NEW q \in Texts
  PROVE  LET at == Find(q, Marker, 1) IN
         \/ at = 0 /\ \A i \in 1..(Len(q) - 1) : ~(q[i] = "k1" /\ q[i + 1] = "k2")
         \/ /\ at \in 1..(Len(q) - 1) /\ q[at] = "k1" /\ q[at + 1] = "k2"
            /\ \A i \in 1..(at - 1) : ~(q[i] = "k1" /\ q[i + 1] = "k2")
<1>1. PICK n \in Nat : n = Len(q) BY DEF Texts
<1> DEFINE Here(i) == q[i] = "k1" /\ q[i + 1] = "k2"
<1>2. ASSUME NEW i \in 1..(n - 1) PROVE SubSeq(q, i, i + 1) = Marker <=> Here(i)
  <2>1. i \in 1..(Len(q) + 1) /\ i + 1 \in (i - 1)..Len(q) BY <1>1
  <2>2. PICK s \in Texts : s = SubSeq(q, i, i + 1) /\ Len(s) = 2 /\ s[1] = q[i] /\ s[2] = q[i + 1]
    <3>1. PICK s \in Texts : /\ s = SubSeq(q, i, i + 1) /\ Len(s) = (i + 1) - i + 1
                             /\ \A j \in 1..((i + 1) - i + 1) : s[j] = q[i + j - 1]
      BY <2>1, Stretch, Zenon
    <3>2. /\ (i + 1) - i + 1 = 2 /\ {1, 2} \subseteq 1..((i + 1) - i + 1)
          /\ i + 1 - 1 = i /\ i + 2 - 1 = i + 1
      BY <1>1
    <3> QED BY <3>1, <3>2
  <2> QED BY <2>2, TwoSymbols
<1> HIDE DEF Here
<1>3. PICK m \in Nat : m = 2 OBVIOUS
<1>4. PICK part : part = Marker OBVIOUS
<1>5. m = Len(part) BY <1>3, <1>4 DEF Marker
<1>6. {i \in 1..(n - 1) : Here(i)} \in SUBSET Nat OBVIOUS
<1>7. PICK spots \in SUBSET Nat : spots = {i \in 1..(n - 1) : Here(i)} BY <1>6
<1>8. /\ spots \in SUBSET Nat
      /\ \A i : i \in spots <=> i \in 1..(Len(q) - m + 1) /\ SubSeq(q, i, i + m - 1) = part
  <2>1. 1..(Len(q) - m + 1) = 1..(n - 1) BY <1>1, <1>3
  <2>2. \A i \in 1..(n - 1) : i + m - 1 = i + 1 BY <1>3
  <2>3. \A i \in 1..(n - 1) : SubSeq(q, i, i + m - 1) = part <=> Here(i)
    BY ONLY <1>2, <1>3, <1>4, <2>2
  <2> QED BY <1>7, <2>1, <2>3
<1>9. PICK at : at = Find(q, part, 1) OBVIOUS
<1>10. (at = 0 /\ spots = {}) \/ (at \in spots /\ \A i \in spots : at <= i)
  BY ONLY <1>5, <1>8, <1>9, FindIs, Zenon
<1>11. \/ at = 0 /\ \A i \in 1..(n - 1) : ~Here(i)
       \/ at \in 1..(n - 1) /\ Here(at) /\ \A i \in 1..(at - 1) : ~Here(i)
  <2>1. CASE spots = {} BY ONLY <1>7, <1>10, <2>1
  <2>2. CASE at \in spots /\ \A i \in spots : at <= i
    <3>1. at \in 1..(n - 1) /\ Here(at) BY ONLY <1>7, <2>2
    <3>2. \A i \in 1..(at - 1) : i \in 1..(n - 1) /\ ~(at <= i) BY ONLY <3>1, <1>1
    <3>3. \A i \in 1..(at - 1) : ~Here(i) BY ONLY <1>7, <2>2, <3>2
    <3> QED BY <3>1, <3>3
  <2> QED BY <1>10, <2>1, <2>2
<1> QED BY ONLY <1>1, <1>4, <1>9, <1>11, Zenon DEF Here

KeyAt(t) == Find(t, Marker, 1)
ColonAt(t) == Find(t, <<":">>, KeyAt(t) + Len(Marker))
QuoteAt(t) == Find(t, <<"q">>, ColonAt(t))
BackBefore(t, i) == Backslashes(From(t, QuoteAt(t) + 1), i - (QuoteAt(t) + 1) + 1)
EndAt(t) ==
  CHOOSE i \in (QuoteAt(t) + 1)..Len(t) :
    /\ t[i] = "q" /\ BackBefore(t, i) % 2 = 0
    /\ \A j \in (QuoteAt(t) + 1)..(i - 1) : t[j] = "q" => BackBefore(t, j) % 2 = 1
\* The symbol at i is passed on whatever it is.
Escaped(t, i) == BackBefore(t, i) % 2 = 1

\* Where the value of a text begins and ends.
Layout(t) ==
  /\ t \in Texts
  /\ KeyAt(t) \in 1..(Len(t) - 1) /\ t[KeyAt(t)] = "k1" /\ t[KeyAt(t) + 1] = "k2"
  /\ \A i \in 1..(KeyAt(t) - 1) : ~(t[i] = "k1" /\ t[i + 1] = "k2")
  /\ ColonAt(t) \in (KeyAt(t) + 2)..Len(t) /\ t[ColonAt(t)] = ":"
  /\ \A i \in (KeyAt(t) + 2)..(ColonAt(t) - 1) : t[i] # ":"
  /\ QuoteAt(t) \in ColonAt(t)..Len(t) /\ t[QuoteAt(t)] = "q"
  /\ \A i \in ColonAt(t)..(QuoteAt(t) - 1) : t[i] # "q"
  /\ EndAt(t) \in (QuoteAt(t) + 1)..Len(t) /\ t[EndAt(t)] = "q" /\ ~Escaped(t, EndAt(t))
  /\ \A i \in (QuoteAt(t) + 1)..(EndAt(t) - 1) : t[i] = "q" => Escaped(t, i)

\* One backslash more, or none.
LEMMA BackslashesStep ==
  ASSUME NEW q \in Texts
  PROVE  /\ Backslashes(q, 1) = 0
         /\ \A i \in 1..Len(q) :
              /\ Backslashes(q, i) \in Nat
              /\ Backslashes(q, i + 1) = IF q[i] = "b" THEN Backslashes(q, i) + 1 ELSE 0
<1>1. PICK n \in Nat : n = Len(q) BY DEF Texts
<1> DEFINE Run(i) == {j \in 1..(i - 1) : \A k \in j..(i - 1) : q[k] = "b"}
<1>2. \A i : Backslashes(q, i) = Cardinality(Run(i)) BY DEF Backslashes
<1>3. Run(1) = {} OBVIOUS
<1>4. ASSUME NEW i \in 1..n
      PROVE  /\ Backslashes(q, i) \in Nat
             /\ Backslashes(q, i + 1) = IF q[i] = "b" THEN Backslashes(q, i) + 1 ELSE 0
  <2>1. IsFiniteSet(Run(i)) /\ i \notin Run(i)
    <3>1. Run(i) \subseteq 1..(i - 1) /\ IsFiniteSet(1..(i - 1)) BY FS_Interval
    <3> QED BY <3>1, FS_Subset
  <2>2. q[i] = "b" => Run(i + 1) = Run(i) \cup {i}
    <3> SUFFICES ASSUME q[i] = "b", NEW j PROVE j \in Run(i + 1) <=> j \in Run(i) \cup {i} OBVIOUS
    <3>1. CASE j \in 1..(i - 1)
      <4>1. \A k : k \in j..((i + 1) - 1) <=> k \in j..(i - 1) \/ k = i BY <3>1
      <4> QED BY <3>1, <4>1
    <3>2. CASE j = i BY <3>2
    <3>3. CASE j \notin 1..i BY <3>3
    <3> QED BY <3>1, <3>2, <3>3
  <2>3. q[i] # "b" => Run(i + 1) = {} OBVIOUS
  <2> HIDE DEF Run
  <2>4. Cardinality(Run(i)) \in Nat /\ Cardinality(Run(i) \cup {i}) = Cardinality(Run(i)) + 1
    BY <2>1, FS_AddElement, FS_CardinalityType
  <2> QED BY <1>2, <2>2, <2>3, <2>4, FS_EmptySet
<1> HIDE DEF Run
<1> QED BY <1>1, <1>2, <1>3, <1>4, FS_EmptySet

\* A symbol is escaped if a backslash that is not escaped is before it.
LEMMA EscapedStep ==
  ASSUME NEW t \in Texts, QuoteAt(t) \in 1..Len(t)
  PROVE  /\ ~Escaped(t, QuoteAt(t) + 1)
         /\ \A i \in (QuoteAt(t) + 1)..Len(t) :
              /\ BackBefore(t, i) \in Nat
              /\ Escaped(t, i + 1) <=> t[i] = "b" /\ ~Escaped(t, i)
<1>1. PICK n \in Nat, s \in Nat : n = Len(t) /\ s = QuoteAt(t) + 1 BY DEF Texts
<1>2. PICK q \in Texts : /\ q = From(t, s) /\ Len(q) = n - s + 1
                         /\ \A i \in 1..(n - s + 1) : q[i] = t[s + i - 1]
  <2>1. s \in 1..(Len(t) + 1) /\ Len(t) \in (s - 1)..Len(t) BY <1>1
  <2>2. \E q \in Texts : /\ q = SubSeq(t, s, Len(t)) /\ Len(q) = Len(t) - s + 1
                         /\ \A i \in 1..(Len(t) - s + 1) : q[i] = t[s + i - 1]
    BY <2>1, Stretch, Zenon
  <2> QED BY ONLY <1>1, <2>2 DEF From
<1>3. \A i : BackBefore(t, i) = Backslashes(q, i - s + 1) BY ONLY <1>1, <1>2, Zenon DEF BackBefore
<1>4. ~Escaped(t, s)
  <2>1. s - s + 1 = 1 OBVIOUS
  <2>2. BackBefore(t, s) = 0 BY <1>3, <2>1, BackslashesStep
  <2> QED BY <2>2 DEF Escaped
<1>5. ASSUME NEW i \in s..n
      PROVE  /\ BackBefore(t, i) \in Nat
             /\ Escaped(t, i + 1) <=> t[i] = "b" /\ ~Escaped(t, i)
  <2>1. PICK j \in 1..(n - s + 1) : j = i - s + 1 /\ (i + 1) - s + 1 = j + 1 /\ s + j - 1 = i OBVIOUS
  <2>2. PICK a \in Nat : a = Backslashes(q, j) BY <1>2, <2>1, BackslashesStep
  <2>3. PICK b : b = Backslashes(q, j + 1) OBVIOUS
  <2>4. b = IF q[j] = "b" THEN a + 1 ELSE 0 BY <1>2, <2>1, <2>2, <2>3, BackslashesStep
  <2>5. q[j] = t[i] BY <1>2, <2>1
  <2>6. BackBefore(t, i) = a /\ BackBefore(t, i + 1) = b BY ONLY <1>3, <2>1, <2>2, <2>3, Zenon
  <2>7. b % 2 = 1 <=> t[i] = "b" /\ ~(a % 2 = 1) BY <2>4, <2>5
  <2> QED BY <2>6, <2>7 DEF Escaped
<1> QED BY <1>1, <1>4, <1>5

\* The value ends before the first quote that is not escaped.
LEMMA EndIs ==
  ASSUME NEW t \in Texts, QuoteAt(t) \in 1..Len(t),
         NEW l \in (QuoteAt(t) + 1)..Len(t), t[l] = "q", ~Escaped(t, l)
  PROVE  /\ EndAt(t) \in (QuoteAt(t) + 1)..Len(t) /\ t[EndAt(t)] = "q" /\ ~Escaped(t, EndAt(t))
         /\ \A i \in (QuoteAt(t) + 1)..(EndAt(t) - 1) : t[i] = "q" => Escaped(t, i)
<1>1. PICK n \in Nat, s \in Nat \ {0} : n = Len(t) /\ s = QuoteAt(t) + 1 BY DEF Texts
<1>2. PICK T \in SUBSET Nat : T = {i \in s..n : t[i] = "q" /\ ~Escaped(t, i)}
  <2>1. {i \in s..n : t[i] = "q" /\ ~Escaped(t, i)} \in SUBSET Nat
    <3>1. s..n \subseteq Nat OBVIOUS
    <3> QED BY ONLY <3>1, Zenon
  <2> QED BY <2>1
<1>3. l \in T BY <1>1, <1>2
<1>4. PICK e \in T : \A i \in T : e <= i BY <1>3, LeastOf
<1>5. \A i \in s..(e - 1) : t[i] = "q" => Escaped(t, i)
  <2>1. \A i \in s..(e - 1) : i \in s..n /\ i \notin T BY <1>1, <1>2, <1>4
  <2> QED BY ONLY <1>2, <2>1
<1>6. e \in s..n /\ t[e] = "q" /\ ~Escaped(t, e) BY ONLY <1>2, <1>4
<1>7. \A i \in s..n : BackBefore(t, i) % 2 = 0 <=> ~Escaped(t, i)
  <2>1. \A i \in s..n : BackBefore(t, i) \in Nat BY <1>1, EscapedStep
  <2> QED BY <2>1 DEF Escaped
<1> DEFINE Ends(i) == /\ t[i] = "q" /\ BackBefore(t, i) % 2 = 0
                      /\ \A j \in s..(i - 1) : t[j] = "q" => BackBefore(t, j) % 2 = 1
<1>8. EndAt(t) = CHOOSE i \in s..n : Ends(i) BY <1>1 DEF EndAt
<1>9. Ends(e) BY <1>5, <1>6, <1>7 DEF Escaped
<1>10. EndAt(t) \in s..n /\ Ends(EndAt(t))
  <2> HIDE DEF Ends
  <2> QED BY <1>6, <1>8, <1>9
<1> QED BY <1>1, <1>7, <1>10 DEF Escaped

\* Any text that has the marker, then a colon, then a quote, and ends in a quote
\* that is not escaped, has a value.
LEMMA LayoutOf ==
  ASSUME NEW t \in Texts, NEW k \in Nat \ {0}, NEW c \in Nat, NEW o \in Nat,
         t[k] = "k1", t[k + 1] = "k2", k + 2 <= c, t[c] = ":", c <= o, t[o] = "q",
         o + 3 <= Len(t), t[Len(t) - 1] = "x", t[Len(t)] = "q"
  PROVE  Layout(t)
<1>1. PICK n \in Nat : n = Len(t) BY DEF Texts
<1>2. PICK a : a = KeyAt(t) OBVIOUS
<1>3. /\ a \in 1..(n - 1) /\ a <= k /\ t[a] = "k1" /\ t[a + 1] = "k2"
      /\ \A i \in 1..(a - 1) : ~(t[i] = "k1" /\ t[i + 1] = "k2")
  <2>1. \/ a = 0 /\ \A i \in 1..(n - 1) : ~(t[i] = "k1" /\ t[i + 1] = "k2")
        \/ /\ a \in 1..(n - 1) /\ t[a] = "k1" /\ t[a + 1] = "k2"
           /\ \A i \in 1..(a - 1) : ~(t[i] = "k1" /\ t[i + 1] = "k2")
    BY <1>1, <1>2, FindMarker, Zenon DEF KeyAt
  <2>2. k \in 1..(n - 1) BY <1>1
  <2>3. a # 0 BY <2>1, <2>2
  <2>4. a <= k
    <3> SUFFICES ASSUME ~(a <= k) PROVE FALSE OBVIOUS
    <3>1. k \in 1..(a - 1) BY <2>1, <2>3
    <3> QED BY <2>1, <2>3, <3>1
  <2> QED BY <2>1, <2>3, <2>4
<1>4. PICK b \in Nat \ {0} : b = KeyAt(t) + Len(Marker) /\ b = a + 2 BY <1>2, <1>3 DEF Marker
<1>5. PICK d : d = ColonAt(t) OBVIOUS
<1>6. d \in b..n /\ d <= c /\ t[d] = ":" /\ \A i \in b..(d - 1) : t[i] # ":"
  <2>1. \/ d = 0 /\ \A i \in b..n : t[i] # ":"
        \/ d \in b..n /\ t[d] = ":" /\ \A i \in b..(d - 1) : t[i] # ":"
    <3>1. b \in Nat \ {0} BY <1>3, <1>4
    <3>2. d = Find(t, <<":">>, b)
      <4>1. d = Find(t, <<":">>, KeyAt(t) + Len(Marker)) BY <1>5, Zenon DEF ColonAt
      <4>2. b = KeyAt(t) + Len(Marker) BY <1>4
      <4> QED BY ONLY <4>1, <4>2, Zenon
    <3>3. PICK x : x = ":" OBVIOUS
    <3>4. PICK part : part = <<x>> OBVIOUS
    <3>5. d = Find(t, part, b) BY ONLY <3>2, <3>3, <3>4
    <3>6. LET f == Find(t, part, b) IN
          \/ f = 0 /\ \A i \in b..Len(t) : t[i] # x
          \/ f \in b..Len(t) /\ t[f] = x /\ \A i \in b..(f - 1) : t[i] # x
      BY ONLY <3>1, <3>4, FindSymbol, t \in Texts
    <3> QED BY ONLY <1>1, <3>3, <3>5, <3>6, Zenon
  <2>2. c \in b..n BY <1>1, <1>3, <1>4
  <2>3. d # 0 BY <2>1, <2>2
  <2>4. d <= c
    <3> SUFFICES ASSUME ~(d <= c) PROVE FALSE OBVIOUS
    <3>1. c \in b..(d - 1) BY <2>1, <2>2, <2>3
    <3> QED BY <2>1, <2>3, <3>1
  <2> QED BY <2>1, <2>3, <2>4
<1>7. PICK p : p = QuoteAt(t) OBVIOUS
<1>8. p \in d..n /\ p <= o /\ t[p] = "q" /\ \A i \in d..(p - 1) : t[i] # "q"
  <2>1. \/ p = 0 /\ \A i \in d..n : t[i] # "q"
        \/ p \in d..n /\ t[p] = "q" /\ \A i \in d..(p - 1) : t[i] # "q"
    <3>1. d \in Nat \ {0} BY <1>4, <1>6
    <3>2. p = Find(t, <<"q">>, d) BY <1>5, <1>7, Zenon DEF QuoteAt
    <3>3. PICK x : x = "q" OBVIOUS
    <3>4. PICK part : part = <<x>> OBVIOUS
    <3>5. p = Find(t, part, d) BY ONLY <3>2, <3>3, <3>4
    <3>6. LET f == Find(t, part, d) IN
          \/ f = 0 /\ \A i \in d..Len(t) : t[i] # x
          \/ f \in d..Len(t) /\ t[f] = x /\ \A i \in d..(f - 1) : t[i] # x
      BY ONLY <3>1, <3>4, FindSymbol, t \in Texts
    <3> QED BY ONLY <1>1, <3>3, <3>5, <3>6, Zenon
  <2>2. o \in d..n BY <1>1, <1>6
  <2>3. p # 0 BY <1>6, <2>1, <2>2
  <2>4. p <= o
    <3> SUFFICES ASSUME ~(p <= o) PROVE FALSE OBVIOUS
    <3>1. o \in d..(p - 1) BY <1>6, <2>1, <2>2, <2>3
    <3> QED BY <2>1, <2>3, <3>1
  <2> QED BY <2>1, <2>3, <2>4
<1>9. p \in 1..n /\ n - 1 \in (p + 1)..n /\ n \in (p + 1)..n BY <1>1, <1>6, <1>8
<1>10. ~Escaped(t, n)
  <2>1. (n - 1) + 1 = n OBVIOUS
  <2>2. Escaped(t, (n - 1) + 1) <=> t[n - 1] = "b" /\ ~Escaped(t, n - 1)
    BY <1>1, <1>7, <1>9, EscapedStep
  <2> QED BY <1>1, <2>1, <2>2
<1>11. /\ EndAt(t) \in (p + 1)..n /\ t[EndAt(t)] = "q" /\ ~Escaped(t, EndAt(t))
       /\ \A i \in (p + 1)..(EndAt(t) - 1) : t[i] = "q" => Escaped(t, i)
  <2>1. QuoteAt(t) \in 1..Len(t) /\ n \in (QuoteAt(t) + 1)..Len(t) /\ t[n] = "q"
    BY <1>1, <1>7, <1>9
  <2> QED BY <1>1, <1>7, <1>10, <2>1, EndIs
<1> QED BY <1>1, <1>2, <1>3, <1>4, <1>5, <1>6, <1>7, <1>8, <1>11 DEF Layout

Scans == [buffer : {<<>>}, inValue : BOOLEAN, done : BOOLEAN, escaped : BOOLEAN, out : Texts]

\* The loop keeps its fields what they are.
LEMMA ScanSymbolType ==
  ASSUME NEW x \in Scans, NEW char \in Symbols
  PROVE  ScanSymbol(x, char) \in Scans
<1>1. Append(x.out, char) \in Texts BY DEF Scans, Texts
<1> QED BY <1>1 DEF Scans, ScanSymbol

\* g[k] is what the loop has after k symbols of q.
Runs(g, n, q, base) ==
  /\ g[0] = base /\ g[n] = FoldLeft(ScanSymbol, base, q)
  /\ \A k \in 1..n : g[k] = ScanSymbol(g[k - 1], q[k])

\* The loop, symbol by symbol.
LEMMA ScanIs ==
  ASSUME NEW n \in Nat, NEW q \in [1..n -> Symbols], NEW base \in Scans
  PROVE  \E g \in [0..n -> Scans] : Runs(g, n, q, base)
<1> DEFINE Body(h) == [s \in SUBSET (1..n) |->
                         IF s = {} THEN base ELSE ScanSymbol(h[s \ {Max(s)}], q[Max(s)])]
           f == CHOOSE h : h = Body(h)
<1>1. FoldLeft(ScanSymbol, base, q) = f[1..n]
  <2>1. DOMAIN q = 1..n OBVIOUS
  <2> QED BY <2>1, Zenon DEF FoldLeft, MapThenFoldSet
<1>2. \E h : h = Body(h)
  <2> DEFINE step == [i \in 1..n |-> [v \in Scans |-> ScanSymbol(v, q[i])]]
  <2>1. step \in [1..n -> [Scans -> Scans]]
    <3>1. \A i \in 1..n : [v \in Scans |-> ScanSymbol(v, q[i])] \in [Scans -> Scans]
      BY ScanSymbolType
    <3> QED BY <3>1
  <2>2. PICK h \in [SUBSET (1..n) -> Scans] : FoldsBy(h, n, base, step)
    <3> HIDE DEF step
    <3> QED BY <2>1, FoldExists, Zenon
  <2>3. ASSUME NEW s \in SUBSET (1..n), s # {}
        PROVE  h[s] = ScanSymbol(h[s \ {Max(s)}], q[Max(s)])
    <3>1. Max(s) \in 1..n BY <2>3, MaxUpTo
    <3>2. h[s \ {Max(s)}] \in Scans BY <2>2
    <3>3. h[s] = step[Max(s)][h[s \ {Max(s)}]] BY <2>2, <2>3 DEF FoldsBy
    <3> QED BY <3>1, <3>2, <3>3
  <2>4. h[{}] = base BY <2>2 DEF FoldsBy
  <2>5. \A s \in SUBSET (1..n) :
          h[s] = IF s = {} THEN base ELSE ScanSymbol(h[s \ {Max(s)}], q[Max(s)])
    BY <2>3, <2>4
  <2>6. h = [s \in SUBSET (1..n) |-> h[s]] BY <2>2
  <2>7. h = Body(h) BY ONLY <2>5, <2>6, Zenon
  <2> QED BY ONLY <2>7, Zenon
<1>3. f = Body(f)
  <2> HIDE DEF Body
  <2> QED BY <1>2
<1> HIDE DEF f
<1>4. f[1..0] = base
  <2>1. 1..0 = {} /\ {} \in SUBSET (1..n) OBVIOUS
  <2> QED BY ONLY <1>3, <2>1, Zenon
<1>5. ASSUME NEW k \in 1..n PROVE f[1..k] = ScanSymbol(f[1..(k - 1)], q[k])
  <2>1. 1..k \in SUBSET (1..n) /\ 1..k # {} /\ Max(1..k) = k /\ (1..k) \ {k} = 1..(k - 1)
    BY MaxUpTo
  <2>2. f[1..k] = ScanSymbol(f[(1..k) \ {Max(1..k)}], q[Max(1..k)]) BY ONLY <1>3, <2>1, Zenon
  <2> QED BY ONLY <2>1, <2>2, Zenon
<1>6. \A k \in 0..n : f[1..k] \in Scans
  <2> DEFINE S == {k \in 0..n : f[1..k] \in Scans}
  <2>1. 0 \in S BY <1>4
  <2>2. \A k \in 1..n : k - 1 \in S => k \in S
    <3> SUFFICES ASSUME NEW k \in 1..n, k - 1 \in S PROVE k \in S OBVIOUS
    <3>1. f[1..(k - 1)] \in Scans OBVIOUS
    <3>2. f[1..k] \in Scans BY <1>5, <3>1, ScanSymbolType
    <3> QED BY <3>2
  <2> HIDE DEF S
  <2>3. 0..n \subseteq S BY <2>1, <2>2, Climb
  <2> QED BY <2>3 DEF S
<1> DEFINE g == [k \in 0..n |-> f[1..k]]
<1>7. g \in [0..n -> Scans] BY <1>6
<1>8. g[0] = base BY <1>4
<1>9. g[n] = FoldLeft(ScanSymbol, base, q)
  <2>1. g[n] = f[1..n] OBVIOUS
  <2> QED BY ONLY <1>1, <2>1, Zenon
<1>10. \A k \in 1..n : g[k] = ScanSymbol(g[k - 1], q[k])
  <2> SUFFICES ASSUME NEW k \in 1..n PROVE g[k] = ScanSymbol(g[k - 1], q[k]) OBVIOUS
  <2>1. g[k] = f[1..k] /\ g[k - 1] = f[1..(k - 1)] OBVIOUS
  <2> HIDE DEF g
  <2> QED BY ONLY <1>5, <2>1, k \in 1..n, Zenon
<1> HIDE DEF g
<1>11. Runs(g, n, q, base) BY ONLY <1>8, <1>9, <1>10, Zenon DEF Runs
<1> QED BY ONLY <1>7, <1>11, Zenon

\* One symbol: passed on, or the end of the value, or nothing after it.
LEMMA ScanSymbolDoes ==
  ASSUME NEW x \in Scans, NEW char, NEW y, y = ScanSymbol(x, char)
  PROVE  /\ x.done => y = x
         /\ ~x.done /\ (x.escaped \/ char # "q") =>
              /\ y.out = Append(x.out, char) /\ (y.escaped <=> char = "b" /\ ~x.escaped)
              /\ ~y.done /\ y.inValue = x.inValue
         /\ ~x.done /\ ~x.escaped /\ char = "q" => y.done /\ ~y.inValue /\ y.out = x.out
BY DEF Scans, ScanSymbol

\* What the loop makes of a stretch that begins in the value: all of it, or what
\* is before the end.
LEMMA ScanReads ==
  ASSUME NEW t, Layout(t),
         NEW p \in (QuoteAt(t) + 1)..EndAt(t), NEW b \in (p - 1)..Len(t),
         NEW state, state.escaped \in BOOLEAN, state.escaped <=> Escaped(t, p)
  PROVE  \E x \in Scans :
           /\ x = Scan(state, SubSeq(t, p, b))
           /\ b < EndAt(t) => /\ ~x.done /\ x.inValue /\ x.out = SubSeq(t, p, b)
                              /\ x.escaped <=> Escaped(t, b + 1)
           /\ b >= EndAt(t) => x.done /\ ~x.inValue /\ x.out = SubSeq(t, p, EndAt(t) - 1)
<1>1. PICK l \in Nat, s \in Nat \ {0}, e \in Nat :
        /\ l = Len(t) /\ s = QuoteAt(t) + 1 /\ e = EndAt(t) /\ t \in Texts
        /\ p \in s..e /\ b \in (p - 1)..l /\ e \in s..l /\ QuoteAt(t) \in 1..Len(t)
  <2>1. t \in Texts BY DEF Layout
  <2>2. t \in Texts /\ Len(t) \in Nat BY <2>1 DEF Texts
  <2>3. KeyAt(t) \in 1..(Len(t) - 1) /\ ColonAt(t) \in (KeyAt(t) + 2)..Len(t) BY Zenon DEF Layout
  <2>4. ColonAt(t) \in Nat \ {0} BY ONLY <2>2, <2>3
  <2>5. QuoteAt(t) \in ColonAt(t)..Len(t) /\ EndAt(t) \in (QuoteAt(t) + 1)..Len(t) BY Zenon DEF Layout
  <2> QED BY <2>2, <2>4, <2>5
<1>2. /\ t[e] = "q" /\ ~Escaped(t, e)
      /\ \A i \in s..(e - 1) : t[i] = "q" => Escaped(t, i)
      /\ \A i \in s..l : Escaped(t, i + 1) <=> t[i] = "b" /\ ~Escaped(t, i)
  <2>1. t[EndAt(t)] = "q" /\ ~Escaped(t, EndAt(t))
        /\ \A i \in (QuoteAt(t) + 1)..(EndAt(t) - 1) : t[i] = "q" => Escaped(t, i)
    BY DEF Layout
  <2>2. \A i \in (QuoteAt(t) + 1)..Len(t) : Escaped(t, i + 1) <=> t[i] = "b" /\ ~Escaped(t, i)
    BY <1>1, EscapedStep
  <2> QED BY ONLY <1>1, <2>1, <2>2, Zenon
<1>3. PICK n \in Nat : n = b - p + 1 BY <1>1
<1>4. PICK q \in Texts : /\ q = SubSeq(t, p, b) /\ Len(q) = n
                         /\ \A k \in 1..n : q[k] = t[p + k - 1]
  <2>1. t \in Texts /\ p \in 1..(Len(t) + 1) /\ b \in (p - 1)..Len(t) BY <1>1
  <2>2. \E r \in Texts : /\ r = SubSeq(t, p, b) /\ Len(r) = b - p + 1
                         /\ \A k \in 1..(b - p + 1) : r[k] = t[p + k - 1]
    BY ONLY <2>1, Stretch, Zenon
  <2> QED BY ONLY <1>3, <2>2, Zenon
<1>5. q \in [1..n -> Symbols]
  <2>1. q \in Seq(Symbols) /\ Len(q) = n BY <1>4 DEF Texts
  <2> QED BY ONLY <2>1, n \in Nat
<1>6. PICK base \in Scans : base = [buffer |-> <<>>, inValue |-> TRUE, done |-> FALSE,
                                    escaped |-> state.escaped, out |-> <<>>]
  <2>1. <<>> \in Texts BY DEF Texts
  <2> QED BY <2>1 DEF Scans
<1>7. PICK g \in [0..n -> Scans] :
        /\ g[0] = base /\ g[n] = FoldLeft(ScanSymbol, base, q)
        /\ \A k \in 1..n : g[k] = ScanSymbol(g[k - 1], q[k])
  <2>1. \E g \in [0..n -> Scans] : Runs(g, n, q, base)
    BY ONLY <1>5, ScanIs, n \in Nat, base \in Scans, Zenon
  <2> QED BY ONLY <2>1, Zenon DEF Runs
<1> DEFINE Read(x, k) ==
             IF p + k <= e THEN /\ ~x.done /\ x.inValue /\ x.out = SubSeq(t, p, p + k - 1)
                                /\ x.escaped <=> Escaped(t, p + k)
                           ELSE x.done /\ ~x.inValue /\ x.out = SubSeq(t, p, e - 1)
           S == {k \in 0..n : Read(g[k], k)}
<1>8. 0 \in S
  <2>1. SubSeq(t, p, p + 0 - 1) = <<>>
    <3>1. p \in Int /\ p + 0 - 1 \in Int /\ p + 0 - 1 < p BY <1>1
    <3> QED BY ONLY <3>1, SubSeqEmpty
  <2>2. p + 0 = p /\ p <= e /\ 0 \in 0..n BY <1>1
  <2>3. ~base.done /\ base.inValue /\ base.out = <<>> /\ (base.escaped <=> Escaped(t, p)) BY <1>6
  <2>4. Read(base, 0) BY ONLY <2>1, <2>2, <2>3
  <2> HIDE DEF Read
  <2> QED BY <1>7, <2>2, <2>4
<1>9. ASSUME NEW k \in 1..n, k - 1 \in S PROVE k \in S
  <2>1. PICK i \in s..l : /\ i = p + k - 1 /\ p + (k - 1) = i /\ p + k = i + 1
                          /\ p + (k - 1) - 1 = i - 1 /\ q[k] = t[i]
    BY <1>1, <1>3, <1>4
  <2>2. PICK y : y = g[k] OBVIOUS
  <2>3. PICK x \in Scans : x = g[k - 1] /\ y = g[k] /\ y = ScanSymbol(x, t[i])
    <3>1. k - 1 \in 0..n OBVIOUS
    <3>2. g[k - 1] \in Scans BY <3>1, <1>7
    <3>3. g[k] = ScanSymbol(g[k - 1], t[i]) BY ONLY <1>7, <2>1, k \in 1..n, Zenon
    <3> QED BY ONLY <2>2, <3>2, <3>3, Zenon
  <2>4. Read(x, k - 1)
    <3> HIDE DEF Read
    <3> QED BY <1>9, <2>3
  <2>5. ASSUME ~(i <= e) PROVE Read(y, k)
    <3>1. x.done /\ ~x.inValue /\ x.out = SubSeq(t, p, e - 1) BY ONLY <2>1, <2>4, <2>5
    <3>2. y = x BY ONLY <2>3, <3>1, x \in Scans, ScanSymbolDoes
    <3>3. ~(p + k <= e) BY <1>1, <2>1, <2>5
    <3> QED BY ONLY <3>1, <3>2, <3>3
  <2>6. ASSUME i <= e PROVE Read(y, k)
    <3>1. /\ ~x.done /\ x.inValue /\ x.out = SubSeq(t, p, i - 1) /\ (x.escaped <=> Escaped(t, i))
      BY ONLY <2>1, <2>4, <2>6
    <3>2. CASE i = e
      <4>1. y.done /\ ~y.inValue /\ y.out = x.out
        BY ONLY <1>2, <2>3, <3>1, <3>2, x \in Scans, ScanSymbolDoes
      <4>2. ~(p + k <= e) BY <1>1, <2>1, <3>2
      <4> QED BY ONLY <3>1, <3>2, <4>1, <4>2
    <3>3. CASE i # e
      <4>1. i \in s..(e - 1) /\ p + k <= e /\ p + k - 1 = i BY <1>1, <2>1, <2>6, <3>3
      <4>2. x.escaped \/ t[i] # "q" BY ONLY <1>2, <3>1, <4>1
      <4>3. /\ y.out = Append(x.out, t[i]) /\ (y.escaped <=> t[i] = "b" /\ ~x.escaped)
            /\ ~y.done /\ y.inValue = x.inValue
        <5>1. PICK char : char = t[i] OBVIOUS
        <5>2. ~x.done /\ (x.escaped \/ char # "q") =>
                /\ y.out = Append(x.out, char) /\ (y.escaped <=> char = "b" /\ ~x.escaped)
                /\ ~y.done /\ y.inValue = x.inValue
          BY ONLY <2>3, <5>1, x \in Scans, ScanSymbolDoes
        <5>3. ~x.done /\ (x.escaped \/ char # "q") BY ONLY <3>1, <4>2, <5>1, Zenon
        <5> QED BY ONLY <5>1, <5>2, <5>3, Zenon
      <4>4. y.escaped <=> Escaped(t, i + 1) BY ONLY <1>2, <3>1, <4>3, i \in s..l
      <4>5. y.out = SubSeq(t, p, i)
        <5>1. p \in 1..l /\ i \in p..l
          BY ONLY <1>1, <2>1, k \in 1..n, l \in Nat, e \in Nat, n \in Nat, i \in s..l, s \in Nat \ {0}
        <5>2. t \in Seq(Symbols) /\ p \in 1..Len(t) /\ i \in p..Len(t) BY ONLY <1>1, <5>1 DEF Texts
        <5>3. SubSeq(t, p, i) = SubSeq(t, p, i - 1) \o <<t[i]>> BY ONLY <5>2, SubSeqRecursiveSecond
        <5>4. x.out \in Seq(Symbols) BY DEF Scans, Texts
        <5>5. Append(x.out, t[i]) = x.out \o <<t[i]>>
          <6>1. PICK z \in Seq(Symbols) : z = x.out BY <5>4
          <6>2. Append(z, t[i]) = z \o <<t[i]>> OBVIOUS
          <6> QED BY ONLY <6>1, <6>2, Zenon
        <5> QED BY ONLY <3>1, <4>3, <5>3, <5>5, Zenon
      <4> QED BY ONLY <2>1, <3>1, <4>1, <4>3, <4>4, <4>5
    <3> QED BY <3>2, <3>3
  <2>7. Read(y, k)
    <3> HIDE DEF Read
    <3> QED BY <2>5, <2>6
  <2> HIDE DEF Read
  <2> QED BY <2>3, <2>7
<1>10. Read(g[n], n)
  <2> HIDE DEF Read
  <2>1. 0 \in S BY <1>8
  <2>2. \A k \in 1..n : k - 1 \in S => k \in S BY <1>9
  <2>3. 0..n \subseteq S
    <3> HIDE DEF S
    <3> QED BY <2>1, <2>2, Climb
  <2> QED BY <2>3
<1>11. PICK x \in Scans : x = g[n] BY <1>7
<1>12. p + n = b + 1 /\ p + n - 1 = b BY <1>1, <1>3
<1>13. (b < e => p + n <= e) /\ (b >= e => ~(p + n <= e)) BY <1>1, <1>12
<1>14. x = Scan(state, SubSeq(t, p, b)) BY ONLY <1>4, <1>6, <1>7, <1>11, Zenon DEF Scan
<1>15. /\ b < e => /\ ~x.done /\ x.inValue /\ x.out = SubSeq(t, p, b)
                   /\ x.escaped <=> Escaped(t, b + 1)
       /\ b >= e => x.done /\ ~x.inValue /\ x.out = SubSeq(t, p, e - 1)
  BY ONLY <1>10, <1>11, <1>12, <1>13
<1> QED BY ONLY <1>1, <1>14, <1>15, x \in Scans, Zenon

\* What is still wanted of the first f symbols, before the value begins.
Sought(t, f, tail) ==
  /\ f < QuoteAt(t) /\ tail \in Texts /\ Len(tail) <= f
  /\ tail = SubSeq(t, f - Len(tail) + 1, f)
  /\ Len(tail) = IF f <= KeyAt(t) THEN (IF f <= 2 THEN f ELSE 2) ELSE f - KeyAt(t) + 1

\* A stretch of a text begins after o and ends with f; its end begins at its a;
\* r is what a text has from o to f; c is the first x from s on.
Starts(t, o, f, a) ==
  t \in Texts /\ o \in Nat /\ f \in Nat /\ o <= f /\ f <= Len(t) /\ a \in 1..(f - o + 1)
SameEnd(t, o, f, a) == SubSeq(SubSeq(t, o + 1, f), a, f - o) = SubSeq(t, o + a, f)
IsStretch(r, t, o, f) ==
  r \in Texts /\ o <= f /\ Len(r) = f - o /\ \A i \in 1..(f - o) : r[i] = t[o + i]
FirstFrom(t, x, s, c) == s <= c /\ t[c] = x /\ \A i \in s..(c - 1) : t[i] # x

\* The numbers of a layout.
LEMMA Places ==
  ASSUME NEW t, Layout(t)
  PROVE  /\ t \in Texts /\ Len(t) \in Nat
         /\ KeyAt(t) \in Nat \ {0} /\ ColonAt(t) \in Nat \ {0}
         /\ QuoteAt(t) \in Nat \ {0} /\ EndAt(t) \in Nat \ {0}
         /\ KeyAt(t) + 2 <= ColonAt(t) /\ ColonAt(t) <= QuoteAt(t) /\ QuoteAt(t) < EndAt(t)
         /\ EndAt(t) <= Len(t)
<1>1. t \in Texts BY DEF Layout
<1>2. Len(t) \in Nat BY <1>1 DEF Texts
<1>3. /\ KeyAt(t) \in 1..(Len(t) - 1) /\ ColonAt(t) \in (KeyAt(t) + 2)..Len(t)
      /\ QuoteAt(t) \in ColonAt(t)..Len(t) /\ EndAt(t) \in (QuoteAt(t) + 1)..Len(t)
  BY Zenon DEF Layout
<1>4. KeyAt(t) \in Nat \ {0} BY ONLY <1>2, <1>3
<1>5. ColonAt(t) \in Nat \ {0} /\ KeyAt(t) + 2 <= ColonAt(t) BY ONLY <1>2, <1>3, <1>4
<1>6. QuoteAt(t) \in Nat \ {0} /\ ColonAt(t) <= QuoteAt(t) BY ONLY <1>2, <1>3, <1>5
<1>7. EndAt(t) \in Nat \ {0} /\ QuoteAt(t) < EndAt(t) /\ EndAt(t) <= Len(t) BY ONLY <1>2, <1>3, <1>6
<1> QED BY ONLY <1>1, <1>2, <1>4, <1>5, <1>6, <1>7

\* The end of a stretch is a stretch.
LEMMA StretchOf ==
  ASSUME NEW t, NEW o, NEW f, NEW a, Starts(t, o, f, a)
  PROVE  SameEnd(t, o, f, a)
<1>1. PICK r : r = SubSeq(t, o + 1, f) OBVIOUS
<1>2. /\ Len(t) \in Nat /\ t \in Seq(Symbols) /\ o \in Nat /\ f \in Nat /\ o <= f
      /\ f <= Len(t) /\ a \in 1..(f - o + 1)
  BY DEF Starts, Texts
<1>3. ASSUME a = f - o + 1 PROVE SubSeq(r, a, f - o) = SubSeq(t, o + a, f)
  <2>1. a \in Int /\ f - o \in Int /\ f - o < a /\ o + a \in Int /\ f < o + a /\ f \in Int BY <1>2, <1>3
  <2>2. SubSeq(r, a, f - o) = <<>> BY ONLY <2>1, SubSeqEmpty
  <2>3. SubSeq(t, o + a, f) = <<>> BY ONLY <2>1, SubSeqEmpty
  <2> QED BY ONLY <2>2, <2>3, Zenon
<1>4. ASSUME a # f - o + 1 PROVE SubSeq(r, a, f - o) = SubSeq(t, o + a, f)
  <2>1. PICK i \in 1..Len(t) : i = o + 1 BY <1>2, <1>4
  <2>2. PICK n \in 1..(f - o) : n = f - o BY <1>2, <1>4
  <2>3. f \in 1..Len(t) /\ f - i + 1 = f - o BY <1>2, <1>4, <2>1
  <2>4. a \in 1..(f - i + 1) /\ n \in 1..(f - i + 1) BY <1>2, <1>4, <2>3
  <2>5. SubSeq(SubSeq(t, i, f), a, n) = SubSeq(t, i + a - 1, i + n - 1)
    BY ONLY <1>2, <2>3, <2>4, i \in 1..Len(t), SubSeqOfSubSeq
  <2>6. i + a - 1 = o + a /\ i + n - 1 = f BY <1>2, <2>1, <2>2
  <2> QED BY ONLY <2>1, <2>2, <2>5, <2>6, <1>1, Zenon
<1> QED BY ONLY <1>1, <1>3, <1>4, Zenon DEF SameEnd

\* The same, of the place found.
LEMMA FoundAt ==
  ASSUME NEW q \in Texts, NEW c, NEW part, part = <<c>>, NEW from \in Nat \ {0}
  PROVE  \E at : /\ at = Find(q, part, from)
                 /\ \/ at = 0 /\ \A i \in from..Len(q) : q[i] # c
                    \/ at \in from..Len(q) /\ q[at] = c /\ \A i \in from..(at - 1) : q[i] # c
<1>1. \/ Find(q, part, from) = 0 /\ \A i \in from..Len(q) : q[i] # c
      \/ /\ Find(q, part, from) \in from..Len(q) /\ q[Find(q, part, from)] = c
         /\ \A i \in from..(Find(q, part, from) - 1) : q[i] # c
  BY FindSymbol
<1> QED BY ONLY <1>1, Zenon

\* A symbol is found in a stretch where it is in the text.
LEMMA FindIn ==
  ASSUME NEW t, NEW o \in Nat, NEW f \in Nat, NEW r, IsStretch(r, t, o, f),
         NEW s \in Nat, o < s, NEW c \in Nat, NEW x, FirstFrom(t, x, s, c), NEW part, part = <<x>>
  PROVE  Find(r, part, s - o) = IF c <= f THEN c - o ELSE 0
<1>1. /\ r \in Texts /\ o <= f /\ Len(r) = f - o /\ \A i \in 1..(f - o) : r[i] = t[o + i]
      /\ s <= c /\ t[c] = x /\ \A i \in s..(c - 1) : t[i] # x
  BY DEF IsStretch, FirstFrom
<1>2. part = <<x>> OBVIOUS
<1>3. PICK b \in Nat \ {0} : b = s - o OBVIOUS
<1>4. PICK at : at = Find(r, part, b) OBVIOUS
<1>5. \/ at = 0 /\ \A i \in b..(f - o) : r[i] # x
      \/ at \in b..(f - o) /\ r[at] = x /\ \A i \in b..(at - 1) : r[i] # x
  <2>1. /\ b \in Nat \ {0} /\ r \in Texts /\ part = <<x>> BY <1>1, <1>3, <1>2
  <2>2. \E at2 : /\ at2 = Find(r, part, b)
                /\ \/ at2 = 0 /\ \A i \in b..Len(r) : r[i] # x
                   \/ at2 \in b..Len(r) /\ r[at2] = x /\ \A i \in b..(at2 - 1) : r[i] # x
    BY ONLY <2>1, FoundAt
  <2> QED BY ONLY <1>1, <1>4, <2>2, Zenon
<1>6. \A i \in b..(f - o) : r[i] = t[o + i] BY <1>1, <1>3
<1>7. CASE c <= f
  <2>1. c - o \in b..(f - o) /\ o + (c - o) = c BY <1>1, <1>3, <1>7
  <2>2. r[c - o] = x BY <1>1, <1>6, <2>1
  <2>3. at \in b..(f - o) /\ r[at] = x /\ \A i \in b..(at - 1) : r[i] # x BY <1>1, <1>5, <2>1, <2>2
  <2>4. at <= c - o
    <3> SUFFICES ASSUME ~(at <= c - o) PROVE FALSE OBVIOUS
    <3>1. c - o \in b..(at - 1) BY <2>1, <2>3
    <3> QED BY <2>2, <2>3, <3>1
  <2>5. c - o <= at
    <3> SUFFICES ASSUME ~(c - o <= at) PROVE FALSE OBVIOUS
    <3>1. o + at \in s..(c - 1) BY <1>1, <1>3, <2>1, <2>3
    <3>2. t[o + at] = x BY <1>1, <1>6, <2>3
    <3> QED BY <1>1, <3>1, <3>2
  <2>6. at = c - o BY <1>1, <1>3, <2>1, <2>3, <2>4, <2>5
  <2> QED BY ONLY <1>3, <1>4, <1>7, <2>6, <1>2, Zenon
<1>8. CASE ~(c <= f)
  <2>1. \A i \in b..(f - o) : o + i \in s..(c - 1) BY <1>1, <1>3, <1>8
  <2>2. \A i \in b..(f - o) : r[i] # x BY <1>1, <1>6, <2>1
  <2>3. at = 0 BY <1>1, <1>5, <2>2
  <2> QED BY ONLY <1>3, <1>4, <1>8, <2>3, <1>2, Zenon
<1> QED BY <1>7, <1>8

\* The marker is found in a stretch that begins before it.
LEMMA MarkerIn ==
  ASSUME NEW t, Layout(t), NEW o \in Nat, NEW f \in Nat, o < KeyAt(t),
         NEW r, IsStretch(r, t, o, f)
  PROVE  Find(r, Marker, 1) = IF f <= KeyAt(t) THEN 0 ELSE KeyAt(t) - o
<1>1. r \in Texts /\ o <= f /\ Len(r) = f - o /\ \A i \in 1..(f - o) : r[i] = t[o + i]
  BY DEF IsStretch
<1>2. PICK k \in Nat : /\ k = KeyAt(t) /\ o < k /\ t[k] = "k1" /\ t[k + 1] = "k2"
                       /\ \A i \in 1..(k - 1) : ~(t[i] = "k1" /\ t[i + 1] = "k2")
  BY Places DEF Layout
<1>3. PICK at : at = Find(r, Marker, 1) OBVIOUS
<1>4. \/ at = 0 /\ \A i \in 1..(f - o - 1) : ~(r[i] = "k1" /\ r[i + 1] = "k2")
      \/ /\ at \in 1..(f - o - 1) /\ r[at] = "k1" /\ r[at + 1] = "k2"
         /\ \A i \in 1..(at - 1) : ~(r[i] = "k1" /\ r[i + 1] = "k2")
  <2>1. \/ at = 0 /\ \A i \in 1..(Len(r) - 1) : ~(r[i] = "k1" /\ r[i + 1] = "k2")
        \/ /\ at \in 1..(Len(r) - 1) /\ r[at] = "k1" /\ r[at + 1] = "k2"
           /\ \A i \in 1..(at - 1) : ~(r[i] = "k1" /\ r[i + 1] = "k2")
    BY ONLY <1>1, <1>3, FindMarker, Zenon
  <2> QED BY ONLY <1>1, <2>1, Zenon
<1>5. \A i \in 1..(f - o - 1) : r[i] = t[o + i] /\ r[i + 1] = t[o + i + 1]
  <2>1. \A i \in 1..(f - o - 1) : i \in 1..(f - o) /\ i + 1 \in 1..(f - o) /\ o + (i + 1) = o + i + 1
    BY <1>1
  <2> QED BY <1>1, <2>1
<1>6. CASE k < f
  <2>1. k - o \in 1..(f - o - 1) /\ o + (k - o) = k BY <1>1, <1>2, <1>6
  <2>2. r[k - o] = "k1" /\ r[k - o + 1] = "k2" BY <1>2, <1>5, <2>1
  <2>3. /\ at \in 1..(f - o - 1) /\ r[at] = "k1" /\ r[at + 1] = "k2"
        /\ \A i \in 1..(at - 1) : ~(r[i] = "k1" /\ r[i + 1] = "k2")
    BY <1>1, <1>4, <2>1, <2>2
  <2>4. at <= k - o
    <3> SUFFICES ASSUME ~(at <= k - o) PROVE FALSE OBVIOUS
    <3>1. k - o \in 1..(at - 1) BY <1>1, <2>1, <2>3
    <3> QED BY <2>2, <2>3, <3>1
  <2>5. k - o <= at
    <3> SUFFICES ASSUME ~(k - o <= at) PROVE FALSE OBVIOUS
    <3>1. o + at \in 1..(k - 1) BY <1>1, <1>2, <2>1, <2>3
    <3>2. t[o + at] = "k1" /\ t[o + at + 1] = "k2" BY <1>5, <2>3
    <3> QED BY <1>2, <3>1, <3>2
  <2>6. at = k - o BY <1>2, <2>1, <2>3, <2>4, <2>5
  <2> QED BY ONLY <1>2, <1>3, <1>6, <2>6, f \in Nat
<1>7. CASE ~(k < f)
  <2>1. \A i \in 1..(f - o - 1) : o + i \in 1..(k - 1) BY <1>1, <1>2, <1>7
  <2>2. \A i \in 1..(f - o - 1) : ~(r[i] = "k1" /\ r[i + 1] = "k2") BY <1>2, <1>5, <2>1
  <2>3. at = 0 BY <1>1, <1>4, <2>2
  <2> QED BY ONLY <1>2, <1>3, <1>7, <2>3, f \in Nat
<1> QED BY <1>6, <1>7

Extractors == [buffer : Texts, inValue : BOOLEAN, done : BOOLEAN, escaped : BOOLEAN]

\* Before the value: either it has not begun yet, and enough is kept to see it
\* begin, or the loop runs from its first symbol.
LEMMA SeekReads ==
  ASSUME NEW t, Layout(t), NEW f \in Nat, NEW g \in Nat, f <= g, g <= Len(t),
         NEW state, Sought(t, f, state.buffer)
  PROVE  \/ /\ g < QuoteAt(t)
            /\ \E rest \in Texts :
                 /\ Sought(t, g, rest)
                 /\ Seek(state, SubSeq(t, f + 1, g)) = Passing([state EXCEPT !.buffer = rest], <<>>)
         \/ /\ g >= QuoteAt(t)
            /\ Seek(state, SubSeq(t, f + 1, g)) = Scan(state, SubSeq(t, QuoteAt(t) + 1, g))
<1>1. PICK l \in Nat, k \in Nat \ {0}, c \in Nat \ {0}, p \in Nat \ {0}, e \in Nat \ {0} :
        /\ l = Len(t) /\ k = KeyAt(t) /\ c = ColonAt(t) /\ p = QuoteAt(t) /\ e = EndAt(t)
        /\ t \in Texts
        /\ k + 2 <= c /\ c <= p /\ p < e /\ e <= l
  BY ONLY Places, Layout(t), Zenon
<1>2. /\ l = Len(t) /\ k = KeyAt(t) /\ c = ColonAt(t) /\ p = QuoteAt(t) /\ t \in Texts
      /\ k + 2 <= c /\ c <= p /\ p <= l /\ g <= l
      /\ t[c] = ":" /\ (\A i \in (k + 2)..(c - 1) : t[i] # ":")
      /\ t[p] = "q" /\ (\A i \in c..(p - 1) : t[i] # "q")
  <2>1. p <= l /\ g <= l BY <1>1
  <2>2. /\ t[ColonAt(t)] = ":" /\ (\A i \in (KeyAt(t) + 2)..(ColonAt(t) - 1) : t[i] # ":")
        /\ t[QuoteAt(t)] = "q" /\ (\A i \in ColonAt(t)..(QuoteAt(t) - 1) : t[i] # "q")
    BY ONLY Layout(t), Zenon DEF Layout
  <2>3. t[c] = ":" /\ \A i \in (k + 2)..(c - 1) : t[i] # ":" BY ONLY <1>1, <2>2, Zenon
  <2>4. t[p] = "q" /\ \A i \in c..(p - 1) : t[i] # "q" BY ONLY <1>1, <2>2, Zenon
  <2> QED BY ONLY <1>1, <2>1, <2>3, <2>4, Zenon
<1>3. PICK had \in Texts, h \in Nat :
        /\ had = state.buffer /\ h = Len(had) /\ f < p /\ h <= f /\ had = SubSeq(t, f - h + 1, f)
        /\ h = IF f <= k THEN (IF f <= 2 THEN f ELSE 2) ELSE f - k + 1
  <2>1. PICK had \in Texts : had = state.buffer BY DEF Sought
  <2>2. Len(had) \in Nat BY DEF Texts
  <2>3. Sought(t, f, had) BY <2>1
  <2>4. PICK h \in Nat : h = Len(had) BY <2>2
  <2>5. /\ f < p /\ h <= f /\ had = SubSeq(t, f - h + 1, f)
        /\ h = IF f <= k THEN (IF f <= 2 THEN f ELSE 2) ELSE f - k + 1
    BY ONLY <1>2, <2>3, <2>4, Zenon DEF Sought
  <2> QED BY ONLY <2>1, <2>4, <2>5, Zenon
<1>4. PICK o \in Nat : o = f - h /\ o < k /\ o <= f /\ o <= g
  BY <1>3
<1>5. PICK r \in Texts : /\ r = SubSeq(t, o + 1, g) /\ Len(r) = g - o
                         /\ \A i \in 1..(g - o) : r[i] = t[o + i]
  <2>1. o + 1 \in 1..(Len(t) + 1) /\ g \in ((o + 1) - 1)..Len(t) /\ t \in Texts BY <1>2, <1>4
  <2>2. \E q \in Texts : /\ q = SubSeq(t, o + 1, g) /\ Len(q) = g - (o + 1) + 1
                         /\ \A i \in 1..(g - (o + 1) + 1) : q[i] = t[(o + 1) + i - 1]
    BY ONLY <2>1, Stretch, Zenon
  <2>3. PICK q \in Texts : /\ q = SubSeq(t, o + 1, g) /\ Len(q) = g - (o + 1) + 1
                          /\ \A i \in 1..(g - (o + 1) + 1) : q[i] = t[(o + 1) + i - 1]
    BY ONLY <2>2, Zenon
  <2>4. g - (o + 1) + 1 = g - o /\ \A i \in 1..(g - o) : (o + 1) + i - 1 = o + i BY <1>4
  <2>5. Len(q) = g - o BY ONLY <2>3, <2>4, Zenon
  <2>6. \A i \in 1..(g - o) : q[i] = t[o + i] BY ONLY <2>3, <2>4, Zenon
  <2> QED BY ONLY <2>3, <2>5, <2>6, q \in Texts, Zenon
<1>6. state.buffer \o SubSeq(t, f + 1, g) = r
  <2>1. /\ t \in Seq(Symbols) /\ o + 1 \in 1..(Len(t) + 1) /\ f \in ((o + 1) - 1)..Len(t)
        /\ g \in f..Len(t)
    BY <1>2, <1>4 DEF Texts
  <2>2. SubSeq(t, o + 1, f) \o SubSeq(t, f + 1, g) = SubSeq(t, o + 1, g)
    BY ONLY <2>1, ConcatAdjacentSubSeq, Zenon
  <2>3. state.buffer = SubSeq(t, o + 1, f) BY ONLY <1>3, <1>4, Zenon
  <2> QED BY ONLY <1>5, <2>2, <2>3, Zenon
<1>7. t \in Texts /\ o \in Nat /\ g \in Nat /\ o <= g /\ g <= Len(t)
  BY ONLY <1>2, <1>4, o \in Nat, g \in Nat, Zenon
<1>8. r = SubSeq(t, o + 1, g) /\ IsStretch(r, t, o, g)
  BY ONLY <1>2, <1>4, <1>5, o \in Nat, g \in Nat, r \in Texts, Zenon DEF IsStretch
<1>9. PICK key, colon, quote :
        /\ key = Find(r, Marker, 1)
        /\ colon = IF key = 0 THEN 0 ELSE Find(r, <<":">>, key + Len(Marker))
        /\ quote = IF colon = 0 THEN 0 ELSE Find(r, <<"q">>, colon)
  OBVIOUS
<1>10. Seek(state, SubSeq(t, f + 1, g)) =
         IF key = 0 THEN Passing([state EXCEPT !.buffer = LastOf(r, Len(Marker))], <<>>)
         ELSE IF quote = 0 THEN Passing([state EXCEPT !.buffer = From(r, key)], <<>>)
         ELSE Scan(state, From(r, quote + 1))
  BY ONLY <1>6, <1>9, Zenon DEF Seek
<1>11. Len(Marker) = 2 BY DEF Marker
<1>12. key = IF g <= k THEN 0 ELSE k - o
  <2>1. Find(r, Marker, 1) = IF g <= KeyAt(t) THEN 0 ELSE KeyAt(t) - o
    BY ONLY <1>2, <1>4, <1>7, <1>8, Layout(t), MarkerIn, Zenon
  <2> QED BY ONLY <1>2, <1>9, <2>1, Zenon
<1>13. CASE g <= k
  <2>1. PICK rest \in Texts : /\ rest = LastOf(r, 2) /\ rest = SubSeq(t, g - Len(rest) + 1, g)
                              /\ Len(rest) = IF g <= 2 THEN g ELSE 2
    <3>1. CASE g - o <= 2
      <4>1. LastOf(r, 2) = r BY ONLY <1>5, <3>1 DEF LastOf
      <4>2. g - o = IF g <= 2 THEN g ELSE 2 BY <1>3, <1>4, <1>13, <3>1
      <4>3. g - (g - o) + 1 = o + 1 BY <1>4
      <4> QED BY ONLY <1>5, <4>1, <4>2, <4>3, r \in Texts
    <3>2. CASE ~(g - o <= 2)
      <4>1. LastOf(r, 2) = SubSeq(r, g - o - 1, g - o)
        <5>1. (g - o) - 2 + 1 = g - o - 1 BY <1>4
        <5> QED BY ONLY <1>5, <3>2, <5>1 DEF LastOf
      <4>2. SubSeq(r, g - o - 1, g - o) = SubSeq(t, g - 1, g)
        <5>1. PICK a \in 1..(g - o + 1) : a = g - o - 1 /\ o + a = g - 1 BY <1>4, <3>2
        <5>2. SubSeq(SubSeq(t, o + 1, g), a, g - o) = SubSeq(t, o + a, g)
          <6>1. Starts(t, o, g, a) BY ONLY <1>7, a \in 1..(g - o + 1), Zenon DEF Starts
          <6>2. SameEnd(t, o, g, a) BY ONLY <6>1, StretchOf, Zenon
          <6> QED BY ONLY <6>2, Zenon DEF SameEnd
        <5> QED BY ONLY <1>8, <5>1, <5>2, Zenon
      <4>3. g - 1 \in 1..(Len(t) + 1) /\ g \in ((g - 1) - 1)..Len(t) /\ g - (g - 1) + 1 = 2
            /\ ~(g <= 2) /\ g - 2 + 1 = g - 1
        BY <1>2, <1>4, <3>2
      <4>4. \E q \in Texts : /\ q = SubSeq(t, g - 1, g) /\ Len(q) = g - (g - 1) + 1
                             /\ \A i \in 1..(g - (g - 1) + 1) : q[i] = t[(g - 1) + i - 1]
        BY ONLY <1>7, <4>3, Stretch, Zenon
      <4> QED BY ONLY <4>1, <4>2, <4>3, <4>4, Zenon
    <3> QED BY <3>1, <3>2
  <2>2. Sought(t, g, rest)
    <3>1. g < p /\ Len(rest) <= g BY <1>2, <1>13, <2>1
    <3> QED BY ONLY <1>2, <1>13, <2>1, <3>1, rest \in Texts DEF Sought
  <2>3. Seek(state, SubSeq(t, f + 1, g)) = Passing([state EXCEPT !.buffer = rest], <<>>)
    BY ONLY <1>10, <1>11, <1>12, <1>13, <2>1, Zenon
  <2> QED BY ONLY <1>2, <2>2, <2>3, rest \in Texts, Zenon DEF Sought
<1>14. CASE ~(g <= k)
  <2>1. key = k - o /\ key # 0 /\ key + Len(Marker) = (k + 2) - o BY <1>4, <1>11, <1>12, <1>14
  <2>2. colon = IF c <= g THEN c - o ELSE 0
    <3>1. PICK x, s, part : x = ":" /\ s = k + 2 /\ part = <<x>> OBVIOUS
    <3>2. s \in Nat /\ o < s BY <1>4, <3>1
    <3>3. FirstFrom(t, x, s, c) BY ONLY <1>2, <3>1, Zenon DEF FirstFrom
    <3>4. Find(r, part, s - o) = IF c <= g THEN c - o ELSE 0
      <4>1. o \in Nat /\ g \in Nat /\ IsStretch(r, t, o, g) /\ part = <<x>> BY ONLY <1>7, <1>8, <3>1, Zenon
      <4> QED BY ONLY <3>2, <3>3, <4>1, c \in Nat, FindIn
    <3> QED BY ONLY <1>9, <2>1, <3>1, <3>4, Zenon
  <2>3. quote = IF p <= g THEN p - o ELSE 0
    <3>1. CASE c <= g
      <4>1. colon = c - o /\ colon # 0 /\ c \in Nat /\ o < c BY <1>2, <1>4, <2>2, <3>1
      <4>2. PICK x, part : x = "q" /\ part = <<x>> OBVIOUS
      <4>3. FirstFrom(t, x, c, p) BY ONLY <1>2, <4>2, Zenon DEF FirstFrom
      <4>4. Find(r, part, c - o) = IF p <= g THEN p - o ELSE 0
        <5>1. o \in Nat /\ g \in Nat /\ IsStretch(r, t, o, g) /\ part = <<x>>
          BY ONLY <1>7, <1>8, <4>2, Zenon
        <5>2. c \in Nat /\ p \in Nat /\ o < c BY <4>1
        <5> QED BY ONLY <4>3, <5>1, <5>2, FindIn
      <4> QED BY ONLY <1>9, <4>1, <4>2, <4>4, Zenon
    <3>2. CASE ~(c <= g)
      <4>1. colon = 0 /\ ~(p <= g) BY <1>2, <2>2, <3>2
      <4> QED BY ONLY <1>9, <4>1
    <3> QED BY <3>1, <3>2
  <2>4. CASE g < p
    <3>1. quote = 0 BY <2>3, <2>4
    <3>2. PICK rest \in Texts : /\ rest = From(r, k - o) /\ rest = SubSeq(t, k, g)
                                /\ Len(rest) = g - k + 1
      <4>1. k - o \in 1..(g - o + 1) /\ o + (k - o) = k BY <1>4, <1>14
      <4>2. From(r, k - o) = SubSeq(r, k - o, g - o) BY ONLY <1>5 DEF From
      <4>3. SubSeq(r, k - o, g - o) = SubSeq(t, k, g)
        <5>1. PICK a \in 1..(g - o + 1) : a = k - o /\ o + a = k BY <4>1
        <5>2. SubSeq(SubSeq(t, o + 1, g), a, g - o) = SubSeq(t, o + a, g)
          <6>1. Starts(t, o, g, a) BY ONLY <1>7, a \in 1..(g - o + 1), Zenon DEF Starts
          <6>2. SameEnd(t, o, g, a) BY ONLY <6>1, StretchOf, Zenon
          <6> QED BY ONLY <6>2, Zenon DEF SameEnd
        <5> QED BY ONLY <1>8, <5>1, <5>2, Zenon
      <4>4. k \in 1..(Len(t) + 1) /\ g \in (k - 1)..Len(t) BY <1>2, <1>14
      <4>5. \E q \in Texts : q = SubSeq(t, k, g) /\ Len(q) = g - k + 1
        <5>1. \E q \in Texts : /\ q = SubSeq(t, k, g) /\ Len(q) = g - k + 1
                              /\ \A i \in 1..(g - k + 1) : q[i] = t[k + i - 1]
          BY ONLY <1>7, <4>4, Stretch, Zenon
        <5> QED BY ONLY <5>1, Zenon
      <4> QED BY ONLY <4>2, <4>3, <4>5, Zenon
    <3>3. Sought(t, g, rest)
      <4>1. g - (g - k + 1) + 1 = k /\ g - k + 1 <= g BY <1>14
      <4> QED BY ONLY <1>2, <1>14, <2>4, <3>2, <4>1, rest \in Texts DEF Sought
    <3>4. Seek(state, SubSeq(t, f + 1, g)) = Passing([state EXCEPT !.buffer = rest], <<>>)
      BY ONLY <1>10, <2>1, <3>1, <3>2, Zenon
    <3> QED BY ONLY <1>2, <2>4, <3>3, <3>4, rest \in Texts, Zenon
  <2>5. CASE ~(g < p)
    <3>1. quote = p - o /\ quote # 0 /\ p <= g BY <1>2, <1>4, <2>3, <2>5
    <3>2. From(r, quote + 1) = SubSeq(t, p + 1, g)
      <4>1. k + 2 <= c /\ c <= p /\ o < k /\ p <= g BY ONLY <1>1, <1>4, <3>1, Zenon
      <4>2. p - o + 1 \in 1..(g - o + 1) /\ o + (p - o + 1) = p + 1
        BY ONLY <4>1, o \in Nat, k \in Nat \ {0}, c \in Nat \ {0}, p \in Nat \ {0}, g \in Nat
      <4>3. From(r, quote + 1) = SubSeq(r, p - o + 1, g - o) BY ONLY <1>5, <3>1 DEF From
      <4>4. SubSeq(r, p - o + 1, g - o) = SubSeq(t, p + 1, g)
        <5>1. PICK a \in 1..(g - o + 1) : a = p - o + 1 /\ o + a = p + 1 BY <4>2
        <5>2. SubSeq(SubSeq(t, o + 1, g), a, g - o) = SubSeq(t, o + a, g)
          <6>1. Starts(t, o, g, a) BY ONLY <1>7, a \in 1..(g - o + 1), Zenon DEF Starts
          <6>2. SameEnd(t, o, g, a) BY ONLY <6>1, StretchOf, Zenon
          <6> QED BY ONLY <6>2, Zenon DEF SameEnd
        <5> QED BY ONLY <1>8, <5>1, <5>2, Zenon
      <4> QED BY ONLY <4>3, <4>4, Zenon
    <3>3. Seek(state, SubSeq(t, f + 1, g)) = Scan(state, SubSeq(t, p + 1, g))
      BY ONLY <1>10, <2>1, <3>1, <3>2, Zenon
    <3>4. g >= p BY <2>5
    <3> QED BY ONLY <1>2, <3>3, <3>4, Zenon
  <2> QED BY <2>4, <2>5
<1> QED BY <1>13, <1>14

\* Two texts, one after the other.
LEMMA JoinedText ==
  ASSUME NEW s \in Texts, NEW t \in Texts
  PROVE  \E u \in Texts : /\ u = s \o t /\ Len(s) \in Nat /\ Len(t) \in Nat /\ Len(u) = Len(s) + Len(t)
                          /\ \A i \in 1..Len(s) : u[i] = s[i]
                          /\ \A i \in 1..Len(t) : u[Len(s) + i] = t[i]
<1>1. PICK u : u = s \o t OBVIOUS
<1>2. /\ u \in Seq(Symbols) /\ Len(u) = Len(s) + Len(t)
      /\ \A i \in 1..Len(s) : u[i] = s[i]
      /\ \A i \in 1..Len(t) : u[Len(s) + i] = t[i]
  <2>1. s \in Seq(Symbols) /\ t \in Seq(Symbols) BY DEF Texts
  <2> QED BY ONLY <1>1, <2>1, Joined
<1>3. Len(s) \in Nat /\ Len(t) \in Nat BY DEF Texts
<1> QED BY ONLY <1>1, <1>2, <1>3, Zenon DEF Texts

\* The symbols of the frame, and the texts the model may send.
LEMMA Literals ==
  /\ {"k1", "k2", "x", ":", "q"} \subseteq Symbols
  /\ \A q \in Seq(STRING) : q \in Texts
<1>1. {"k1", "k2", "x", ":", "q"} \subseteq Symbols BY DEF Symbols
<1>2. ASSUME NEW q \in Seq(STRING) PROVE q \in Texts
  <2>1. PICK S, T : S = STRING /\ T = Symbols OBVIOUS
  <2>2. S \subseteq T BY <2>1 DEF Symbols
  <2>3. q \in Seq(S) BY <2>1
  <2>4. q \in Seq(T) BY ONLY <2>2, <2>3
  <2> QED BY <2>1, <2>4 DEF Texts
<1> QED BY <1>1, <1>2

\* A response has a value.
LEMMA ResponseHasValue ==
  ASSUME NEW pre \in Preambles, NEW body \in Values, NEW spaced \in BOOLEAN, NEW t,
         t = pre \o Marker \o (IF spaced THEN <<"x", ":", "x">> ELSE <<":">>)
               \o <<"q">> \o body \o <<"q", "x", "q">>
  PROVE  Layout(t) /\ t # <<>>
<1>1. PICK a \in Texts, v \in Texts : a = pre /\ v = body
  <2>1. pre \in Seq(STRING) /\ body \in Seq(STRING) BY StreamTextAssumption
  <2> QED BY ONLY <2>1, Literals, Zenon
<1>2. PICK m \in Texts : m = Marker /\ Len(m) = 2 /\ m[1] = "k1" /\ m[2] = "k2"
  <2>1. Marker \in Texts BY Literals DEF Texts, Marker
  <2>2. Len(Marker) = 2 /\ Marker[1] = "k1" /\ Marker[2] = "k2" BY DEF Marker
  <2> QED BY ONLY <2>1, <2>2, Zenon
<1>3. PICK z \in Texts, d \in Nat \ {0} :
        /\ z = (IF spaced THEN <<"x", ":", "x">> ELSE <<":">>)
        /\ d <= Len(z) /\ z[d] = ":"
  <2>1. CASE spaced
    <3>1. <<"x", ":", "x">> \in Texts BY Literals DEF Texts
    <3>2. 2 <= Len(<<"x", ":", "x">>) /\ <<"x", ":", "x">>[2] = ":" /\ 2 \in Nat \ {0} OBVIOUS
    <3> QED BY ONLY <2>1, <3>1, <3>2, Zenon
  <2>2. CASE ~spaced
    <3>1. <<":">> \in Texts BY Literals DEF Texts
    <3>2. 1 <= Len(<<":">>) /\ <<":">>[1] = ":" /\ 1 \in Nat \ {0} OBVIOUS
    <3> QED BY ONLY <2>2, <3>1, <3>2, Zenon
  <2> QED BY <2>1, <2>2
<1>4. PICK h \in Texts : h = <<"q">> /\ Len(h) = 1 /\ h[1] = "q"
  <2>1. <<"q">> \in Texts BY Literals DEF Texts
  <2>2. Len(<<"q">>) = 1 /\ <<"q">>[1] = "q" OBVIOUS
  <2> QED BY ONLY <2>1, <2>2, Zenon
<1>5. PICK e \in Texts : /\ e = <<"q", "x", "q">> /\ Len(e) = 3
                         /\ e[1] = "q" /\ e[2] = "x" /\ e[3] = "q"
  <2>1. <<"q", "x", "q">> \in Texts BY Literals DEF Texts
  <2>2. /\ Len(<<"q", "x", "q">>) = 3 /\ <<"q", "x", "q">>[1] = "q"
        /\ <<"q", "x", "q">>[2] = "x" /\ <<"q", "x", "q">>[3] = "q" OBVIOUS
  <2> QED BY ONLY <2>1, <2>2, Zenon
<1>6. t = a \o m \o z \o h \o v \o e BY ONLY <1>1, <1>2, <1>3, <1>4, <1>5, Zenon,
        t = pre \o Marker \o (IF spaced THEN <<"x", ":", "x">> ELSE <<":">>)
               \o <<"q">> \o body \o <<"q", "x", "q">>
<1>7. PICK u1 \in Texts :
        /\ u1 = a \o m /\ Len(a) \in Nat /\ Len(m) \in Nat /\ Len(u1) = Len(a) + Len(m)
        /\ \A i \in 1..Len(a) : u1[i] = a[i]
        /\ \A i \in 1..Len(m) : u1[Len(a) + i] = m[i]
  BY ONLY JoinedText, a \in Texts, m \in Texts, Zenon
<1>8. PICK u2 \in Texts :
        /\ u2 = u1 \o z /\ Len(u1) \in Nat /\ Len(z) \in Nat /\ Len(u2) = Len(u1) + Len(z)
        /\ \A i \in 1..Len(u1) : u2[i] = u1[i]
        /\ \A i \in 1..Len(z) : u2[Len(u1) + i] = z[i]
  BY ONLY JoinedText, u1 \in Texts, z \in Texts, Zenon
<1>9. PICK u3 \in Texts :
        /\ u3 = u2 \o h /\ Len(u2) \in Nat /\ Len(h) \in Nat /\ Len(u3) = Len(u2) + Len(h)
        /\ \A i \in 1..Len(u2) : u3[i] = u2[i]
        /\ \A i \in 1..Len(h) : u3[Len(u2) + i] = h[i]
  BY ONLY JoinedText, u2 \in Texts, h \in Texts, Zenon
<1>10. PICK u4 \in Texts :
        /\ u4 = u3 \o v /\ Len(u3) \in Nat /\ Len(v) \in Nat /\ Len(u4) = Len(u3) + Len(v)
        /\ \A i \in 1..Len(u3) : u4[i] = u3[i]
        /\ \A i \in 1..Len(v) : u4[Len(u3) + i] = v[i]
  BY ONLY JoinedText, u3 \in Texts, v \in Texts, Zenon
<1>11. PICK u \in Texts :
        /\ u = u4 \o e /\ Len(u4) \in Nat /\ Len(e) \in Nat /\ Len(u) = Len(u4) + Len(e)
        /\ \A i \in 1..Len(u4) : u[i] = u4[i]
        /\ \A i \in 1..Len(e) : u[Len(u4) + i] = e[i]
  BY ONLY JoinedText, u4 \in Texts, e \in Texts, Zenon
<1>12. u = t BY ONLY <1>6, <1>7, <1>8, <1>9, <1>10, <1>11, Zenon
<1>13. PICK n \in Nat, w \in Nat, y \in Nat : n = Len(a) /\ w = Len(z) /\ y = Len(v)
  BY <1>7, <1>8, <1>10
<1>14. /\ Len(u1) = n + 2 /\ Len(u2) = n + 2 + w /\ Len(u3) = n + w + 3
       /\ Len(u4) = n + w + y + 3 /\ Len(u) = n + w + y + 6 /\ d <= w
  <2>1. /\ Len(u1) = n + 2 /\ Len(u2) = Len(u1) + w /\ Len(u3) = Len(u2) + 1 /\ d <= w
        /\ Len(u4) = Len(u3) + y /\ Len(u) = Len(u4) + 3
    <3>1. Len(u1) = n + 2 BY ONLY <1>2, <1>7, <1>13, Zenon
    <3>2. Len(u2) = Len(u1) + w /\ d <= w BY ONLY <1>3, <1>8, <1>13, Zenon
    <3>3. Len(u3) = Len(u2) + 1 BY ONLY <1>4, <1>9, Zenon
    <3>4. Len(u4) = Len(u3) + y BY ONLY <1>10, <1>13, Zenon
    <3>5. Len(u) = Len(u4) + 3 BY ONLY <1>5, <1>11, Zenon
    <3> QED BY ONLY <3>1, <3>2, <3>3, <3>4, <3>5, Zenon
  <2> QED BY <2>1
<1>15. \A i \in 1..(n + w + 3) : u[i] = u3[i] BY <1>10, <1>11, <1>14
<1>16. \A i \in 1..(n + 2 + w) : u[i] = u2[i] BY <1>9, <1>14, <1>15
<1>17. u[n + 1] = "k1" /\ u[n + 2] = "k2"
  <2>1. u1[n + 1] = "k1" /\ u1[n + 2] = "k2" BY <1>2, <1>7, <1>13
  <2> QED BY <2>1, <1>8, <1>14, <1>16
<1>18. u[n + 2 + d] = ":"
  <2>1. u2[n + 2 + d] = ":"
    <3>1. d \in 1..Len(z) /\ Len(u1) + d = n + 2 + d BY <1>13, <1>14
    <3> QED BY ONLY <1>3, <1>8, <3>1, Zenon
  <2>2. n + 2 + d \in 1..(n + 2 + w) BY <1>14
  <2> QED BY ONLY <1>16, <2>1, <2>2, Zenon
<1>19. u[n + w + 3] = "q"
  <2>1. u3[n + 2 + w + 1] = "q" BY <1>4, <1>9, <1>14
  <2>2. n + 2 + w + 1 = n + w + 3 OBVIOUS
  <2> QED BY <1>15, <2>1, <2>2
<1>20. u[Len(u) - 1] = "x" /\ u[Len(u)] = "q"
  <2>1. Len(u4) + 2 = Len(u) - 1 /\ Len(u4) + 3 = Len(u) BY <1>14
  <2> QED BY <1>5, <1>11, <2>1
<1>21. PICK k \in Nat \ {0}, c \in Nat, o \in Nat :
         k = n + 1 /\ k + 1 = n + 2 /\ c = n + 2 + d /\ o = n + w + 3
  OBVIOUS
<1>22. Layout(u)
  <2>1. k + 2 <= c /\ c <= o /\ o + 3 <= Len(u) BY <1>14, <1>21
  <2>2. /\ u[k] = "k1" /\ u[k + 1] = "k2" /\ u[c] = ":" /\ u[o] = "q"
    BY ONLY <1>17, <1>18, <1>19, <1>21
  <2> QED BY ONLY <1>20, <2>1, <2>2, LayoutOf, u \in Texts, k \in Nat \ {0}, c \in Nat, o \in Nat
<1>23. u # <<>> BY <1>14
<1> QED BY ONLY <1>12, <1>22, <1>23, Zenon

\* What the extractor has of the first f symbols of a response.
HasRead(t, f, s, told) ==
  /\ s \in Extractors
  /\ \/ /\ s.done /\ ~s.inValue /\ told = SubSeq(t, QuoteAt(t) + 1, EndAt(t) - 1)
     \/ /\ ~s.done /\ s.inValue /\ QuoteAt(t) <= f /\ f < EndAt(t)
        /\ told = SubSeq(t, QuoteAt(t) + 1, f)
        /\ s.escaped <=> Escaped(t, f + 1)
     \/ /\ ~s.done /\ ~s.inValue /\ ~s.escaped /\ told = <<>> /\ Sought(t, f, s.buffer)

\* The extractor a call leaves has the call's fields.
LEMMA FieldsOf ==
  ASSUME NEW s \in Extractors, NEW x, NEW y, y = [field \in DOMAIN s |-> x[field]]
  PROVE  y = [buffer |-> x.buffer, inValue |-> x.inValue, done |-> x.done, escaped |-> x.escaped]
<1>1. DOMAIN s = {"buffer", "inValue", "done", "escaped"} BY DEF Extractors
<1> QED BY <1>1

\* A call that passes nothing on.
LEMMA NothingOut ==
  ASSUME NEW s \in Extractors, NEW x, x = Passing(s, <<>>)
  PROVE  /\ x.buffer = s.buffer /\ x.inValue = s.inValue /\ x.done = s.done
         /\ x.escaped = s.escaped /\ x.out = <<>>
<1>1. DOMAIN s = {"buffer", "inValue", "done", "escaped"} BY DEF Extractors
<1>2. x = [field \in {"buffer", "inValue", "done", "escaped", "out"} |->
             IF field = "out" THEN <<>> ELSE s[field]]
  BY <1>1 DEF Passing
<1> QED BY <1>2

\* The loop goes on from where the value was left.
LEMMA ScanGoesOn ==
  ASSUME NEW t, Layout(t), NEW f \in Nat, NEW g \in Nat, QuoteAt(t) <= f, f < EndAt(t), f <= g, g <= Len(t),
         NEW s, s.escaped \in BOOLEAN, s.escaped <=> Escaped(t, f + 1),
         NEW x, x = Scan(s, SubSeq(t, f + 1, g)),
         NEW y, y = [buffer |-> x.buffer, inValue |-> x.inValue, done |-> x.done, escaped |-> x.escaped]
  PROVE  HasRead(t, g, y, SubSeq(t, QuoteAt(t) + 1, f) \o x.out)
<1>1. PICK l \in Nat, p \in Nat \ {0}, e \in Nat \ {0} :
        l = Len(t) /\ p = QuoteAt(t) /\ e = EndAt(t) /\ t \in Texts /\ p < e /\ e <= l
  BY ONLY Places, Layout(t), Zenon
<1>2. /\ x \in Scans
      /\ g < e => ~x.done /\ x.inValue /\ x.out = SubSeq(t, f + 1, g) /\ (x.escaped <=> Escaped(t, g + 1))
      /\ g >= e => x.done /\ ~x.inValue /\ x.out = SubSeq(t, f + 1, e - 1)
  <2>1. PICK i : i = f + 1 /\ i \in (QuoteAt(t) + 1)..EndAt(t) /\ g \in (i - 1)..Len(t)
    BY <1>1
  <2>2. s.escaped <=> Escaped(t, i) BY ONLY <2>1, s.escaped <=> Escaped(t, f + 1), Zenon
  <2>3. \E z \in Scans :
           /\ z = Scan(s, SubSeq(t, i, g))
           /\ g < EndAt(t) => /\ ~z.done /\ z.inValue /\ z.out = SubSeq(t, i, g)
                              /\ z.escaped <=> Escaped(t, g + 1)
           /\ g >= EndAt(t) => z.done /\ ~z.inValue /\ z.out = SubSeq(t, i, EndAt(t) - 1)
    BY ONLY <2>1, <2>2, Layout(t), s.escaped \in BOOLEAN, ScanReads
  <2> QED BY ONLY <1>1, <2>1, <2>3, x = Scan(s, SubSeq(t, f + 1, g)), Zenon
<1>3. y \in Extractors /\ y.done = x.done /\ y.inValue = x.inValue /\ y.escaped = x.escaped
  <2>1. x.buffer \in Texts /\ x.inValue \in BOOLEAN /\ x.done \in BOOLEAN /\ x.escaped \in BOOLEAN
    <3>1. <<>> \in Texts BY DEF Texts
    <3> QED BY <1>2, <3>1 DEF Scans
  <2> QED BY <2>1 DEF Extractors
<1>4. \A j \in f..l : SubSeq(t, p + 1, f) \o SubSeq(t, f + 1, j) = SubSeq(t, p + 1, j)
  <2> TAKE j \in f..l
  <2>1. t \in Seq(Symbols) /\ p + 1 \in 1..(Len(t) + 1) /\ f \in ((p + 1) - 1)..Len(t) /\ j \in f..Len(t)
    BY <1>1 DEF Texts
  <2> QED BY ONLY <2>1, ConcatAdjacentSubSeq, Zenon
<1>5. CASE g < e
  <2>1. SubSeq(t, p + 1, f) \o x.out = SubSeq(t, p + 1, g)
    <3>1. g \in f..l BY <1>1
    <3> QED BY ONLY <1>2, <1>4, <1>5, <3>1, Zenon
  <2>2. QuoteAt(t) <= g BY <1>1
  <2> QED BY ONLY <1>1, <1>2, <1>3, <1>5, <2>1, <2>2, Zenon DEF HasRead
<1>6. CASE ~(g < e)
  <2>1. e - 1 \in f..l /\ g >= e BY <1>1, <1>6
  <2>2. SubSeq(t, p + 1, f) \o x.out = SubSeq(t, p + 1, e - 1) BY ONLY <1>2, <1>4, <2>1, Zenon
  <2> QED BY ONLY <1>1, <1>2, <1>3, <2>1, <2>2, Zenon DEF HasRead
<1> QED BY <1>5, <1>6

\* feed
LEMMA FeedReads ==
  ASSUME NEW t, Layout(t), NEW f \in Nat, NEW g \in Nat, f <= g, g <= Len(t),
         NEW s, NEW told, HasRead(t, f, s, told), NEW chunk, chunk = SubSeq(t, f + 1, g),
         NEW x, x = IF s.done THEN Passing(s, <<>>)
                    ELSE IF s.inValue THEN Scan(s, chunk) ELSE Seek(s, chunk)
  PROVE  HasRead(t, g, [field \in DOMAIN s |-> x[field]], told \o x.out)
<1>1. s \in Extractors /\ s.escaped \in BOOLEAN BY DEF HasRead, Extractors
<1>2. PICK y : y = [field \in DOMAIN s |-> x[field]] OBVIOUS
<1>3. y = [buffer |-> x.buffer, inValue |-> x.inValue, done |-> x.done, escaped |-> x.escaped]
  BY ONLY <1>1, <1>2, FieldsOf
<1>4. ASSUME s.done PROVE HasRead(t, g, y, told \o x.out)
  <2>1. x.buffer = s.buffer /\ x.inValue = s.inValue /\ x.done = s.done
        /\ x.escaped = s.escaped /\ x.out = <<>>
    <3>1. x = Passing(s, <<>>) BY ONLY <1>4, Zenon, x = IF s.done THEN Passing(s, <<>>)
                    ELSE IF s.inValue THEN Scan(s, chunk) ELSE Seek(s, chunk)
    <3> QED BY ONLY <1>1, <3>1, NothingOut, Zenon
  <2>2. y = s BY <1>1, <1>3, <2>1 DEF Extractors
  <2>3. PICK k : k = SubSeq(t, QuoteAt(t) + 1, EndAt(t) - 1) OBVIOUS
  <2>4. told = k /\ ~s.inValue BY ONLY <1>4, <2>3, HasRead(t, f, s, told), Zenon DEF HasRead
  <2>5. told \o x.out = k
    <3>1. k \in Texts
      <4>1. QuoteAt(t) + 1 \in 1..(Len(t) + 1) /\ EndAt(t) - 1 \in ((QuoteAt(t) + 1) - 1)..Len(t)
            /\ t \in Texts
        BY Places
      <4> QED BY ONLY <2>3, <4>1, Stretch, Zenon
    <3>2. k \o <<>> = k
      <4>1. k \in Seq(Symbols) BY ONLY <3>1 DEF Texts
      <4> QED BY ONLY <4>1, ConcatEmptySeq
    <3> QED BY ONLY <2>1, <2>4, <3>2, Zenon
  <2> QED BY ONLY <1>1, <1>4, <2>2, <2>3, <2>4, <2>5, Zenon DEF HasRead
<1>5. ASSUME ~s.done, s.inValue PROVE HasRead(t, g, y, told \o x.out)
  <2>1. /\ QuoteAt(t) <= f /\ f < EndAt(t) /\ told = SubSeq(t, QuoteAt(t) + 1, f)
        /\ s.escaped <=> Escaped(t, f + 1)
    BY ONLY <1>5, HasRead(t, f, s, told), Zenon DEF HasRead
  <2>2. x = Scan(s, SubSeq(t, f + 1, g))
    BY ONLY <1>5, Zenon, chunk = SubSeq(t, f + 1, g), x = IF s.done THEN Passing(s, <<>>)
                    ELSE IF s.inValue THEN Scan(s, chunk) ELSE Seek(s, chunk)
  <2>3. /\ Layout(t) /\ f \in Nat /\ g \in Nat /\ f <= g /\ g <= Len(t) OBVIOUS
  <2>4. HasRead(t, g, y, SubSeq(t, QuoteAt(t) + 1, f) \o x.out)
    BY ONLY <1>1, <1>3, <2>1, <2>2, <2>3, ScanGoesOn
  <2> QED BY ONLY <2>1, <2>4, Zenon
<1>6. ASSUME ~s.done, ~s.inValue PROVE HasRead(t, g, y, told \o x.out)
  <2>1. ~s.escaped /\ told = <<>> /\ Sought(t, f, s.buffer)
    BY ONLY <1>6, HasRead(t, f, s, told), Zenon DEF HasRead
  <2>2. x = Seek(s, SubSeq(t, f + 1, g))
    BY ONLY <1>6, Zenon, chunk = SubSeq(t, f + 1, g), x = IF s.done THEN Passing(s, <<>>)
                    ELSE IF s.inValue THEN Scan(s, chunk) ELSE Seek(s, chunk)
  <2>3. /\ Layout(t) /\ f \in Nat /\ g \in Nat /\ f <= g /\ g <= Len(t) OBVIOUS
  <2>4. \/ /\ g < QuoteAt(t)
           /\ \E rest \in Texts : Sought(t, g, rest) /\ x = Passing([s EXCEPT !.buffer = rest], <<>>)
        \/ g >= QuoteAt(t) /\ x = Scan(s, SubSeq(t, QuoteAt(t) + 1, g))
    BY ONLY <2>1, <2>2, <2>3, SeekReads, Zenon
  <2>5. CASE \E rest \in Texts : Sought(t, g, rest) /\ x = Passing([s EXCEPT !.buffer = rest], <<>>)
    <3>1. PICK rest \in Texts : Sought(t, g, rest) /\ x = Passing([s EXCEPT !.buffer = rest], <<>>)
      BY <2>5
    <3>2. PICK z : z = [s EXCEPT !.buffer = rest] OBVIOUS
    <3>3. rest \in Texts /\ Sought(t, g, rest) /\ z = [s EXCEPT !.buffer = rest] /\ x = Passing(z, <<>>)
      BY ONLY <3>1, <3>2, rest \in Texts, Zenon
    <3>4. z \in Extractors /\ z.buffer = rest /\ z.done = s.done /\ z.inValue = s.inValue
          /\ z.escaped = s.escaped
      BY <1>1, <3>3 DEF Extractors
    <3>5. x.buffer = z.buffer /\ x.inValue = z.inValue /\ x.done = z.done
          /\ x.escaped = z.escaped /\ x.out = <<>>
      BY ONLY <3>3, <3>4, NothingOut, Zenon
    <3>6. y = z BY ONLY <1>3, <3>4, <3>5 DEF Extractors
    <3>7. told \o x.out = <<>> BY <2>1, <3>5
    <3> QED BY ONLY <1>6, <2>1, <3>3, <3>4, <3>6, <3>7, Zenon DEF HasRead
  <2>6. CASE g >= QuoteAt(t) /\ x = Scan(s, SubSeq(t, QuoteAt(t) + 1, g))
    <3>1. PICK p \in Nat : p = QuoteAt(t) /\ p \in 1..Len(t) /\ t \in Texts /\ p < EndAt(t) /\ p <= g
      BY <2>6, Places
    <3>2. ~Escaped(t, p + 1) BY ONLY <3>1, EscapedStep
    <3>3. QuoteAt(t) <= p /\ x = Scan(s, SubSeq(t, p + 1, g)) /\ (s.escaped <=> Escaped(t, p + 1))
      BY ONLY <2>1, <2>6, <3>1, <3>2, Places, Layout(t)
    <3>4. HasRead(t, g, y, SubSeq(t, QuoteAt(t) + 1, p) \o x.out)
      BY ONLY <1>1, <1>3, <2>3, <3>1, <3>3, p \in Nat, ScanGoesOn
    <3>5. SubSeq(t, QuoteAt(t) + 1, p) = told
      <4>1. SubSeq(t, p + 1, p) = <<>>
        <5>1. p + 1 \in Int /\ p \in Int /\ p < p + 1 OBVIOUS
        <5> QED BY ONLY <5>1, SubSeqEmpty
      <4> QED BY ONLY <2>1, <3>1, <4>1, Zenon
    <3> QED BY ONLY <3>4, <3>5, Zenon
  <2> QED BY ONLY <2>4, <2>5, <2>6, Zenon
<1> QED BY ONLY <1>1, <1>2, <1>4, <1>5, <1>6, Zenon

\* The theorem's invariant: what the extractor has of the response so far.
ReadInv ==
  \/ text = <<>> /\ fed = 0 /\ extractor = NewExtractor /\ emitted = <<>>
  \/ /\ text # <<>> /\ Layout(text) /\ fed \in Nat /\ fed <= Len(text)
     /\ HasRead(text, fed, extractor, emitted)

\* Before the first delta the key is still to be found.
LEMMA ReadBegins ==
  ASSUME NEW t, Layout(t)
  PROVE  HasRead(t, 0, NewExtractor, <<>>)
<1>1. PICK none \in Texts : none = <<>> /\ Len(none) = 0
  <2>1. <<>> \in Texts BY DEF Texts
  <2>2. Len(<<>>) = 0 OBVIOUS
  <2> QED BY ONLY <2>1, <2>2, Zenon
<1>2. none = SubSeq(t, 0 - 0 + 1, 0)
  <2>1. 0 - 0 + 1 \in Int /\ 0 \in Int /\ 0 < 0 - 0 + 1 OBVIOUS
  <2> QED BY ONLY <1>1, <2>1, SubSeqEmpty
<1>3. Sought(t, 0, none)
  <2>1. 0 < QuoteAt(t) /\ 0 <= KeyAt(t) BY Places
  <2>2. Len(none) <= 0 /\ Len(none) = IF 0 <= KeyAt(t) THEN (IF 0 <= 2 THEN 0 ELSE 2) ELSE 0 - KeyAt(t) + 1
    BY <1>1, <2>1
  <2>3. none = SubSeq(t, 0 - Len(none) + 1, 0) BY ONLY <1>1, <1>2, Zenon
  <2> QED BY ONLY <2>1, <2>2, <2>3, none \in Texts, Zenon DEF Sought
<1>4. PICK s \in Extractors : /\ s = NewExtractor /\ s.buffer = none
                              /\ ~s.done /\ ~s.inValue /\ ~s.escaped
  <2>1. /\ NewExtractor.buffer = <<>> /\ ~NewExtractor.done /\ ~NewExtractor.inValue
        /\ ~NewExtractor.escaped
    BY DEF NewExtractor
  <2>2. <<>> \in Texts BY <1>1
  <2>3. NewExtractor \in Extractors BY ONLY <2>2 DEF NewExtractor, Extractors
  <2> QED BY ONLY <1>1, <2>1, <2>3, Zenon
<1> QED BY ONLY <1>1, <1>3, <1>4, s \in Extractors, Zenon DEF HasRead

\* What has been read is right about the value.
LEMMA ReadIsRight ==
  ASSUME NEW t, Layout(t), NEW f \in Nat, f <= Len(t), NEW s, NEW told, HasRead(t, f, s, told)
  PROVE  /\ IsPrefix(told, SubSeq(t, QuoteAt(t) + 1, EndAt(t) - 1))
         /\ f = Len(t) => told = SubSeq(t, QuoteAt(t) + 1, EndAt(t) - 1)
<1>1. PICK value : value = SubSeq(t, QuoteAt(t) + 1, EndAt(t) - 1) OBVIOUS
<1>2. PICK l \in Nat, p \in Nat \ {0}, e \in Nat \ {0} :
        l = Len(t) /\ p = QuoteAt(t) + 1 /\ e = EndAt(t) /\ t \in Texts /\ p <= e /\ e <= l
  BY Places
<1>3. \A j \in (p - 1)..(e - 1) : IsPrefix(SubSeq(t, p, j), value)
  <2> TAKE j \in (p - 1)..(e - 1)
  <2>1. PICK u : u = SubSeq(t, p, j) OBVIOUS
  <2>2. u \in Texts /\ Len(u) = j - p + 1
    <3>1. p \in 1..(Len(t) + 1) /\ j \in (p - 1)..Len(t) BY <1>2
    <3>2. \E q \in Texts : /\ q = SubSeq(t, p, j) /\ Len(q) = j - p + 1
                           /\ \A i \in 1..(j - p + 1) : q[i] = t[p + i - 1]
      BY ONLY <1>2, <3>1, Stretch, Zenon
    <3> QED BY ONLY <2>1, <3>2, Zenon
  <2>3. value \in Texts /\ Len(value) = e - p
    <3>1. p \in 1..(Len(t) + 1) /\ e - 1 \in (p - 1)..Len(t) /\ (e - 1) - p + 1 = e - p BY <1>2
    <3>2. value = SubSeq(t, p, e - 1) BY ONLY <1>2, <1>1, Zenon
    <3>3. \E q \in Texts : /\ q = SubSeq(t, p, e - 1) /\ Len(q) = (e - 1) - p + 1
                           /\ \A i \in 1..((e - 1) - p + 1) : q[i] = t[p + i - 1]
      BY ONLY <1>2, <3>1, Stretch, Zenon
    <3> QED BY ONLY <3>1, <3>2, <3>3, Zenon
  <2>4. Len(u) <= Len(value) BY <1>2, <2>2, <2>3
  <2>5. SubSeq(u, 1, Len(u)) = SubSeq(value, 1, Len(u))
    <3>1. SubSeq(u, 1, Len(u)) = u
      <4>1. u \in Seq(Symbols) BY ONLY <2>2 DEF Texts
      <4> QED BY ONLY <4>1, SubSeqFull
    <3>2. CASE j = p - 1
      <4>1. Len(u) = 0 BY <2>2, <3>2
      <4>2. 1 \in Int /\ 0 \in Int /\ 0 < 1 OBVIOUS
      <4> QED BY ONLY <4>1, <4>2, SubSeqEmpty
    <3>3. CASE j # p - 1
      <4>1. PICK n : n = j - p + 1 OBVIOUS
      <4>2. l \in Nat /\ p \in Nat \ {0} /\ e \in Nat \ {0} /\ j \in (p - 1)..(e - 1) OBVIOUS
      <4>3. p <= j /\ j <= e - 1 /\ p <= e - 1 /\ e - 1 <= l BY ONLY <1>2, <3>3, <4>2
      <4>4. p \in 1..l /\ e - 1 \in 1..l BY ONLY <4>2, <4>3
      <4>5. 1 \in 1..((e - 1) - p + 1) /\ n \in 1..((e - 1) - p + 1) BY ONLY <4>1, <4>2, <4>3
      <4>6. p + 1 - 1 = p /\ p + n - 1 = j BY ONLY <4>1, <4>2, <4>3
      <4>7. /\ p \in 1..Len(t) /\ e - 1 \in 1..Len(t) /\ 1 \in 1..((e - 1) - p + 1)
            /\ n \in 1..((e - 1) - p + 1)
            /\ p + 1 - 1 = p /\ p + n - 1 = j
        BY ONLY <1>2, <4>4, <4>5, <4>6, Zenon
      <4>8. t \in Seq(Symbols) BY <1>2 DEF Texts
      <4>9. SubSeq(SubSeq(t, p, e - 1), 1, n) = SubSeq(t, p + 1 - 1, p + n - 1)
        BY ONLY <4>7, <4>8, SubSeqOfSubSeq
      <4>10. value = SubSeq(t, p, e - 1) BY ONLY <1>2, <1>1, Zenon
      <4>11. SubSeq(value, 1, n) = u BY ONLY <2>1, <4>7, <4>9, <4>10, Zenon
      <4> QED BY ONLY <2>2, <3>1, <4>1, <4>11, Zenon
    <3> QED BY <3>2, <3>3
  <2>6. IsPrefix(u, value) BY ONLY <2>4, <2>5, Zenon DEF IsPrefix
  <2> QED BY ONLY <2>1, <2>6, Zenon
<1>4. ASSUME told = SubSeq(t, QuoteAt(t) + 1, EndAt(t) - 1)
      PROVE  IsPrefix(told, value) /\ (f = Len(t) => told = value)
  <2>1. e - 1 \in (p - 1)..(e - 1) BY <1>2
  <2>2. told = value /\ told = SubSeq(t, p, e - 1)
    BY ONLY <1>2, <1>4, <1>1, Zenon
  <2> QED BY ONLY <1>3, <2>1, <2>2, Zenon
<1>5. ASSUME told = SubSeq(t, QuoteAt(t) + 1, f), QuoteAt(t) <= f, f < EndAt(t)
      PROVE  IsPrefix(told, value) /\ (f = Len(t) => told = value)
  <2>1. f \in (p - 1)..(e - 1) /\ f # Len(t)
    <3>1. p - 1 <= f BY Places, <1>2, <1>5
    <3> QED BY <1>2, <1>5, <3>1
  <2>2. told = SubSeq(t, p, f) BY ONLY <1>2, <1>5, Zenon
  <2> QED BY ONLY <1>3, <2>1, <2>2, Zenon
<1>6. ASSUME told = <<>>, Sought(t, f, s.buffer)
      PROVE  IsPrefix(told, value) /\ (f = Len(t) => told = value)
  <2>1. f # Len(t)
    <3>1. f < QuoteAt(t) BY <1>6 DEF Sought
    <3> QED BY <3>1, Places
  <2>2. p - 1 \in (p - 1)..(e - 1) BY <1>2
  <2>3. SubSeq(t, p, p - 1) = <<>>
    <3>1. p \in Int /\ p - 1 \in Int /\ p - 1 < p BY <1>2
    <3> QED BY ONLY <3>1, SubSeqEmpty
  <2> QED BY ONLY <1>3, <1>6, <2>1, <2>2, <2>3, Zenon
<1>7. IsPrefix(told, value) /\ (f = Len(t) => told = value)
  BY ONLY <1>4, <1>5, <1>6, HasRead(t, f, s, told), Zenon DEF HasRead
<1> QED BY ONLY <1>1, <1>7, Zenon

\* Every delta, and a response that begins, keeps the invariant.
LEMMA TextStep ==
  ASSUME ReadInv, StreamTextNext
  PROVE  ReadInv'
<1>1. ASSUME NEW pre \in Preambles, NEW body \in Values, NEW spaced \in BOOLEAN,
             BeginText(pre, body, spaced)
      PROVE  ReadInv'
  <2>1. fed = 0 /\ extractor = NewExtractor /\ emitted = <<>> BY ONLY <1>1, ReadInv DEF ReadInv, BeginText
  <2>2. fed' = 0 /\ extractor' = NewExtractor /\ emitted' = <<>> BY ONLY <1>1, <2>1, Zenon DEF BeginText
  <2>3. Layout(text') /\ text' # <<>>
    <3>1. PICK t : t = text' OBVIOUS
    <3>2. t = pre \o Marker \o (IF spaced THEN <<"x", ":", "x">> ELSE <<":">>)
               \o <<"q">> \o body \o <<"q", "x", "q">>
      BY ONLY <1>1, <3>1, Zenon DEF BeginText
    <3>3. Layout(t) /\ t # <<>>
      BY ONLY <3>2, ResponseHasValue, pre \in Preambles, body \in Values, spaced \in BOOLEAN, Zenon
    <3> QED BY ONLY <3>1, <3>2, <3>3, Zenon
  <2>4. HasRead(text', fed', extractor', emitted') BY ONLY <2>2, <2>3, ReadBegins, Zenon
  <2>5. fed' \in Nat /\ fed' <= Len(text') 
    <3>1. fed' \in Nat BY <2>2
    <3>2. Len(text') \in Nat BY ONLY <2>3, Places, Zenon
    <3> QED BY ONLY <2>2, <3>1, <3>2
  <2> QED BY ONLY <2>3, <2>4, <2>5, Zenon DEF ReadInv
<1>2. ASSUME NEW n \in 1..MaxDelta, Feed(n) PROVE ReadInv'
  <2>1. n \in Nat /\ n >= 1 BY StreamTextAssumption
  <2>2. text # <<>> /\ Layout(text) /\ fed \in Nat /\ fed <= Len(text)
        /\ HasRead(text, fed, extractor, emitted)
    <3>1. fed + n <= Len(text) BY ONLY <1>2, Zenon DEF Feed
    <3>2. ~(text = <<>> /\ fed = 0) BY <2>1, <3>1
    <3> QED BY ONLY <3>2, ReadInv, Zenon DEF ReadInv
  <2>3. PICK t, s, told : t = text /\ s = extractor /\ told = emitted OBVIOUS
  <2>4. PICK f \in Nat, g \in Nat : f = fed /\ g = fed + n
    <3>1. fed \in Nat /\ fed + n \in Nat BY <2>1, <2>2
    <3> QED BY ONLY <3>1, Zenon
  <2>5. t = text /\ f = fed /\ g = fed + n /\ s = extractor /\ told = emitted
    BY <2>3, <2>4
  <2>6. PICK chunk, x :
          /\ chunk = SubSeq(t, f + 1, g)
          /\ x = IF s.done THEN Passing(s, <<>>)
                 ELSE IF s.inValue THEN Scan(s, chunk) ELSE Seek(s, chunk)
    OBVIOUS
  <2>7. g <= Len(t) /\ fed' = g /\ text' = t
    BY ONLY <1>2, <2>5, Zenon DEF Feed
  <2>8. emitted' = told \o x.out /\ extractor' = [field \in DOMAIN s |-> x[field]]
    BY ONLY <1>2, <2>5, <2>6, Zenon DEF Feed
  <2>9. f <= g /\ Layout(t) /\ HasRead(t, f, s, told)
    <3>1. f <= g BY <2>1, <2>5
    <3> QED BY ONLY <2>2, <2>5, <3>1, Zenon
  <2>10. HasRead(t, g, [field \in DOMAIN s |-> x[field]], told \o x.out)
    BY ONLY <2>6, <2>7, <2>9, FeedReads, f \in Nat, g \in Nat, Zenon
  <2> QED BY ONLY <2>2, <2>5, <2>7, <2>8, <2>9, <2>10, g \in Nat, Zenon DEF ReadInv
<1> QED BY ONLY <1>1, <1>2, StreamTextNext, Zenon DEF StreamTextNext

\* However the stream is cut, what has been passed on is the value so far.
THEOREM TextStaysTrue == StreamTextSpec => []ValueAsStreamed
<1>1. StreamTextInit => ReadInv BY Zenon DEF StreamTextInit, ReadInv
<1>2. ReadInv /\ [StreamTextNext]_streamTextVars => ReadInv'
  <2> SUFFICES ASSUME ReadInv, [StreamTextNext]_streamTextVars PROVE ReadInv' OBVIOUS
  <2>1. CASE StreamTextNext BY ONLY <2>1, ReadInv, TextStep, Zenon
  <2>2. CASE UNCHANGED streamTextVars BY ONLY <2>2, ReadInv, Zenon DEF streamTextVars, ReadInv
  <2> QED BY <2>1, <2>2
<1>3. ReadInv => ValueAsStreamed
  <2> SUFFICES ASSUME ReadInv, text # <<>>
               PROVE  IsPrefix(emitted, TrueValue) /\ (fed = Len(text) => emitted = TrueValue)
    BY DEF ValueAsStreamed
  <2>1. TrueValue = SubSeq(text, QuoteAt(text) + 1, EndAt(text) - 1)
    BY DEF TrueValue, KeyAt, ColonAt, QuoteAt, BackBefore, EndAt
  <2>2. Layout(text) /\ fed \in Nat /\ fed <= Len(text) /\ HasRead(text, fed, extractor, emitted)
    BY ONLY ReadInv, text # <<>>, Zenon DEF ReadInv
  <2>3. /\ IsPrefix(emitted, SubSeq(text, QuoteAt(text) + 1, EndAt(text) - 1))
        /\ fed = Len(text) => emitted = SubSeq(text, QuoteAt(text) + 1, EndAt(text) - 1)
    BY ONLY <2>2, ReadIsRight, Zenon
  <2> QED BY ONLY <2>1, <2>3, Zenon
<1> QED BY <1>1, <1>2, <1>3, PTL DEF StreamTextSpec

-----------------------------------------------------------------------------
(* People: what folding a step over a list makes of it, what the records   *)
(* and the readings are up to a place of what was told, and so what is     *)
(* kept and recalled.                                                      *)

\* f folds step, wherever its values are in V.
FoldsIn(f, n, V, base, step) ==
  /\ f[{}] = base
  /\ \A s \in SUBSET (1..n) :
       s # {} /\ f[s \ {Max(s)}] \in V => f[s] = step[Max(s)][f[s \ {Max(s)}]]

\* g goes step by step from base to final.
StepsTo(g, n, base, final, step) ==
  /\ g[0] = base /\ g[n] = final
  /\ \A k \in 1..n : g[k] = step[k][g[k - 1]]

\* A fold is a run through its prefixes.
LEMMA FoldRuns ==
  ASSUME NEW n \in Nat, NEW V, NEW base \in V, NEW step \in [1..n -> [V -> V]], NEW f,
         FoldsIn(f, n, V, base, step)
  PROVE  \E g \in [0..n -> V] : StepsTo(g, n, base, f[1..n], step)
<1>0. /\ f[{}] = base
      /\ \A s \in SUBSET (1..n) :
           s # {} /\ f[s \ {Max(s)}] \in V => f[s] = step[Max(s)][f[s \ {Max(s)}]]
  BY Zenon DEF FoldsIn
<1>1. f[1..0] = base
  <2>1. 1..0 = {} OBVIOUS
  <2> QED BY ONLY <1>0, <2>1, Zenon
<1>2. ASSUME NEW k \in 1..n, f[1..(k - 1)] \in V PROVE f[1..k] = step[k][f[1..(k - 1)]]
  <2>1. 1..k \in SUBSET (1..n) /\ 1..k # {} /\ Max(1..k) = k /\ (1..k) \ {k} = 1..(k - 1)
    BY MaxUpTo
  <2>2. f[(1..k) \ {Max(1..k)}] \in V BY ONLY <1>2, <2>1, Zenon
  <2>3. f[1..k] = step[Max(1..k)][f[(1..k) \ {Max(1..k)}]] BY ONLY <1>0, <2>1, <2>2, Zenon
  <2> QED BY ONLY <2>1, <2>3, Zenon
<1>3. \A k \in 0..n : f[1..k] \in V
  <2> DEFINE S == {k \in 0..n : f[1..k] \in V}
  <2>1. 0 \in S BY <1>1
  <2>2. \A k \in 1..n : k - 1 \in S => k \in S
    <3> SUFFICES ASSUME NEW k \in 1..n, k - 1 \in S PROVE k \in S OBVIOUS
    <3>1. f[1..(k - 1)] \in V OBVIOUS
    <3>2. f[1..k] \in V
      <4>1. f[1..k] = step[k][f[1..(k - 1)]] BY <1>2, <3>1
      <4>2. step[k] \in [V -> V] OBVIOUS
      <4> QED BY <3>1, <4>1, <4>2
    <3> QED BY <3>2
  <2> HIDE DEF S
  <2>3. 0..n \subseteq S BY <2>1, <2>2, Climb
  <2> QED BY <2>3 DEF S
<1> DEFINE g == [k \in 0..n |-> f[1..k]]
<1>4. g \in [0..n -> V] BY <1>3
<1>5. g[0] = base /\ g[n] = f[1..n] BY <1>1
<1>6. \A k \in 1..n : g[k] = step[k][g[k - 1]]
  <2> SUFFICES ASSUME NEW k \in 1..n PROVE g[k] = step[k][g[k - 1]] OBVIOUS
  <2>1. g[k] = f[1..k] /\ g[k - 1] = f[1..(k - 1)] /\ k - 1 \in 0..n OBVIOUS
  <2>2. f[1..(k - 1)] \in V BY <1>3, <2>1
  <2>3. f[1..k] = step[k][f[1..(k - 1)]] BY <1>2, <2>2
  <2> HIDE DEF g
  <2> QED BY ONLY <2>1, <2>3, Zenon
<1> HIDE DEF g
<1> QED BY <1>4, <1>5, <1>6 DEF StepsTo

(* People.                                                                 *)

Attributes == [attribute : {u.attribute : u \in Updates}, value : {u.value : u \in Updates}]
Persons == [name : Names, attributes : Seq(Attributes), updated : Nat]

\* Of the first p entries of h, q is the last on its person's attribute.
LastWord(h, p, q) ==
  \A r \in 1..p :
    h[r].of.name = h[q].of.name /\ h[r].of.attribute = h[q].of.attribute => r <= q

\* These attributes are what those entries say of name, each as it was told last.
AsLastTold(known, h, p, name) ==
  /\ \A j, k \in 1..Len(known) : known[j].attribute = known[k].attribute => j = k
  /\ \A j \in 1..Len(known) : \E q \in 1..p :
       LastWord(h, p, q) /\ h[q].of.name = name /\ known[j] = Attribute(h[q].of)
  /\ \A q \in 1..p : h[q].of.name = name =>
       \E j \in 1..Len(known) : known[j].attribute = h[q].of.attribute

\* A person is dated by the last of the entries on them.
DatedByLast(e, h, p) ==
  /\ \A q \in 1..p : h[q].of.name = e.name => h[q].turn <= e.updated
  /\ e.attributes # <<>> => \E q \in 1..p : h[q].of.name = e.name /\ h[q].turn = e.updated

\* The list is of those who were named or told of, each once.
OfEach(list, h, p, named) ==
  /\ \A i, j \in 1..Len(list) : list[i].name = list[j].name => i = j
  /\ \A name : (\E i \in 1..Len(list) : list[i].name = name) <=>
                 name \in named \/ \E q \in 1..p : h[q].of.name = name

Records(list, h, p, named) ==
  /\ list \in Seq(Persons) /\ OfEach(list, h, p, named)
  /\ \A i \in 1..Len(list) :
       AsLastTold(list[i].attributes, h, p, list[i].name) /\ DatedByLast(list[i], h, p)

\* The first place of a list at which something holds, or 0.
LEMMA FirstPlace ==
  ASSUME NEW n \in Nat, NEW I \in SUBSET (1..n), NEW i, i = IF I # {} THEN Min(I) ELSE 0
  PROVE  (i = 0 /\ I = {}) \/ (i \in I /\ \A j \in I : i <= j)
<1>1. CASE I = {} BY <1>1
<1>2. CASE I # {}
  <2>1. PICK x \in I : \A y \in I : x <= y
    <3>1. I \in SUBSET Nat OBVIOUS
    <3> QED BY <1>2, <3>1, LeastOf
  <2>2. i \in I /\ \A y \in I : i <= y BY <1>2, <2>1 DEF Min
  <2> QED BY <2>2
<1> QED BY <1>1, <1>2

\* What SetAttribute makes of attributes are attributes.
LEMMA AttributeType ==
  ASSUME NEW u \in Updates
  PROVE  Attribute(u) \in Attributes /\ Attribute(u).attribute = u.attribute
BY DEF Attribute, Attributes

\* new is known with what u says: put at the end, or in its place.
Follows(new, known, u) ==
  /\ new \in Seq(Attributes)
  /\ \/ /\ \A j \in 1..Len(known) : known[j].attribute # u.attribute
        /\ Len(new) = Len(known) + 1 /\ new[Len(known) + 1] = Attribute(u)
        /\ \A j \in 1..Len(known) : new[j] = known[j]
     \/ \E i \in 1..Len(known) :
        /\ known[i].attribute = u.attribute
        /\ Len(new) = Len(known) /\ new[i] = Attribute(u)
        /\ \A j \in 1..Len(known) : j # i => new[j] = known[j]

\* What SetAttribute does to the attributes.
LEMMA SetAttributeDoes ==
  ASSUME NEW known \in Seq(Attributes), NEW u \in Updates, NEW new, new = SetAttribute(known, u)
  PROVE  Follows(new, known, u)
<1> USE DEF Follows
<1> DEFINE I == {j \in 1..Len(known) : known[j].attribute = u.attribute}
           n == Len(known)
<1>0. n \in Nat /\ DOMAIN known = 1..n /\ \A j \in 1..n : known[j] \in Attributes OBVIOUS
<1>1. PICK i : i = IF I # {} THEN Min(I) ELSE 0 OBVIOUS
<1>2. (i = 0 /\ I = {}) \/ (i \in I /\ \A j \in I : i <= j)
  <2>1. I \in SUBSET (1..n) OBVIOUS
  <2> HIDE DEF I, n
  <2> QED BY <1>0, <1>1, <2>1, FirstPlace
<1>3. new = IF i = 0 THEN Append(known, Attribute(u)) ELSE [known EXCEPT ![i].value = u.value]
  BY <1>1, Zenon DEF SetAttribute, SelectInSeq
<1>4. Attribute(u) \in Attributes BY AttributeType
<1>5. CASE i = 0 /\ I = {}
  <2>1. new = Append(known, Attribute(u)) BY <1>3, <1>5
  <2>2. \A j \in 1..Len(known) : known[j].attribute # u.attribute BY <1>5
  <2> QED BY <1>4, <2>1, <2>2
<1>6. CASE i \in I
  <2>1. i # 0 /\ i \in 1..n /\ known[i].attribute = u.attribute BY <1>0, <1>6
  <2>2. new = [known EXCEPT ![i].value = u.value] BY <1>3, <2>1
  <2>3. [known[i] EXCEPT !.value = u.value] = Attribute(u)
    <3>1. known[i] \in Attributes BY <1>0, <2>1
    <3> QED BY <2>1, <3>1 DEF Attributes, Attribute
  <2>4. new[i] = Attribute(u) /\ \A j \in 1..n : j # i => new[j] = known[j]
    BY <1>0, <2>1, <2>2, <2>3
  <2>5. DOMAIN new = 1..n BY <1>0, <2>2
  <2>6. new \in Seq(Attributes) /\ Len(new) = n
    <3>1. \A j \in 1..n : new[j] \in Attributes BY <1>0, <1>4, <2>4
    <3>2. new \in [1..n -> Attributes]
      <4>1. new = [j \in 1..n |-> new[j]] BY <1>0, <2>2
      <4> HIDE DEF n
      <4> QED BY <3>1, <4>1
    <3> HIDE DEF n
    <3> QED BY <1>0, <3>2
  <2> QED BY <2>1, <2>4, <2>6
<1> QED BY <1>2, <1>5, <1>6

\* One more entry on a person, and their attributes follow it.
LEMMA AttributesFollow ==
  ASSUME NEW known \in Seq(Attributes), NEW h, NEW p \in Nat, NEW u \in Updates,
         h[p + 1].of = u, AsLastTold(known, h, p, u.name)
  PROVE  AsLastTold(SetAttribute(known, u), h, p + 1, u.name)
<1>1. PICK new : new = SetAttribute(known, u) OBVIOUS
<1>2. Attribute(u).attribute = u.attribute BY AttributeType
<1> DEFINE n == Len(known)
<1>0. n \in Nat OBVIOUS
<1>3. LastWord(h, p + 1, p + 1) BY DEF LastWord
<1>4. ASSUME NEW q \in 1..p, LastWord(h, p, q), h[q].of.attribute # u.attribute
      PROVE  LastWord(h, p + 1, q)
  BY <1>4 DEF LastWord
<1>5. ASSUME NEW q \in 1..p, LastWord(h, p, q)
      PROVE  Attribute(h[q].of).attribute = h[q].of.attribute
  BY DEF Attribute
<1>6. /\ new \in Seq(Attributes)
      /\ \/ /\ \A j \in 1..n : known[j].attribute # u.attribute
            /\ Len(new) = n + 1 /\ new[n + 1] = Attribute(u)
            /\ \A j \in 1..n : new[j] = known[j]
         \/ \E i \in 1..n :
            /\ known[i].attribute = u.attribute
            /\ Len(new) = n /\ new[i] = Attribute(u)
            /\ \A j \in 1..n : j # i => new[j] = known[j]
  <2>1. Follows(new, known, u)
    BY <1>1, SetAttributeDoes, Zenon
  <2> QED BY <2>1 DEF Follows
<1>7. /\ \A j, k \in 1..n : known[j].attribute = known[k].attribute => j = k
      /\ \A j \in 1..n : \E q \in 1..p :
           LastWord(h, p, q) /\ h[q].of.name = u.name /\ known[j] = Attribute(h[q].of)
      /\ \A q \in 1..p : h[q].of.name = u.name => \E j \in 1..n : known[j].attribute = h[q].of.attribute
  BY DEF AsLastTold
<1> HIDE DEF n
<1>8. ASSUME NEW j \in 1..n, known[j].attribute # u.attribute
      PROVE  \E q \in 1..(p + 1) :
               LastWord(h, p + 1, q) /\ h[q].of.name = u.name /\ known[j] = Attribute(h[q].of)
  <2>1. PICK q \in 1..p : LastWord(h, p, q) /\ h[q].of.name = u.name /\ known[j] = Attribute(h[q].of)
    BY <1>7
  <2>2. h[q].of.attribute # u.attribute BY <1>5, <1>8, <2>1
  <2>3. LastWord(h, p + 1, q) /\ q \in 1..(p + 1) BY <1>4, <2>1, <2>2
  <2> QED BY <2>1, <2>3
<1>9. CASE /\ \A j \in 1..n : known[j].attribute # u.attribute
           /\ Len(new) = n + 1 /\ new[n + 1] = Attribute(u)
           /\ \A j \in 1..n : new[j] = known[j]
  <2>1. \A j \in 1..(n + 1) : j \in 1..n \/ j = n + 1 BY <1>0
  <2>2. \A j, k \in 1..(n + 1) : new[j].attribute = new[k].attribute => j = k
    BY <1>0, <1>2, <1>7, <1>9, <2>1
  <2>3. \A j \in 1..(n + 1) : \E q \in 1..(p + 1) :
          LastWord(h, p + 1, q) /\ h[q].of.name = u.name /\ new[j] = Attribute(h[q].of)
    <3>1. ASSUME NEW j \in 1..n
          PROVE  \E q \in 1..(p + 1) :
                   LastWord(h, p + 1, q) /\ h[q].of.name = u.name /\ new[j] = Attribute(h[q].of)
      BY <1>8, <1>9
    <3>2. p + 1 \in 1..(p + 1) OBVIOUS
    <3> QED BY <1>3, <1>9, <2>1, <3>1, <3>2
  <2>4. \A q \in 1..(p + 1) : h[q].of.name = u.name =>
          \E j \in 1..(n + 1) : new[j].attribute = h[q].of.attribute
    <3>1. \A q \in 1..(p + 1) : q \in 1..p \/ q = p + 1 OBVIOUS
    <3>2. \A j \in 1..n : j \in 1..(n + 1) BY <1>0
    <3>3. n + 1 \in 1..(n + 1) BY <1>0
    <3> QED BY <1>2, <1>7, <1>9, <3>1, <3>2, <3>3
  <2> QED BY <1>1, <1>9, <2>2, <2>3, <2>4 DEF AsLastTold
<1>10. ASSUME NEW i \in 1..n, known[i].attribute = u.attribute, Len(new) = n, new[i] = Attribute(u),
             \A j \in 1..n : j # i => new[j] = known[j]
      PROVE  AsLastTold(new, h, p + 1, u.name)
  <2>1. \A j \in 1..n : new[j].attribute = known[j].attribute BY <1>2, <1>10
  <2>2. \A j \in 1..n : \E q \in 1..(p + 1) :
          LastWord(h, p + 1, q) /\ h[q].of.name = u.name /\ new[j] = Attribute(h[q].of)
    <3>1. ASSUME NEW j \in 1..n, j # i
          PROVE  \E q \in 1..(p + 1) :
                   LastWord(h, p + 1, q) /\ h[q].of.name = u.name /\ new[j] = Attribute(h[q].of)
      <4>1. known[j].attribute # u.attribute BY <1>7, <1>10, <3>1
      <4> QED BY <1>8, <1>10, <3>1, <4>1
    <3>2. p + 1 \in 1..(p + 1) OBVIOUS
    <3> QED BY <1>3, <1>10, <3>1, <3>2
  <2>3. \A q \in 1..(p + 1) : h[q].of.name = u.name =>
          \E j \in 1..n : new[j].attribute = h[q].of.attribute
    <3>1. \A q \in 1..(p + 1) : q \in 1..p \/ q = p + 1 OBVIOUS
    <3>2. new[i].attribute = h[p + 1].of.attribute BY <1>2, <1>10
    <3>3. \A q \in 1..p : h[q].of.name = u.name =>
            \E j \in 1..n : new[j].attribute = h[q].of.attribute
      BY <1>7, <2>1
    <3>4. \E j \in 1..n : new[j].attribute = h[p + 1].of.attribute BY <1>10, <3>2
    <3> QED BY <3>1, <3>3, <3>4
  <2>4. \A j, k \in 1..n : new[j].attribute = new[k].attribute => j = k BY <1>7, <2>1
  <2> QED BY <1>10, <2>2, <2>3, <2>4 DEF AsLastTold
<1> QED BY <1>1, <1>6, <1>9, <1>10

\* An entry on somebody else leaves them.
LEMMA OthersStay ==
  ASSUME NEW e, NEW h, NEW p \in Nat, h[p + 1].of.name # e.name,
         AsLastTold(e.attributes, h, p, e.name), DatedByLast(e, h, p)
  PROVE  AsLastTold(e.attributes, h, p + 1, e.name) /\ DatedByLast(e, h, p + 1)
<1>1. \A q \in 1..(p + 1) : q \in 1..p \/ q = p + 1 OBVIOUS
<1>2. \A q \in 1..p : q \in 1..(p + 1) OBVIOUS
<1>3. ASSUME NEW q \in 1..p, LastWord(h, p, q), h[q].of.name = e.name PROVE LastWord(h, p + 1, q)
  BY <1>1, <1>3 DEF LastWord
<1>4. AsLastTold(e.attributes, h, p + 1, e.name) BY <1>1, <1>2, <1>3 DEF AsLastTold
<1>5. DatedByLast(e, h, p + 1) BY <1>1, <1>2 DEF DatedByLast
<1> QED BY <1>4, <1>5


\* Naming a person adds them, or is nothing new.
LEMMA MentionStep ==
  ASSUME NEW list, NEW h, NEW p \in Nat, NEW named, Records(list, h, p, named),
         NEW name \in Names, NEW turn \in Nat, NEW new, new = Mention(list, name, turn)
  PROVE  Records(new, h, p, named \cup {name})
<1> DEFINE n == Len(list)
           I == {i \in 1..Len(list) : list[i].name = name}
<1>0. list \in Seq(Persons) /\ n \in Nat BY DEF Records
<1>1. WithName(list, name) = IF I # {} THEN Min(I) ELSE 0 BY Zenon DEF WithName, SelectInSeq
<1>2. (WithName(list, name) = 0 /\ I = {}) \/ (WithName(list, name) \in I)
  <2>1. I \in SUBSET (1..n) OBVIOUS
  <2> HIDE DEF I, n
  <2> QED BY <1>0, <1>1, <2>1, FirstPlace
<1>3. CASE WithName(list, name) \in I
  <2>1. PICK i \in 1..n : list[i].name = name BY <1>3
  <2>2. new = list
    <3>1. WithName(list, name) # 0 BY <1>0, <1>3
    <3> QED BY <3>1 DEF Mention
  <2>3. OfEach(list, h, p, named \cup {name})
    BY <2>1 DEF OfEach, Records
  <2> QED BY <2>2, <2>3 DEF Records
<1>4. CASE WithName(list, name) = 0 /\ I = {}
  <2>1. new = Append(list, Person(name, turn)) BY <1>4 DEF Mention
  <2>2. Person(name, turn) \in Persons BY DEF Person, Persons
  <2>3. \A i \in 1..n : list[i].name # name BY <1>4
  <2>4. PICK e : e = Person(name, turn) OBVIOUS
  <2>5. e \in Persons /\ e.name = name /\ e.attributes = <<>>
    BY <2>2, <2>4 DEF Person
  <2>6. /\ new \in Seq(Persons) /\ Len(new) = n + 1 /\ new[n + 1] = e
        /\ \A i \in 1..n : new[i] = list[i]
    BY <1>0, <2>1, <2>4, <2>5
  <2>7. OfEach(list, h, p, named)
        /\ \A i \in 1..n : AsLastTold(list[i].attributes, h, p, list[i].name) /\ DatedByLast(list[i], h, p)
    BY DEF Records
  <2>8. \A q \in 1..p : h[q].of.name # name
    <3>1. (\E i \in 1..n : list[i].name = name) <=> name \in named \/ \E q \in 1..p : h[q].of.name = name
      BY <2>7 DEF OfEach
    <3> QED BY <2>3, <3>1
  <2> HIDE DEF n
  <2>9. \A i \in 1..(n + 1) : i \in 1..n \/ i = n + 1 BY <1>0
  <2>10. OfEach(new, h, p, named \cup {name})
    <3>1. \A i, j \in 1..(n + 1) : new[i].name = new[j].name => i = j
      <4>1. \A i, j \in 1..n : list[i].name = list[j].name => i = j BY <2>7 DEF OfEach, n
      <4> QED BY <2>3, <2>5, <2>6, <2>9, <4>1
    <3>2. ASSUME NEW other
          PROVE  (\E i \in 1..(n + 1) : new[i].name = other) <=>
                   other \in named \cup {name} \/ \E q \in 1..p : h[q].of.name = other
      <4>1. (\E i \in 1..n : list[i].name = other) <=> other \in named \/ \E q \in 1..p : h[q].of.name = other
        BY <2>7 DEF OfEach, n
      <4>2. (\E i \in 1..(n + 1) : new[i].name = other) <=> (\E i \in 1..n : list[i].name = other) \/ name = other
        <5>1. \A i \in 1..n : i \in 1..(n + 1) BY <1>0
        <5>2. n + 1 \in 1..(n + 1) BY <1>0
        <5> QED BY <2>5, <2>6, <2>9, <5>1, <5>2
      <4> QED BY <4>1, <4>2
    <3> QED BY <2>6, <3>1, <3>2 DEF OfEach
  <2>11. AsLastTold(e.attributes, h, p, e.name) /\ DatedByLast(e, h, p)
    BY <2>5, <2>8 DEF AsLastTold, DatedByLast
  <2>12. \A i \in 1..(n + 1) :
           AsLastTold(new[i].attributes, h, p, new[i].name) /\ DatedByLast(new[i], h, p)
    <3>1. ASSUME NEW i \in 1..n
          PROVE  AsLastTold(new[i].attributes, h, p, new[i].name) /\ DatedByLast(new[i], h, p)
      <4>1. new[i] = list[i] BY <2>6
      <4>2. AsLastTold(list[i].attributes, h, p, list[i].name) /\ DatedByLast(list[i], h, p) BY <2>7
      <4> QED BY ONLY <4>1, <4>2, Zenon
    <3>2. AsLastTold(new[n + 1].attributes, h, p, new[n + 1].name) /\ DatedByLast(new[n + 1], h, p)
      BY ONLY <2>6, <2>11, Zenon
    <3> QED BY ONLY <2>9, <3>1, <3>2, Zenon
  <2> QED BY <2>6, <2>10, <2>12 DEF Records
<1> QED BY <1>2, <1>3, <1>4

\* One thing told of a person.
LEMMA EnrichStep ==
  ASSUME NEW list, NEW h, NEW p \in Nat, NEW named, Records(list, h, p, named),
         NEW u \in Updates, NEW turn \in Nat, NEW new, new = Enrich(list, u, turn),
         u.name \in Names, h[p + 1].of = u, h[p + 1].turn = turn,
         \A q \in 1..p : h[q].turn \in Nat /\ h[q].turn <= turn
  PROVE  Records(new, h, p + 1, named)
<1>1. PICK known : known = Mention(list, u.name, turn) OBVIOUS
<1>2. Records(known, h, p, named \cup {u.name})
  BY <1>1, MentionStep
<1> DEFINE n == Len(known)
           I == {i \in 1..Len(known) : known[i].name = u.name}
<1>3. PICK i : i = WithName(known, u.name) OBVIOUS
<1>0. known \in Seq(Persons) /\ n \in Nat /\ DOMAIN known = 1..n BY <1>2 DEF Records
<1>4. i = IF I # {} THEN Min(I) ELSE 0 BY <1>3, Zenon DEF WithName, SelectInSeq
<1>5. i \in 1..n /\ known[i].name = u.name
  <2>1. \E j \in 1..n : known[j].name = u.name BY <1>2 DEF Records, OfEach
  <2>2. I # {} BY <2>1
  <2>3. I \in SUBSET (1..n) OBVIOUS
  <2>4. i \in I
    <3> HIDE DEF I, n
    <3> QED BY <1>0, <1>4, <2>2, <2>3, FirstPlace
  <2> QED BY <2>4
<1> HIDE DEF I
<1>6. new = [known EXCEPT ![i].attributes = SetAttribute(@, u), ![i].updated = turn]
  BY <1>1, <1>3, Zenon DEF Enrich
<1>7. PICK then : then = SetAttribute(known[i].attributes, u) OBVIOUS
<1>8. known[i] \in Persons BY <1>0, <1>5
<1>9. then \in Seq(Attributes) /\ then # <<>>
  <2>1. known[i].attributes \in Seq(Attributes) BY <1>8 DEF Persons
  <2>2. Follows(then, known[i].attributes, u) BY <1>7, <2>1, SetAttributeDoes
  <2>3. Len(then) # 0 BY <2>1, <2>2 DEF Follows
  <2> QED BY <2>2, <2>3 DEF Follows
<1>10. PICK e : e = [known[i] EXCEPT !.attributes = then, !.updated = turn] OBVIOUS
<1>11. e \in Persons /\ e.name = u.name /\ e.attributes = then /\ e.updated = turn
  BY <1>5, <1>8, <1>9, <1>10 DEF Persons
<1>12. /\ new \in Seq(Persons) /\ Len(new) = n /\ new[i] = e
       /\ \A j \in 1..n : j # i => new[j] = known[j]
  <2>1. new[i] = e BY <1>0, <1>5, <1>6, <1>7, <1>10
  <2>2. \A j \in 1..n : j # i => new[j] = known[j] BY <1>0, <1>6
  <2>3. new \in [1..n -> Persons]
    <3>1. \A j \in 1..n : new[j] \in Persons BY <1>0, <1>11, <2>1, <2>2
    <3>2. DOMAIN new = 1..n /\ new = [j \in 1..n |-> new[j]] BY <1>0, <1>6
    <3> HIDE DEF n
    <3> QED BY <3>1, <3>2
  <2> HIDE DEF n
  <2> QED BY <1>0, <2>1, <2>2, <2>3
<1>13. /\ OfEach(known, h, p, named \cup {u.name})
       /\ \A j \in 1..n : AsLastTold(known[j].attributes, h, p, known[j].name) /\ DatedByLast(known[j], h, p)
  BY <1>2 DEF Records
<1>14. \A q \in 1..(p + 1) : q \in 1..p \/ q = p + 1 OBVIOUS
<1>15. p + 1 \in 1..(p + 1) /\ \A q \in 1..p : q \in 1..(p + 1) OBVIOUS
<1>16. \A j \in 1..n : new[j].name = known[j].name BY <1>5, <1>11, <1>12
<1>17. OfEach(new, h, p + 1, named)
  <2>1. \A j, k \in 1..n : new[j].name = new[k].name => j = k
    <3>1. \A j, k \in 1..n : known[j].name = known[k].name => j = k BY <1>13 DEF OfEach
    <3> QED BY <1>16, <3>1
  <2>2. ASSUME NEW other
        PROVE  (\E j \in 1..n : new[j].name = other) <=>
                 other \in named \/ \E q \in 1..(p + 1) : h[q].of.name = other
    <3>1. (\E j \in 1..n : known[j].name = other) <=>
            other \in named \cup {u.name} \/ \E q \in 1..p : h[q].of.name = other
      BY <1>13 DEF OfEach
    <3>2. (\E q \in 1..(p + 1) : h[q].of.name = other) <=>
            u.name = other \/ \E q \in 1..p : h[q].of.name = other
      BY <1>14, <1>15
    <3> QED BY <1>16, <3>1, <3>2
  <2> HIDE DEF n
  <2>3. Len(new) = n BY <1>12
  <2> QED BY ONLY <2>1, <2>2, <2>3, Zenon DEF OfEach
<1>18. AsLastTold(e.attributes, h, p + 1, e.name) /\ DatedByLast(e, h, p + 1)
  <2>1. known[i].attributes \in Seq(Attributes) BY <1>8 DEF Persons
  <2>2. AsLastTold(known[i].attributes, h, p, u.name) BY <1>5, <1>13
  <2>3. AsLastTold(then, h, p + 1, u.name) BY <1>7, <2>1, <2>2, AttributesFollow
  <2>4. DatedByLast(e, h, p + 1) BY <1>11, <1>14, <1>15 DEF DatedByLast
  <2> QED BY ONLY <1>11, <2>3, <2>4, Zenon
<1>19. \A j \in 1..n : AsLastTold(new[j].attributes, h, p + 1, new[j].name) /\ DatedByLast(new[j], h, p + 1)
  <2>1. ASSUME NEW j \in 1..n, j # i
        PROVE  AsLastTold(known[j].attributes, h, p + 1, known[j].name) /\ DatedByLast(known[j], h, p + 1)
    <3>1. known[j].name # u.name BY <1>5, <1>13, <2>1 DEF OfEach
    <3>2. h[p + 1].of.name # known[j].name BY <3>1
    <3>3. AsLastTold(known[j].attributes, h, p, known[j].name) /\ DatedByLast(known[j], h, p) BY <1>13
    <3> QED BY <3>2, <3>3, OthersStay
  <2>2. \A j \in 1..n : j # i => new[j] = known[j] BY <1>12
  <2>3. new[i] = e BY <1>12
  <2> HIDE DEF n
  <2> QED BY ONLY <1>18, <2>1, <2>2, <2>3, Zenon
<1> QED BY <1>12, <1>17, <1>19 DEF Records



\* What Mention makes of persons are persons.
LEMMA MentionType ==
  ASSUME NEW list \in Seq(Persons), NEW name \in Names, NEW turn \in Nat
  PROVE  Mention(list, name, turn) \in Seq(Persons)
<1>1. Person(name, turn) \in Persons BY DEF Person, Persons
<1>2. PICK e \in Persons : e = Person(name, turn) BY <1>1
<1>3. Append(list, e) \in Seq(Persons) OBVIOUS
<1> QED BY <1>2, <1>3 DEF Mention

\* What Enrich makes of persons are persons.
LEMMA EnrichType ==
  ASSUME NEW list \in Seq(Persons), NEW u \in Updates, u.name \in Names, NEW turn \in Nat
  PROVE  Enrich(list, u, turn) \in Seq(Persons)
<1>1. PICK known \in Seq(Persons) : known = Mention(list, u.name, turn) BY MentionType
<1>2. PICK i : i = WithName(known, u.name) OBVIOUS
<1> DEFINE n == Len(known)
<1>0. n \in Nat /\ DOMAIN known = 1..n OBVIOUS
<1>3. Enrich(list, u, turn) =
        [known EXCEPT ![i].attributes = SetAttribute(@, u), ![i].updated = turn]
  BY <1>1, <1>2, Zenon DEF Enrich
<1>4. PICK new : new = Enrich(list, u, turn) OBVIOUS
<1>5. CASE i \in 1..n
  <2>1. known[i] \in Persons BY <1>5
  <2>2. PICK then : then = SetAttribute(known[i].attributes, u) OBVIOUS
  <2>3. then \in Seq(Attributes)
    <3>1. Follows(then, known[i].attributes, u) BY <2>1, <2>2, SetAttributeDoes DEF Persons
    <3> QED BY <3>1 DEF Follows
  <2>4. PICK e : e = [known[i] EXCEPT !.attributes = then, !.updated = turn] OBVIOUS
  <2>5. e \in Persons BY <2>1, <2>3, <2>4 DEF Persons
  <2>9. new = [known EXCEPT ![i].attributes = SetAttribute(@, u), ![i].updated = turn]
    BY ONLY <1>3, <1>4, Zenon
  <2>10. new[i] = e /\ \A j \in 1..n : j # i => new[j] = known[j]
    BY <1>0, <1>5, <2>2, <2>4, <2>9
  <2>6. \A j \in 1..n : new[j] \in Persons BY <2>5, <2>10
  <2>7. DOMAIN new = 1..n /\ new = [j \in 1..n |-> new[j]] BY <1>0, <2>9
  <2> HIDE DEF n
  <2>8. new \in [1..n -> Persons] BY <2>6, <2>7
  <2> QED BY <1>0, <1>4, <2>8
<1>6. CASE i \notin 1..n
  <2>1. new = known BY <1>3, <1>4, <1>6
  <2> QED BY <1>4, <2>1
<1> QED BY <1>5, <1>6

\* The loops of _merge_entities.
AllNamed(list, q, turn) == FoldLeft(LAMBDA l, n : Mention(l, n, turn), list, q)
AllTold(list, q, turn) == FoldLeft(LAMBDA l, u : Enrich(l, u, turn), list, q)

\* All the names of a message.
LEMMA NamesStep ==
  ASSUME NEW list, NEW h, NEW p \in Nat, NEW named, Records(list, h, p, named),
         NEW q \in Seq(Names), NEW turn \in Nat, NEW new, new = AllNamed(list, q, turn)
  PROVE  Records(new, h, p, named \cup ToSet(q))
<1> DEFINE n == Len(q)
           V == Seq(Persons)
           Body(g) == [s \in SUBSET (1..n) |->
                         IF s = {} THEN list ELSE Mention(g[s \ {Max(s)}], q[Max(s)], turn)]
           f == CHOOSE g : g = Body(g)
           step == [i \in 1..n |-> [v \in V |-> Mention(v, q[i], turn)]]
<1>0. n \in Nat /\ DOMAIN q = 1..n /\ \A i \in 1..n : q[i] \in Names BY ElementOfSeq
<1>1. new = f[1..n] BY <1>0, Zenon DEF AllNamed, FoldLeft, MapThenFoldSet
<1>2. list \in V BY DEF Records
<1>3. \A v \in V, i \in 1..n : Mention(v, q[i], turn) \in V BY <1>0, MentionType
<1> HIDE DEF V, n
<1>4. step \in [1..n -> [V -> V]]
  <2>1. \A i \in 1..n : [v \in V |-> Mention(v, q[i], turn)] \in [V -> V] BY <1>3
  <2> QED BY <2>1
<1>5. f = Body(f)
  <2>1. PICK g \in [SUBSET (1..n) -> V] : FoldsBy(g, n, list, step)
    <3> HIDE DEF step
    <3> QED BY <1>0, <1>2, <1>4, FoldExists, Zenon
  <2>2. ASSUME NEW s \in SUBSET (1..n), s # {}
        PROVE  g[s] = Mention(g[s \ {Max(s)}], q[Max(s)], turn)
    <3>1. Max(s) \in 1..n BY <1>0, <2>2, MaxUpTo
    <3>2. g[s \ {Max(s)}] \in V BY <2>1
    <3>3. g[s] = step[Max(s)][g[s \ {Max(s)}]] BY <2>1, <2>2 DEF FoldsBy
    <3> QED BY <3>1, <3>2, <3>3
  <2>3. g[{}] = list BY <2>1 DEF FoldsBy
  <2>4. \A s \in SUBSET (1..n) :
          g[s] = IF s = {} THEN list ELSE Mention(g[s \ {Max(s)}], q[Max(s)], turn)
    BY <2>2, <2>3
  <2>5. g = [s \in SUBSET (1..n) |-> g[s]] BY <2>1
  <2>6. g = Body(g) BY ONLY <2>4, <2>5, Zenon
  <2> HIDE DEF Body
  <2> QED BY <2>6
<1> HIDE DEF f
<1>6. PICK g \in [0..n -> V] : StepsTo(g, n, list, f[1..n], step)
  <2>1. f[{}] = list BY ONLY <1>5, {} \in SUBSET (1..n), Zenon
  <2>2. ASSUME NEW s \in SUBSET (1..n), s # {}, f[s \ {Max(s)}] \in V
        PROVE  f[s] = step[Max(s)][f[s \ {Max(s)}]]
    <3>1. Max(s) \in 1..n BY <1>0, <2>2, MaxUpTo
    <3>2. f[s] = Mention(f[s \ {Max(s)}], q[Max(s)], turn) BY ONLY <1>5, <2>2, s \in SUBSET (1..n), Zenon
    <3> QED BY <2>2, <3>1, <3>2
  <2> HIDE DEF step
  <2>3. FoldsIn(f, n, V, list, step) BY ONLY <2>1, <2>2, Zenon DEF FoldsIn
  <2> QED BY <1>0, <1>2, <1>4, <2>3, FoldRuns, Zenon
<1>7. \A k \in 1..n : g[k] = Mention(g[k - 1], q[k], turn)
  <2> SUFFICES ASSUME NEW k \in 1..n PROVE g[k] = Mention(g[k - 1], q[k], turn) OBVIOUS
  <2>1. g[k - 1] \in V BY <1>0
  <2> QED BY <1>6, <2>1 DEF StepsTo
<1> HIDE DEF step
<1> DEFINE Upto(k) == {q[i] : i \in 1..k}
           S == {k \in 0..n : Records(g[k], h, p, named \cup Upto(k))}
<1>8. 0 \in S
  <2>1. Upto(0) = {} /\ 0 \in 0..n BY <1>0
  <2>2. named \cup {} = named OBVIOUS
  <2> QED BY <1>6, <2>1, <2>2 DEF StepsTo
<1>9. \A k \in 1..n : k - 1 \in S => k \in S
  <2> SUFFICES ASSUME NEW k \in 1..n, k - 1 \in S PROVE k \in S OBVIOUS
  <2>1. Records(g[k - 1], h, p, named \cup Upto(k - 1)) OBVIOUS
  <2>2. q[k] \in Names /\ g[k] = Mention(g[k - 1], q[k], turn) BY <1>0, <1>7
  <2>3. Records(g[k], h, p, (named \cup Upto(k - 1)) \cup {q[k]})
    <3> HIDE DEF Upto
    <3> QED BY <2>1, <2>2, MentionStep
  <2>4. Upto(k) = Upto(k - 1) \cup {q[k]}
    <3>1. \A i : i \in 1..k <=> i \in 1..(k - 1) \/ i = k BY <1>0
    <3> QED BY <3>1
  <2>5. (named \cup Upto(k - 1)) \cup {q[k]} = named \cup Upto(k) BY <2>4
  <2>6. k \in 0..n BY <1>0
  <2> QED BY <2>3, <2>5, <2>6
<1>10. n \in S
  <2> HIDE DEF S
  <2>1. 0..n \subseteq S BY <1>0, <1>8, <1>9, Climb
  <2> QED BY <1>0, <2>1
<1>11. Upto(n) = ToSet(q) BY <1>0 DEF ToSet
<1> QED BY <1>1, <1>6, <1>10, <1>11 DEF StepsTo


\* All that a message tells of people.
LEMMA UpdatesStep ==
  ASSUME NEW list, NEW h, NEW p \in Nat, NEW named, Records(list, h, p, named),
         NEW q \in Seq(Updates), \A i \in 1..Len(q) : q[i].name \in Names,
         NEW turn \in Nat, NEW new, new = AllTold(list, q, turn),
         \A i \in 1..Len(q) : h[p + i].of = q[i] /\ h[p + i].turn = turn,
         \A i \in 1..p : h[i].turn \in Nat /\ h[i].turn <= turn
  PROVE  Records(new, h, p + Len(q), named)
<1> DEFINE n == Len(q)
           V == Seq(Persons)
           Body(g) == [s \in SUBSET (1..n) |->
                         IF s = {} THEN list ELSE Enrich(g[s \ {Max(s)}], q[Max(s)], turn)]
           f == CHOOSE g : g = Body(g)
           step == [i \in 1..n |-> [v \in V |-> Enrich(v, q[i], turn)]]
<1>0. n \in Nat /\ DOMAIN q = 1..n /\ \A i \in 1..n : q[i] \in Updates /\ q[i].name \in Names BY ElementOfSeq
<1>1. new = f[1..n] BY <1>0, Zenon DEF AllTold, FoldLeft, MapThenFoldSet
<1>2. list \in V BY DEF Records
<1>3. \A v \in V, i \in 1..n : Enrich(v, q[i], turn) \in V BY <1>0, EnrichType
<1> HIDE DEF V, n
<1>4. step \in [1..n -> [V -> V]]
  <2>1. \A i \in 1..n : [v \in V |-> Enrich(v, q[i], turn)] \in [V -> V] BY <1>3
  <2> QED BY <2>1
<1>5. f = Body(f)
  <2>1. PICK g \in [SUBSET (1..n) -> V] : FoldsBy(g, n, list, step)
    <3> HIDE DEF step
    <3> QED BY <1>0, <1>2, <1>4, FoldExists, Zenon
  <2>2. ASSUME NEW s \in SUBSET (1..n), s # {}
        PROVE  g[s] = Enrich(g[s \ {Max(s)}], q[Max(s)], turn)
    <3>1. Max(s) \in 1..n BY <1>0, <2>2, MaxUpTo
    <3>2. g[s \ {Max(s)}] \in V BY <2>1
    <3>3. g[s] = step[Max(s)][g[s \ {Max(s)}]] BY <2>1, <2>2 DEF FoldsBy
    <3> QED BY <3>1, <3>2, <3>3
  <2>3. g[{}] = list BY <2>1 DEF FoldsBy
  <2>4. \A s \in SUBSET (1..n) :
          g[s] = IF s = {} THEN list ELSE Enrich(g[s \ {Max(s)}], q[Max(s)], turn)
    BY <2>2, <2>3
  <2>5. g = [s \in SUBSET (1..n) |-> g[s]] BY <2>1
  <2>6. g = Body(g) BY ONLY <2>4, <2>5, Zenon
  <2> HIDE DEF Body
  <2> QED BY <2>6
<1> HIDE DEF f
<1>6. PICK g \in [0..n -> V] : StepsTo(g, n, list, f[1..n], step)
  <2>1. f[{}] = list BY ONLY <1>5, {} \in SUBSET (1..n), Zenon
  <2>2. ASSUME NEW s \in SUBSET (1..n), s # {}, f[s \ {Max(s)}] \in V
        PROVE  f[s] = step[Max(s)][f[s \ {Max(s)}]]
    <3>1. Max(s) \in 1..n BY <1>0, <2>2, MaxUpTo
    <3>2. f[s] = Enrich(f[s \ {Max(s)}], q[Max(s)], turn) BY ONLY <1>5, <2>2, s \in SUBSET (1..n), Zenon
    <3> QED BY <2>2, <3>1, <3>2
  <2> HIDE DEF step
  <2>3. FoldsIn(f, n, V, list, step) BY ONLY <2>1, <2>2, Zenon DEF FoldsIn
  <2> QED BY <1>0, <1>2, <1>4, <2>3, FoldRuns, Zenon
<1>7. \A k \in 1..n : g[k] = Enrich(g[k - 1], q[k], turn)
  <2> SUFFICES ASSUME NEW k \in 1..n PROVE g[k] = Enrich(g[k - 1], q[k], turn) OBVIOUS
  <2>1. g[k - 1] \in V BY <1>0
  <2> QED BY <1>6, <2>1 DEF StepsTo
<1> HIDE DEF step
<1> DEFINE S == {k \in 0..n : Records(g[k], h, p + k, named)}
<1>8. 0 \in S
  <2>1. p + 0 = p /\ 0 \in 0..n BY <1>0
  <2> QED BY <1>6, <2>1 DEF StepsTo
<1>9. \A k \in 1..n : k - 1 \in S => k \in S
  <2> SUFFICES ASSUME NEW k \in 1..n, k - 1 \in S PROVE k \in S OBVIOUS
  <2>1. PICK m \in Nat : m = p + k - 1 BY <1>0
  <2>2. p + (k - 1) = m /\ m + 1 = p + k BY <1>0, <2>1
  <2>3. Records(g[k - 1], h, m, named) BY <2>2
  <2>4. q[k] \in Updates /\ q[k].name \in Names /\ g[k] = Enrich(g[k - 1], q[k], turn) BY <1>0, <1>7
  <2>5. h[m + 1].of = q[k] /\ h[m + 1].turn = turn BY <2>2 DEF n
  <2>6. \A i \in 1..m : h[i].turn \in Nat /\ h[i].turn <= turn
    <3> SUFFICES ASSUME NEW i \in 1..m PROVE h[i].turn \in Nat /\ h[i].turn <= turn OBVIOUS
    <3>1. CASE i \in 1..p BY <3>1
    <3>2. CASE i \notin 1..p
      <4>1. PICK j \in 1..n : i = p + j
        <5>1. i - p \in 1..n /\ i = p + (i - p) BY <1>0, <2>1, <3>2
        <5> QED BY <5>1
      <4>2. h[i].turn = turn BY <4>1 DEF n
      <4> QED BY <4>2
    <3> QED BY <3>1, <3>2
  <2>7. Records(g[k], h, m + 1, named) BY <2>3, <2>4, <2>5, <2>6, EnrichStep
  <2>8. k \in 0..n BY <1>0
  <2> QED BY <2>2, <2>7, <2>8
<1>10. n \in S
  <2> HIDE DEF S
  <2>1. 0..n \subseteq S BY <1>0, <1>8, <1>9, Climb
  <2> QED BY <1>0, <2>1
<1> QED BY <1>1, <1>6, <1>10 DEF StepsTo, n

-----------------------------------------------------------------------------
(* What is felt.                                                           *)

Felt == [emotion : Emotions, intensity : {s.intensity : s \in Feelings}, first : Nat, updated : Nat]

\* Of the first p entries of h, a is the first and b the last on emotion.
FirstAndLast(h, p, emotion, a, b) ==
  /\ h[a].of.emotion = emotion /\ h[b].of.emotion = emotion
  /\ \A q \in 1..p : h[q].of.emotion = emotion => a <= q /\ q <= b

\* The list is of what was felt by then, each once, from its first to its last entry.
FeltReadings(list, h, p) ==
  /\ list \in Seq(Felt)
  /\ \A i, j \in 1..Len(list) : list[i].emotion = list[j].emotion => i = j
  /\ \A emotion : (\E i \in 1..Len(list) : list[i].emotion = emotion) <=>
                    \E q \in 1..p : h[q].of.emotion = emotion
  /\ \A i \in 1..Len(list) : \E a, b \in 1..p :
       /\ FirstAndLast(h, p, list[i].emotion, a, b)
       /\ list[i].intensity = h[b].of.intensity
       /\ list[i].first = h[a].turn /\ list[i].updated = h[b].turn

\* One more reading of a feeling.
LEMMA FeelStep ==
  ASSUME NEW list, NEW h, NEW p \in Nat, FeltReadings(list, h, p),
         NEW s \in Feelings, NEW turn \in Nat, NEW new, new = Feel(list, s, turn),
         h[p + 1].of = s, h[p + 1].turn = turn
  PROVE  FeltReadings(new, h, p + 1)
<1> DEFINE n == Len(list)
           I == {i \in 1..Len(list) : list[i].emotion = s.emotion}
<1>0. list \in Seq(Felt) /\ n \in Nat /\ DOMAIN list = 1..n BY DEF FeltReadings
<1>1. PICK i : i = IF I # {} THEN Min(I) ELSE 0 OBVIOUS
<1>2. (i = 0 /\ I = {}) \/ (i \in I)
  <2>1. I \in SUBSET (1..n) OBVIOUS
  <2> HIDE DEF I, n
  <2> QED BY <1>0, <1>1, <2>1, FirstPlace
<1>3. new = IF i # 0 THEN [list EXCEPT ![i].intensity = s.intensity, ![i].updated = turn]
            ELSE Append(list, [emotion |-> s.emotion, intensity |-> s.intensity,
                               first |-> turn, updated |-> turn])
  BY <1>1, Zenon DEF Feel, SelectInSeq
<1>4. s.emotion \in Emotions /\ s.intensity \in {x.intensity : x \in Feelings} BY DEF Emotions
<1>5. \A q \in 1..(p + 1) : q \in 1..p \/ q = p + 1 OBVIOUS
<1>6. p + 1 \in 1..(p + 1) /\ \A q \in 1..p : q \in 1..(p + 1) /\ q <= p + 1 OBVIOUS
<1>7. /\ \A j, k \in 1..n : list[j].emotion = list[k].emotion => j = k
      /\ \A emotion : (\E j \in 1..n : list[j].emotion = emotion) <=>
                        \E q \in 1..p : h[q].of.emotion = emotion
      /\ \A j \in 1..n : \E a, b \in 1..p :
           /\ FirstAndLast(h, p, list[j].emotion, a, b)
           /\ list[j].intensity = h[b].of.intensity
           /\ list[j].first = h[a].turn /\ list[j].updated = h[b].turn
  BY DEF FeltReadings
<1>8. ASSUME NEW j \in 1..n, list[j].emotion # s.emotion
      PROVE  \E a, b \in 1..(p + 1) :
               /\ FirstAndLast(h, p + 1, list[j].emotion, a, b)
               /\ list[j].intensity = h[b].of.intensity
               /\ list[j].first = h[a].turn /\ list[j].updated = h[b].turn
  <2>1. PICK a, b \in 1..p : /\ FirstAndLast(h, p, list[j].emotion, a, b)
                             /\ list[j].intensity = h[b].of.intensity
                             /\ list[j].first = h[a].turn /\ list[j].updated = h[b].turn
    BY <1>7
  <2>2. FirstAndLast(h, p + 1, list[j].emotion, a, b) BY <1>5, <1>8, <2>1 DEF FirstAndLast
  <2> QED BY <1>6, <2>1, <2>2
<1>9. \A emotion : (\E q \in 1..(p + 1) : h[q].of.emotion = emotion) <=>
                     s.emotion = emotion \/ \E q \in 1..p : h[q].of.emotion = emotion
  BY <1>5, <1>6
<1>10. CASE i = 0 /\ I = {}
  <2>1. PICK e : e = [emotion |-> s.emotion, intensity |-> s.intensity, first |-> turn, updated |-> turn]
    OBVIOUS
  <2>2. /\ e \in Felt /\ e.emotion = s.emotion /\ e.intensity = s.intensity
        /\ e.first = turn /\ e.updated = turn
    BY <1>4, <2>1 DEF Felt
  <2>3. new = Append(list, e) BY <1>3, <1>10, <2>1
  <2>4. /\ new \in Seq(Felt) /\ Len(new) = n + 1 /\ new[n + 1] = e
        /\ \A j \in 1..n : new[j] = list[j]
    BY <1>0, <2>2, <2>3
  <2>5. \A j \in 1..n : list[j].emotion # s.emotion BY <1>10
  <2> HIDE DEF n, I
  <2>6. \A j \in 1..(n + 1) : j \in 1..n \/ j = n + 1 BY <1>0
  <2>7. n + 1 \in 1..(n + 1) /\ \A j \in 1..n : j \in 1..(n + 1) BY <1>0
  <2>8. \A j, k \in 1..(n + 1) : new[j].emotion = new[k].emotion => j = k
    BY <1>7, <2>2, <2>4, <2>5, <2>6
  <2>9. \A emotion : (\E j \in 1..(n + 1) : new[j].emotion = emotion) <=>
                       \E q \in 1..(p + 1) : h[q].of.emotion = emotion
    <3>1. \A emotion : (\E j \in 1..(n + 1) : new[j].emotion = emotion) <=>
                         s.emotion = emotion \/ \E j \in 1..n : list[j].emotion = emotion
      BY <2>2, <2>4, <2>6, <2>7
    <3> QED BY <1>7, <1>9, <3>1
  <2>10. FirstAndLast(h, p + 1, s.emotion, p + 1, p + 1)
    <3>1. \A q \in 1..p : h[q].of.emotion # s.emotion BY <1>7, <2>5
    <3> QED BY <1>5, <3>1 DEF FirstAndLast
  <2>11. \A j \in 1..(n + 1) : \E a, b \in 1..(p + 1) :
           /\ FirstAndLast(h, p + 1, new[j].emotion, a, b)
           /\ new[j].intensity = h[b].of.intensity
           /\ new[j].first = h[a].turn /\ new[j].updated = h[b].turn
    <3>1. ASSUME NEW j \in 1..n
          PROVE  \E a, b \in 1..(p + 1) :
                   /\ FirstAndLast(h, p + 1, new[j].emotion, a, b)
                   /\ new[j].intensity = h[b].of.intensity
                   /\ new[j].first = h[a].turn /\ new[j].updated = h[b].turn
      BY <1>8, <2>4, <2>5
    <3>2. \E a, b \in 1..(p + 1) :
            /\ FirstAndLast(h, p + 1, e.emotion, a, b)
            /\ e.intensity = h[b].of.intensity
            /\ e.first = h[a].turn /\ e.updated = h[b].turn
      BY <1>6, <2>2, <2>10
    <3> QED BY <2>4, <2>6, <3>1, <3>2
  <2>12. new \in Seq(Felt) /\ Len(new) = n + 1 BY <2>4
  <2> QED BY ONLY <2>8, <2>9, <2>11, <2>12, Zenon DEF FeltReadings
<1>11. CASE i \in I
  <2>1. i \in 1..n /\ i # 0 /\ list[i].emotion = s.emotion /\ list[i] \in Felt BY <1>0, <1>11
  <2>2. PICK e : e = [list[i] EXCEPT !.intensity = s.intensity, !.updated = turn] OBVIOUS
  <2>3. /\ e \in Felt /\ e.emotion = s.emotion /\ e.intensity = s.intensity
        /\ e.first = list[i].first /\ e.updated = turn
    BY <1>4, <2>1, <2>2 DEF Felt
  <2>4. new = [list EXCEPT ![i].intensity = s.intensity, ![i].updated = turn] BY <1>3, <2>1
  <2>5. new[i] = e /\ \A j \in 1..n : j # i => new[j] = list[j] BY <1>0, <2>1, <2>2, <2>4
  <2>6. new \in Seq(Felt) /\ Len(new) = n
    <3>1. \A j \in 1..n : new[j] \in Felt BY <1>0, <2>3, <2>5
    <3>2. DOMAIN new = 1..n /\ new = [j \in 1..n |-> new[j]] BY <1>0, <2>4
    <3> HIDE DEF n
    <3>3. new \in [1..n -> Felt] BY <3>1, <3>2
    <3> QED BY <1>0, <3>3
  <2> HIDE DEF n, I
  <2>7. \A j \in 1..n : new[j].emotion = list[j].emotion BY <2>1, <2>3, <2>5
  <2>8. \A j, k \in 1..n : new[j].emotion = new[k].emotion => j = k BY <1>7, <2>7
  <2>9. \A emotion : (\E j \in 1..n : new[j].emotion = emotion) <=>
                       \E q \in 1..(p + 1) : h[q].of.emotion = emotion
    <3>1. \A emotion : (\E j \in 1..n : new[j].emotion = emotion) <=>
                         \E j \in 1..n : list[j].emotion = emotion
      BY <2>7
    <3>2. \E j \in 1..n : list[j].emotion = s.emotion BY <2>1
    <3>3. ASSUME NEW emotion
          PROVE  (\E j \in 1..n : new[j].emotion = emotion) <=>
                   \E q \in 1..(p + 1) : h[q].of.emotion = emotion
      <4>1. (\E j \in 1..n : list[j].emotion = emotion) <=> \E q \in 1..p : h[q].of.emotion = emotion
        BY <1>7
      <4>2. s.emotion = emotion => \E j \in 1..n : list[j].emotion = emotion BY ONLY <3>2, Zenon
      <4> QED BY ONLY <1>9, <3>1, <4>1, <4>2, Zenon
    <3> QED BY ONLY <3>3, Zenon
  <2>10. ASSUME NEW j \in 1..n
         PROVE  \E a, b \in 1..(p + 1) :
                  /\ FirstAndLast(h, p + 1, new[j].emotion, a, b)
                  /\ new[j].intensity = h[b].of.intensity
                  /\ new[j].first = h[a].turn /\ new[j].updated = h[b].turn
    <3>1. CASE j = i
      <4>1. PICK a, b \in 1..p : FirstAndLast(h, p, s.emotion, a, b) /\ list[i].first = h[a].turn
        BY <1>7, <2>1
      <4>2. FirstAndLast(h, p + 1, s.emotion, a, p + 1)
        BY <1>5, <1>6, <4>1 DEF FirstAndLast
      <4> QED BY <1>6, <2>3, <2>5, <3>1, <4>1, <4>2
    <3>2. CASE j # i
      <4>1. list[j].emotion # s.emotion BY <1>7, <2>1, <3>2
      <4> QED BY <1>8, <2>5, <3>2, <4>1
    <3> QED BY <3>1, <3>2
  <2> QED BY ONLY <2>6, <2>8, <2>9, <2>10, Zenon DEF FeltReadings
<1> QED BY <1>2, <1>10, <1>11

\* What Feel makes of readings are readings.
LEMMA FeelType ==
  ASSUME NEW list \in Seq(Felt), NEW s \in Feelings, NEW turn \in Nat
  PROVE  Feel(list, s, turn) \in Seq(Felt)
<1> DEFINE n == Len(list)
<1>0. n \in Nat /\ DOMAIN list = 1..n OBVIOUS
<1>1. PICK i : i = SelectInSeq(list, LAMBDA f : f.emotion = s.emotion) OBVIOUS
<1>2. PICK new : new = Feel(list, s, turn) OBVIOUS
<1>3. new = IF i # 0 THEN [list EXCEPT ![i].intensity = s.intensity, ![i].updated = turn]
            ELSE Append(list, [emotion |-> s.emotion, intensity |-> s.intensity,
                               first |-> turn, updated |-> turn])
  BY <1>1, <1>2, Zenon DEF Feel
<1>4. s.emotion \in Emotions /\ s.intensity \in {x.intensity : x \in Feelings} BY DEF Emotions
<1>5. CASE i = 0
  <2>1. PICK e \in Felt :
          e = [emotion |-> s.emotion, intensity |-> s.intensity, first |-> turn, updated |-> turn]
    BY <1>4 DEF Felt
  <2>2. new = Append(list, e) BY <1>3, <1>5, <2>1
  <2> QED BY <1>2, <2>2
<1>6. CASE i # 0
  <2>1. new = [list EXCEPT ![i].intensity = s.intensity, ![i].updated = turn] BY <1>3, <1>6
  <2>2. PICK e : e = [list[i] EXCEPT !.intensity = s.intensity, !.updated = turn] OBVIOUS
  <2>3. i \in 1..n => e \in Felt /\ new[i] = e
    <3>1. i \in 1..n => list[i] \in Felt OBVIOUS
    <3>2. i \in 1..n => e \in Felt BY <1>4, <2>2, <3>1 DEF Felt
    <3>3. i \in 1..n => new[i] = e BY <1>0, <2>1, <2>2
    <3> QED BY <3>2, <3>3
  <2>4. \A j \in 1..n : j # i => new[j] = list[j] BY <1>0, <2>1
  <2>5. \A j \in 1..n : new[j] \in Felt BY <2>3, <2>4
  <2>6. DOMAIN new = 1..n /\ new = [j \in 1..n |-> new[j]] BY <1>0, <2>1
  <2> HIDE DEF n
  <2>7. new \in [1..n -> Felt] BY <2>5, <2>6
  <2> QED BY <1>0, <1>2, <2>7
<1> QED BY <1>5, <1>6

\* All that a message lets on of feelings.
LEMMA FeelingsStep ==
  ASSUME NEW list, NEW h, NEW p \in Nat, FeltReadings(list, h, p),
         NEW q \in Seq(Feelings), NEW turn \in Nat, NEW new, new = MergeEmotions(list, q, turn),
         \A i \in 1..Len(q) : h[p + i].of = q[i] /\ h[p + i].turn = turn
  PROVE  FeltReadings(new, h, p + Len(q))
<1> DEFINE n == Len(q)
           V == Seq(Felt)
           Body(g) == [s \in SUBSET (1..n) |->
                         IF s = {} THEN list ELSE Feel(g[s \ {Max(s)}], q[Max(s)], turn)]
           f == CHOOSE g : g = Body(g)
           step == [i \in 1..n |-> [v \in V |-> Feel(v, q[i], turn)]]
<1>0. n \in Nat /\ DOMAIN q = 1..n /\ \A i \in 1..n : q[i] \in Feelings BY ElementOfSeq
<1>1. new = f[1..n] BY <1>0, Zenon DEF MergeEmotions, FoldLeft, MapThenFoldSet
<1>2. list \in V BY DEF FeltReadings
<1>3. \A v \in V, i \in 1..n : Feel(v, q[i], turn) \in V BY <1>0, FeelType
<1> HIDE DEF V, n
<1>4. step \in [1..n -> [V -> V]]
  <2>1. \A i \in 1..n : [v \in V |-> Feel(v, q[i], turn)] \in [V -> V] BY <1>3
  <2> QED BY <2>1
<1>5. f = Body(f)
  <2>1. PICK g \in [SUBSET (1..n) -> V] : FoldsBy(g, n, list, step)
    <3> HIDE DEF step
    <3> QED BY <1>0, <1>2, <1>4, FoldExists, Zenon
  <2>2. ASSUME NEW s \in SUBSET (1..n), s # {}
        PROVE  g[s] = Feel(g[s \ {Max(s)}], q[Max(s)], turn)
    <3>1. Max(s) \in 1..n BY <1>0, <2>2, MaxUpTo
    <3>2. g[s \ {Max(s)}] \in V BY <2>1
    <3>3. g[s] = step[Max(s)][g[s \ {Max(s)}]] BY <2>1, <2>2 DEF FoldsBy
    <3> QED BY <3>1, <3>2, <3>3
  <2>3. g[{}] = list BY <2>1 DEF FoldsBy
  <2>4. \A s \in SUBSET (1..n) :
          g[s] = IF s = {} THEN list ELSE Feel(g[s \ {Max(s)}], q[Max(s)], turn)
    BY <2>2, <2>3
  <2>5. g = [s \in SUBSET (1..n) |-> g[s]] BY <2>1
  <2>6. g = Body(g) BY ONLY <2>4, <2>5, Zenon
  <2> HIDE DEF Body
  <2> QED BY <2>6
<1> HIDE DEF f
<1>6. PICK g \in [0..n -> V] : StepsTo(g, n, list, f[1..n], step)
  <2>1. f[{}] = list BY ONLY <1>5, {} \in SUBSET (1..n), Zenon
  <2>2. ASSUME NEW s \in SUBSET (1..n), s # {}, f[s \ {Max(s)}] \in V
        PROVE  f[s] = step[Max(s)][f[s \ {Max(s)}]]
    <3>1. Max(s) \in 1..n BY <1>0, <2>2, MaxUpTo
    <3>2. f[s] = Feel(f[s \ {Max(s)}], q[Max(s)], turn) BY ONLY <1>5, <2>2, s \in SUBSET (1..n), Zenon
    <3> QED BY <2>2, <3>1, <3>2
  <2> HIDE DEF step
  <2>3. FoldsIn(f, n, V, list, step) BY ONLY <2>1, <2>2, Zenon DEF FoldsIn
  <2> QED BY <1>0, <1>2, <1>4, <2>3, FoldRuns, Zenon
<1>7. \A k \in 1..n : g[k] = Feel(g[k - 1], q[k], turn)
  <2> SUFFICES ASSUME NEW k \in 1..n PROVE g[k] = Feel(g[k - 1], q[k], turn) OBVIOUS
  <2>1. g[k - 1] \in V BY <1>0
  <2> QED BY <1>6, <2>1 DEF StepsTo
<1> HIDE DEF step
<1> DEFINE S == {k \in 0..n : FeltReadings(g[k], h, p + k)}
<1>8. 0 \in S
  <2>1. p + 0 = p /\ 0 \in 0..n BY <1>0
  <2> QED BY <1>6, <2>1 DEF StepsTo
<1>9. \A k \in 1..n : k - 1 \in S => k \in S
  <2> SUFFICES ASSUME NEW k \in 1..n, k - 1 \in S PROVE k \in S OBVIOUS
  <2>1. PICK m \in Nat : m = p + k - 1 BY <1>0
  <2>2. p + (k - 1) = m /\ m + 1 = p + k BY <1>0, <2>1
  <2>3. FeltReadings(g[k - 1], h, m) BY <2>2
  <2>4. q[k] \in Feelings /\ g[k] = Feel(g[k - 1], q[k], turn) BY <1>0, <1>7
  <2>5. h[m + 1].of = q[k] /\ h[m + 1].turn = turn BY <2>2 DEF n
  <2>6. FeltReadings(g[k], h, m + 1) BY <2>3, <2>4, <2>5, FeelStep
  <2>7. k \in 0..n BY <1>0
  <2> QED BY <2>2, <2>6, <2>7
<1>10. n \in S
  <2> HIDE DEF S
  <2>1. 0..n \subseteq S BY <1>0, <1>8, <1>9, Climb
  <2> QED BY <1>0, <2>1
<1> QED BY <1>1, <1>6, <1>10 DEF StepsTo, n


-----------------------------------------------------------------------------
\* Where two histories agree, they bear out the same lists.
LEMMA SameHistory ==
  ASSUME NEW h, NEW g, NEW p \in Nat, \A i \in 1..p : g[i] = h[i]
  PROVE  /\ \A list, named : Records(list, h, p, named) => Records(list, g, p, named)
         /\ \A list : FeltReadings(list, h, p) => FeltReadings(list, g, p)
<1>1. \A q \in 1..p : LastWord(h, p, q) => LastWord(g, p, q) BY DEF LastWord
<1>2. ASSUME NEW known, NEW name, AsLastTold(known, h, p, name)
      PROVE  AsLastTold(known, g, p, name)
  <2>1. \A j \in 1..Len(known) : \E q \in 1..p :
          LastWord(g, p, q) /\ g[q].of.name = name /\ known[j] = Attribute(g[q].of)
    <3> SUFFICES ASSUME NEW j \in 1..Len(known)
                 PROVE  \E q \in 1..p :
                          LastWord(g, p, q) /\ g[q].of.name = name /\ known[j] = Attribute(g[q].of)
      OBVIOUS
    <3>1. PICK q \in 1..p : LastWord(h, p, q) /\ h[q].of.name = name /\ known[j] = Attribute(h[q].of)
      BY <1>2 DEF AsLastTold
    <3>2. g[q] = h[q] OBVIOUS
    <3> QED BY <1>1, <3>1, <3>2
  <2>2. \A q \in 1..p : g[q].of.name = name =>
          \E j \in 1..Len(known) : known[j].attribute = g[q].of.attribute
    BY <1>2 DEF AsLastTold
  <2> QED BY ONLY <1>2, <2>1, <2>2, Zenon DEF AsLastTold
<1>3. ASSUME NEW e, DatedByLast(e, h, p) PROVE DatedByLast(e, g, p)
  BY <1>3 DEF DatedByLast
<1>4. ASSUME NEW list, NEW named, OfEach(list, h, p, named) PROVE OfEach(list, g, p, named)
  <2>1. \A name : (\E q \in 1..p : g[q].of.name = name) <=> \E q \in 1..p : h[q].of.name = name
    OBVIOUS
  <2> QED BY ONLY <1>4, <2>1, Zenon DEF OfEach
<1>5. ASSUME NEW list, NEW named, Records(list, h, p, named) PROVE Records(list, g, p, named)
  BY ONLY <1>2, <1>3, <1>4, <1>5, Zenon DEF Records
<1>6. ASSUME NEW list, FeltReadings(list, h, p) PROVE FeltReadings(list, g, p)
  <2>1. \A emotion : (\E q \in 1..p : g[q].of.emotion = emotion) <=> \E q \in 1..p : h[q].of.emotion = emotion
    OBVIOUS
  <2>2. \A i \in 1..Len(list) : \E a, b \in 1..p :
          /\ FirstAndLast(g, p, list[i].emotion, a, b)
          /\ list[i].intensity = g[b].of.intensity
          /\ list[i].first = g[a].turn /\ list[i].updated = g[b].turn
    <3> SUFFICES ASSUME NEW i \in 1..Len(list)
                 PROVE  \E a, b \in 1..p : /\ FirstAndLast(g, p, list[i].emotion, a, b)
                                           /\ list[i].intensity = g[b].of.intensity
                                           /\ list[i].first = g[a].turn /\ list[i].updated = g[b].turn
      OBVIOUS
    <3>1. PICK a, b \in 1..p : /\ FirstAndLast(h, p, list[i].emotion, a, b)
                               /\ list[i].intensity = h[b].of.intensity
                               /\ list[i].first = h[a].turn /\ list[i].updated = h[b].turn
      BY <1>6 DEF FeltReadings
    <3>2. FirstAndLast(g, p, list[i].emotion, a, b) BY <3>1 DEF FirstAndLast
    <3> QED BY <3>1, <3>2
  <2> QED BY ONLY <1>6, <2>1, <2>2, Zenon DEF FeltReadings
<1> QED BY <1>5, <1>6

\* What the histories hold.
Entries(S) == [turn : Nat, of : S]

\* new is h and then what q says at a turn.
Grows(new, h, q, turn) == new = h \o Dated(q, turn)
GrownBy(new, S, h, q, turn) ==
  /\ new \in Seq(Entries(S)) /\ Len(new) = Len(h) + Len(q)
  /\ \A i \in 1..Len(h) : new[i] = h[i]
  /\ \A i \in 1..Len(q) : new[Len(h) + i].of = q[i] /\ new[Len(h) + i].turn = turn

\* What is dated goes to the end of the history.
LEMMA DatedAtEnd ==
  ASSUME NEW S, NEW h \in Seq(Entries(S)), NEW q \in Seq(S), NEW turn \in Nat,
         NEW new, Grows(new, h, q, turn)
  PROVE  GrownBy(new, S, h, q, turn)
<1>1. DOMAIN q = 1..Len(q) /\ Len(q) \in Nat /\ \A i \in 1..Len(q) : q[i] \in S OBVIOUS
<1>2. PICK d : d = Dated(q, turn) OBVIOUS
<1>3. d = [i \in 1..Len(q) |-> [turn |-> turn, of |-> q[i]]] BY <1>1, <1>2 DEF Dated
<1>4. PICK E : E = Entries(S) OBVIOUS
<1>5. PICK n \in Nat : n = Len(q) BY <1>1
<1>6. d \in Seq(E) /\ Len(d) = n
  <2>1. d \in [1..n -> E] BY <1>1, <1>3, <1>4, <1>5 DEF Entries
  <2> QED BY ONLY n \in Nat, <2>1
<1>7. \A i \in 1..n : d[i].of = q[i] /\ d[i].turn = turn BY <1>3, <1>5
<1>8. new = h \o d BY <1>2, Zenon DEF Grows
<1>9. h \in Seq(E) BY <1>4
<1>10. /\ new \in Seq(E) /\ Len(new) = Len(h) + n
       /\ \A i \in 1..Len(h) : new[i] = h[i]
       /\ \A i \in 1..n : new[Len(h) + i] = d[i]
  <2>0. d \in Seq(E) BY <1>6
  <2>1. /\ h \o d \in Seq(E) /\ Len(h \o d) = Len(h) + Len(d)
        /\ \A i \in 1..Len(h) : (h \o d)[i] = h[i]
        /\ \A i \in 1..Len(d) : (h \o d)[Len(h) + i] = d[i]
    BY ONLY <1>9, <2>0, Joined
  <2> QED BY ONLY <1>6, <1>8, <2>1, Zenon
<1>11. \A i \in 1..n : new[Len(h) + i].of = q[i] /\ new[Len(h) + i].turn = turn
  BY ONLY <1>7, <1>10, Zenon
<1> QED BY ONLY <1>4, <1>5, <1>10, <1>11, Zenon DEF GrownBy

\* The inductive invariant of what is kept of the people: the records and the
\* readings are what was told and felt, up to the message that is taken in.
PeopleInv ==
  /\ messageNo \in Nat
  /\ toldAll \in Seq(Entries(Updates)) /\ feltAll \in Seq(Entries(Feelings))
  /\ \A p \in 1..Len(toldAll) : toldAll[p].turn <= messageNo
  /\ Records(entities, toldAll, Len(toldAll), namedAll)
  /\ FeltReadings(emotions, feltAll, Len(feltAll))

\* At first nothing is kept and nothing was told.
LEMMA PeopleStart == PeopleInit => PeopleInv
<1> SUFFICES ASSUME PeopleInit PROVE PeopleInv OBVIOUS
<1>1. /\ messageNo = 0 /\ entities = <<>> /\ emotions = <<>>
      /\ namedAll = {} /\ toldAll = <<>> /\ feltAll = <<>>
  BY DEF PeopleInit
<1>2. Len(toldAll) = 0 /\ Len(feltAll) = 0 /\ Len(entities) = 0 /\ Len(emotions) = 0 BY <1>1
<1>3. \A x : x \notin 1..0 OBVIOUS
<1>4. Records(entities, toldAll, 0, namedAll)
  BY <1>1, <1>2, <1>3 DEF Records, OfEach
<1>5. FeltReadings(emotions, feltAll, 0)
  BY <1>1, <1>2, <1>3 DEF FeltReadings
<1> QED BY <1>1, <1>2, <1>4, <1>5 DEF PeopleInv

\* A message.
LEMMA TakeInStep ==
  ASSUME PeopleInv, NEW message \in Messages, TakeIn(message)
  PROVE  PeopleInv'
<1>1. PICK turn \in Nat : turn = messageNo + 1 /\ messageNo' = turn BY DEF TakeIn, PeopleInv
<1>2. PICK q \in Seq(Updates) : q = message.updates /\ \A i \in 1..Len(q) : q[i].name \in Names
  <2>1. message.updates \in Seq(Updates) BY PeopleAssumption
  <2>2. ASSUME NEW i \in 1..Len(message.updates) PROVE message.updates[i].name \in Names
    <3>1. DOMAIN message.updates = 1..Len(message.updates) BY <2>1
    <3>2. message.updates[i] \in ToSet(message.updates) BY <3>1 DEF ToSet
    <3> QED BY <3>2 DEF Names
  <2> QED BY <2>1, <2>2
<1>3. PICK names \in Seq(Names) : names = message.names BY PeopleAssumption
<1>4. PICK signals \in Seq(Feelings) : signals = message.feelings BY PeopleAssumption
<1>5. PICK p \in Nat : p = Len(toldAll) BY DEF PeopleInv
<1>6. /\ toldAll' \in Seq(Entries(Updates)) /\ Len(toldAll') = p + Len(q)
      /\ \A i \in 1..p : toldAll'[i] = toldAll[i]
      /\ \A i \in 1..Len(q) : toldAll'[p + i].of = q[i] /\ toldAll'[p + i].turn = turn
  <2>1. toldAll' = toldAll \o Dated(q, turn) BY <1>1, <1>2 DEF TakeIn
  <2>2. toldAll \in Seq(Entries(Updates)) BY DEF PeopleInv
  <2>3. Grows(toldAll', toldAll, q, turn) BY <2>1, Zenon DEF Grows
  <2>4. GrownBy(toldAll', Updates, toldAll, q, turn) BY <2>2, <2>3, DatedAtEnd, Zenon
  <2> QED BY <1>5, <2>4 DEF GrownBy
<1>7. /\ feltAll' \in Seq(Entries(Feelings)) /\ Len(feltAll') = Len(feltAll) + Len(signals)
      /\ \A i \in 1..Len(feltAll) : feltAll'[i] = feltAll[i]
      /\ \A i \in 1..Len(signals) :
           feltAll'[Len(feltAll) + i].of = signals[i] /\ feltAll'[Len(feltAll) + i].turn = turn
  <2>1. feltAll' = feltAll \o Dated(signals, turn) BY <1>1, <1>4 DEF TakeIn
  <2>2. feltAll \in Seq(Entries(Feelings)) BY DEF PeopleInv
  <2>3. Grows(feltAll', feltAll, signals, turn) BY <2>1, Zenon DEF Grows
  <2>4. GrownBy(feltAll', Feelings, feltAll, signals, turn) BY <2>2, <2>3, DatedAtEnd, Zenon
  <2> QED BY <2>4 DEF GrownBy
<1>8. Records(entities, toldAll', p, namedAll)
  <2>1. Records(entities, toldAll, p, namedAll) BY <1>5 DEF PeopleInv
  <2> QED BY <1>6, <2>1, SameHistory
<1>9. \A i \in 1..p : toldAll'[i].turn \in Nat /\ toldAll'[i].turn <= turn
  <2>1. \A i \in 1..p : toldAll[i] \in Entries(Updates) /\ toldAll[i].turn <= messageNo
    BY <1>5 DEF PeopleInv
  <2>2. \A i \in 1..p : toldAll[i].turn \in Nat BY <2>1 DEF Entries
  <2>3. PICK m \in Nat : m = messageNo /\ turn = m + 1 BY <1>1 DEF PeopleInv
  <2>4. \A i \in 1..p : toldAll[i].turn <= turn
    <3>1. \A t \in Nat : t <= m => t <= turn BY ONLY <2>3, m \in Nat
    <3> QED BY ONLY <2>1, <2>2, <2>3, <3>1, Zenon
  <2>5. \A i \in 1..p : toldAll'[i] = toldAll[i] BY <1>6
  <2> QED BY ONLY <2>2, <2>4, <2>5, Zenon
<1>10. PICK met : met = AllNamed(entities, names, turn) OBVIOUS
<1>11. entities' = AllTold(met, q, turn)
  <2>1. entities' = MergeEntities(entities, message, turn) BY <1>1 DEF TakeIn
  <2> QED BY <1>2, <1>3, <1>10, <2>1, Zenon DEF MergeEntities, AllTold, AllNamed
<1>12. namedAll' = namedAll \cup ToSet(names) BY <1>3 DEF TakeIn
<1>13. Records(met, toldAll', p, namedAll') BY <1>8, <1>10, <1>12, NamesStep
<1>14. Records(entities', toldAll', Len(toldAll'), namedAll')
  <2>1. Records(entities', toldAll', p + Len(q), namedAll')
    BY <1>2, <1>6, <1>9, <1>11, <1>13, UpdatesStep
  <2> QED BY <1>6, <2>1
<1>15. FeltReadings(emotions', feltAll', Len(feltAll'))
  <2>1. PICK r \in Nat : r = Len(feltAll)
    <3>1. feltAll \in Seq(Entries(Feelings)) BY DEF PeopleInv
    <3> QED BY <3>1
  <2>2. FeltReadings(emotions, feltAll', r)
    <3>1. FeltReadings(emotions, feltAll, r) BY <2>1 DEF PeopleInv
    <3> QED BY <1>7, <2>1, <3>1, SameHistory
  <2>3. emotions' = MergeEmotions(emotions, signals, turn) BY <1>1, <1>4 DEF TakeIn
  <2>4. FeltReadings(emotions', feltAll', r + Len(signals)) BY <1>7, <2>1, <2>2, <2>3, FeelingsStep
  <2> QED BY <1>7, <2>1, <2>4
<1>16. \A i \in 1..Len(toldAll') : toldAll'[i].turn <= messageNo'
  <2> SUFFICES ASSUME NEW i \in 1..Len(toldAll') PROVE toldAll'[i].turn <= messageNo' OBVIOUS
  <2>1. CASE i \in 1..p BY <1>1, <1>9, <2>1
  <2>2. CASE i \notin 1..p
    <3>1. i - p \in 1..Len(q) /\ i = p + (i - p) BY <1>6, <2>2
    <3>2. toldAll'[i].turn = turn BY <1>6, <3>1
    <3> QED BY <1>1, <3>2
  <2> QED BY <2>1, <2>2
<1> QED BY <1>1, <1>6, <1>7, <1>14, <1>15, <1>16 DEF PeopleInv

\* What is on record is what was told.
LEMMA RecordsAsTold == PeopleInv => OneRecordAsTold
<1> SUFFICES ASSUME PeopleInv, NEW name \in Names
             PROVE  LET found == {i \in DOMAIN entities : entities[i].name = name}
                    IN /\ found # {} <=> name \in namedAll \/ Told(name) # {}
                       /\ \A i \in found :
                            LET known == entities[i].attributes IN
                            /\ found = {i}
                            /\ ToSet(known) = {Attribute(toldAll[p].of) : p \in {q \in Told(name) : Standing(q)}}
                            /\ \A j, k \in DOMAIN known : known[j].attribute = known[k].attribute => j = k
                            /\ entities[i] \in Recalled(entities, messageNo) <=>
                                 \E p \in Told(name) : messageNo - toldAll[p].turn <= RecallWindow
  BY Zenon DEF OneRecordAsTold
<1> DEFINE found == {i \in DOMAIN entities : entities[i].name = name}
<1>1. PICK p \in Nat : p = Len(toldAll) BY DEF PeopleInv
<1>2. PICK n \in Nat : n = Len(entities) BY DEF PeopleInv, Records
<1>3. /\ entities \in Seq(Persons) /\ DOMAIN entities = 1..n /\ OfEach(entities, toldAll, p, namedAll)
      /\ \A i \in 1..n : /\ AsLastTold(entities[i].attributes, toldAll, p, entities[i].name)
                         /\ DatedByLast(entities[i], toldAll, p)
  BY <1>1, <1>2 DEF PeopleInv, Records
<1>4. /\ toldAll \in Seq(Entries(Updates)) /\ DOMAIN toldAll = 1..p
      /\ \A q \in 1..p : toldAll[q] \in Entries(Updates)
  BY <1>1 DEF PeopleInv
<1>5. Told(name) = {q \in 1..p : toldAll[q].of.name = name} BY <1>4 DEF Told
<1>6. found # {} <=> name \in namedAll \/ Told(name) # {}
  <2>1. (\E i \in 1..n : entities[i].name = name) <=> name \in namedAll \/ \E q \in 1..p : toldAll[q].of.name = name
    BY <1>2, <1>3 DEF OfEach
  <2> QED BY <1>3, <1>5, <2>1
<1>7. ASSUME NEW q \in Told(name) PROVE Standing(q) <=> LastWord(toldAll, p, q)
  <2>1. toldAll[q].of.name = name BY <1>5
  <2> QED BY <1>5, <2>1 DEF Standing, LastWord
<1>8. ASSUME NEW i \in found
      PROVE  LET known == entities[i].attributes IN
             /\ found = {i}
             /\ ToSet(known) = {Attribute(toldAll[r].of) : r \in {q \in Told(name) : Standing(q)}}
             /\ \A j, k \in DOMAIN known : known[j].attribute = known[k].attribute => j = k
             /\ entities[i] \in Recalled(entities, messageNo) <=>
                  \E r \in Told(name) : messageNo - toldAll[r].turn <= RecallWindow
  <2>1. i \in 1..n /\ entities[i].name = name /\ entities[i] \in Persons BY <1>2, <1>3
  <2>2. found = {i} BY <1>2, <1>3, <2>1 DEF OfEach
  <2>3. PICK known \in Seq(Attributes) : known = entities[i].attributes BY <2>1 DEF Persons
  <2>4. AsLastTold(known, toldAll, p, name) /\ DatedByLast(entities[i], toldAll, p)
    BY <1>3, <2>1, <2>3
  <2>5. DOMAIN known = 1..Len(known) OBVIOUS
  <2>6. \A j, k \in DOMAIN known : known[j].attribute = known[k].attribute => j = k
    BY <2>4, <2>5 DEF AsLastTold
  <2>7. \A j \in 1..Len(known) : \E q \in Told(name) :
          LastWord(toldAll, p, q) /\ known[j] = Attribute(toldAll[q].of)
    BY <1>5, <2>4 DEF AsLastTold
  <2>8. \A q \in Told(name) : \E j \in 1..Len(known) : known[j].attribute = toldAll[q].of.attribute
    BY <1>5, <2>4 DEF AsLastTold
  <2>9. ASSUME NEW q \in Told(name), LastWord(toldAll, p, q)
        PROVE  \E j \in 1..Len(known) : known[j] = Attribute(toldAll[q].of)
    <3>1. PICK j \in 1..Len(known) : known[j].attribute = toldAll[q].of.attribute BY <2>8
    <3>2. PICK r \in Told(name) : LastWord(toldAll, p, r) /\ known[j] = Attribute(toldAll[r].of)
      BY <2>7
    <3>3. toldAll[r].of.attribute = toldAll[q].of.attribute BY <3>1, <3>2 DEF Attribute
    <3>4. q <= r /\ r <= q BY <1>5, <2>9, <3>2, <3>3 DEF LastWord
    <3>5. q = r BY <1>5, <3>4
    <3> QED BY <3>2, <3>5
  <2>10. ToSet(known) = {Attribute(toldAll[r].of) : r \in {q \in Told(name) : Standing(q)}}
    <3>1. ToSet(known) = {known[j] : j \in 1..Len(known)} BY <2>5 DEF ToSet
    <3>2. \A j \in 1..Len(known) :
            known[j] \in {Attribute(toldAll[r].of) : r \in {q \in Told(name) : Standing(q)}}
      BY <1>7, <2>7
    <3>3. \A r \in {q \in Told(name) : Standing(q)} :
            Attribute(toldAll[r].of) \in {known[j] : j \in 1..Len(known)}
      BY <1>7, <2>9
    <3> QED BY <3>1, <3>2, <3>3
  <2>11. known # <<>> <=> Told(name) # {}
    <3>1. known # <<>> <=> \E j \in 1..Len(known) : TRUE
      <4>1. known # <<>> <=> Len(known) # 0 OBVIOUS
      <4>2. Len(known) # 0 => 1 \in 1..Len(known) OBVIOUS
      <4>3. \A j \in 1..Len(known) : Len(known) # 0 OBVIOUS
      <4> QED BY ONLY <4>1, <4>2, <4>3, Zenon
    <3> QED BY <2>7, <2>8, <3>1
  <2>12. entities[i] \in Recalled(entities, messageNo) <=>
           \E r \in Told(name) : messageNo - toldAll[r].turn <= RecallWindow
    <3>1. entities[i] \in ToSet(entities) BY <1>3, <2>1 DEF ToSet
    <3>2. entities[i] \in Recalled(entities, messageNo) <=>
            known # <<>> /\ messageNo - entities[i].updated <= RecallWindow
      BY <2>3, <3>1 DEF Recalled, Described
    <3>3. \A r \in Told(name) : toldAll[r].turn \in Nat /\ toldAll[r].turn <= entities[i].updated
      <4>1. \A r \in Told(name) : toldAll[r] \in Entries(Updates) BY <1>4, <1>5
      <4>2. \A r \in Told(name) : toldAll[r].turn \in Nat BY <4>1 DEF Entries
      <4>3. \A r \in Told(name) : toldAll[r].turn <= entities[i].updated
        BY <1>5, <2>1, <2>4 DEF DatedByLast
      <4> QED BY <4>2, <4>3
    <3>4. known # <<>> => \E r \in Told(name) : toldAll[r].turn = entities[i].updated
      BY <1>5, <2>1, <2>3, <2>4 DEF DatedByLast
    <3>5. messageNo \in Nat /\ RecallWindow \in Nat /\ entities[i].updated \in Nat
      BY <2>1, PeopleAssumption DEF PeopleInv, Persons
    <3>6. ASSUME NEW r \in Told(name), messageNo - toldAll[r].turn <= RecallWindow
          PROVE  known # <<>> /\ messageNo - entities[i].updated <= RecallWindow
      BY <2>11, <3>3, <3>5, <3>6
    <3> QED BY <3>2, <3>4, <3>6
  <2> QED BY ONLY <2>2, <2>3, <2>6, <2>10, <2>12, Zenon
<1> QED BY <1>6, <1>8, Zenon

\* What is kept of a feeling is what was felt first and last.
LEMMA ReadingsAsTold == PeopleInv => OneReadingPerEmotion
<1> SUFFICES ASSUME PeopleInv, NEW emotion \in Emotions
             PROVE  LET found == {i \in DOMAIN emotions : emotions[i].emotion = emotion}
                        times == {p \in DOMAIN feltAll : feltAll[p].of.emotion = emotion}
                    IN /\ found # {} <=> times # {}
                       /\ \A i \in found :
                            /\ found = {i}
                            /\ \E first, last \in times :
                                 /\ \A p \in times : first <= p /\ p <= last
                                 /\ emotions[i] = [emotion |-> emotion, intensity |-> feltAll[last].of.intensity,
                                                   first |-> feltAll[first].turn, updated |-> feltAll[last].turn]
  BY Zenon DEF OneReadingPerEmotion
<1> DEFINE found == {i \in DOMAIN emotions : emotions[i].emotion = emotion}
           times == {p \in DOMAIN feltAll : feltAll[p].of.emotion = emotion}
<1>1. PICK p \in Nat : p = Len(feltAll) BY DEF PeopleInv
<1>2. PICK n \in Nat : n = Len(emotions) BY DEF PeopleInv, FeltReadings
<1>3. FeltReadings(emotions, feltAll, p) /\ emotions \in Seq(Felt) /\ DOMAIN emotions = 1..n
  <2>1. FeltReadings(emotions, feltAll, p) BY <1>1 DEF PeopleInv
  <2>2. emotions \in Seq(Felt) BY <2>1 DEF FeltReadings
  <2> QED BY <1>2, <2>1, <2>2
<1>4. DOMAIN feltAll = 1..p BY <1>1 DEF PeopleInv
<1>5. times = {q \in 1..p : feltAll[q].of.emotion = emotion} BY <1>4
<1>6. found # {} <=> times # {}
  <2>1. (\E i \in 1..n : emotions[i].emotion = emotion) <=> \E q \in 1..p : feltAll[q].of.emotion = emotion
    BY <1>2, <1>3 DEF FeltReadings
  <2> QED BY <1>3, <1>5, <2>1
<1>7. ASSUME NEW i \in found
      PROVE  /\ found = {i}
             /\ \E first, last \in times :
                  /\ \A q \in times : first <= q /\ q <= last
                  /\ emotions[i] = [emotion |-> emotion, intensity |-> feltAll[last].of.intensity,
                                    first |-> feltAll[first].turn, updated |-> feltAll[last].turn]
  <2>1. i \in 1..n /\ emotions[i].emotion = emotion /\ emotions[i] \in Felt BY <1>2, <1>3
  <2>2. found = {i} BY <1>2, <1>3, <2>1 DEF FeltReadings
  <2>3. PICK a, b \in 1..p : /\ FirstAndLast(feltAll, p, emotion, a, b)
                             /\ emotions[i].intensity = feltAll[b].of.intensity
                             /\ emotions[i].first = feltAll[a].turn /\ emotions[i].updated = feltAll[b].turn
    BY <1>2, <1>3, <2>1 DEF FeltReadings
  <2>4. emotions[i] = [emotion |-> emotion, intensity |-> feltAll[b].of.intensity,
                       first |-> feltAll[a].turn, updated |-> feltAll[b].turn]
    BY <2>1, <2>3 DEF Felt
  <2>5. a \in times /\ b \in times /\ \A q \in times : a <= q /\ q <= b
    BY <1>5, <2>3 DEF FirstAndLast
  <2> QED BY <2>2, <2>4, <2>5, Zenon
<1> QED BY <1>6, <1>7, Zenon

\* Whatever messages say of people and feelings, and in whatever order, the Journey
\* keeps one record of each, as it was told last (_merge_entities,
\* _merge_emotional_signals), and recalls it for as long as that is recent.
THEOREM PeopleAlwaysAsTold == PeopleSpec => []PeopleAsTold
<1>1. PeopleInit => PeopleInv BY PeopleStart
<1>2. PeopleInv /\ [PeopleNext]_peopleVars => PeopleInv'
  <2> SUFFICES ASSUME PeopleInv, [PeopleNext]_peopleVars PROVE PeopleInv' OBVIOUS
  <2>1. CASE PeopleNext BY <2>1, TakeInStep DEF PeopleNext
  <2>2. CASE UNCHANGED peopleVars BY <2>2 DEF peopleVars, PeopleInv
  <2> QED BY <2>1, <2>2
<1>3. PeopleInv => PeopleAsTold BY RecordsAsTold, ReadingsAsTold DEF PeopleAsTold
<1> QED BY <1>1, <1>2, <1>3, PTL DEF PeopleSpec

-----------------------------------------------------------------------------
(* Trajectory: what a stage makes of a list of items, what it tells of     *)
(* that, how the events of each item go on with its trail, and so what is  *)
(* read off them.                                                          *)

Moving == [topic : Topics, status : ItemStatuses, updated : Nat, trail : Seq(ItemStatuses), since : Nat]
Kinds == {"goal", "decision"}
Events == [kind : Kinds, topic : Topics, from : ItemStatuses, to : ItemStatuses, turn : Nat]

\* No two items have the same topic.
Apart(list) == \A i, j \in 1..Len(list) : list[i].topic = list[j].topic => i = j

\* A list between two stages: each item has the last status of its trail.
Settled(list, turn) ==
  /\ list \in Seq(Moving) /\ Apart(list)
  /\ \A i \in 1..Len(list) :
       LET it == list[i] IN
       /\ it.since <= it.updated /\ it.updated <= turn
       /\ it.trail # <<>> /\ Last(it.trail) = it.status

\* What a message made of old, before its history is taken down.
Touched(old, list, turn) ==
  /\ list \in Seq(Moving) /\ Apart(list) /\ Len(old) <= Len(list)
  /\ \A i \in 1..Len(old) :
       /\ list[i].topic = old[i].topic /\ list[i].trail = old[i].trail /\ list[i].since = old[i].since
       /\ old[i].updated <= list[i].updated /\ list[i].updated <= turn
       /\ list[i].status # old[i].status => list[i].updated = turn
  /\ \A i \in 1..Len(list) :
       i > Len(old) => list[i].trail = <<>> /\ list[i].since = turn /\ list[i].updated = turn

\* And after.
Became(old, new, turn) ==
  /\ Settled(new, turn) /\ Len(old) <= Len(new)
  /\ \A i \in 1..Len(old) :
       /\ new[i].topic = old[i].topic
       /\ new[i].trail = IF new[i].status = old[i].status THEN old[i].trail
                         ELSE Append(old[i].trail, new[i].status)
  /\ \A i \in 1..Len(new) : i > Len(old) => Len(new[i].trail) = 1

\* An item is what its fields are.
LEMMA MovingIs ==
  ASSUME NEW e
  PROVE  e \in Moving <=> /\ e = [topic |-> e.topic, status |-> e.status, updated |-> e.updated,
                                  trail |-> e.trail, since |-> e.since]
                          /\ e.topic \in Topics /\ e.status \in ItemStatuses /\ e.updated \in Nat
                          /\ e.trail \in Seq(ItemStatuses) /\ e.since \in Nat
BY DEF Moving

\* A topic is new to the list, or has its item.
LEMMA MergeOneStep ==
  ASSUME NEW old, NEW list, NEW turn \in Nat, Touched(old, list, turn), Len(old) \in Nat,
         NEW topic \in Topics, NEW fresh \in {"active", "open"},
         NEW new, new = MergeOne(list, topic, fresh, turn)
  PROVE  Touched(old, new, turn)
<1>1. PICK n \in Nat : n = Len(list) /\ DOMAIN list = 1..n BY DEF Touched
<1>2. CASE \E i \in DOMAIN list : list[i].topic = topic
  BY <1>2 DEF MergeOne
<1>3. CASE ~\E i \in DOMAIN list : list[i].topic = topic
  <2>1. PICK e \in Moving : e = Item(topic, fresh, turn)
    <3>1. fresh \in ItemStatuses BY DEF ItemStatuses
    <3>2. <<>> \in Seq(ItemStatuses) OBVIOUS
    <3>3. Item(topic, fresh, turn) \in Moving BY <3>1, <3>2 DEF Item, Moving
    <3> QED BY <3>3
  <2>2. e.topic = topic /\ e.trail = <<>> /\ e.since = turn /\ e.updated = turn BY <2>1 DEF Item
  <2>3. new = Append(list, e) BY <1>3, <2>1, Zenon DEF MergeOne
  <2>4. new \in Seq(Moving) /\ Len(new) = n + 1 /\ new[n + 1] = e /\ \A i \in 1..n : new[i] = list[i]
    <3>1. list \in Seq(Moving) BY DEF Touched
    <3> QED BY <1>1, <2>3, <3>1
  <2>5. Apart(new)
    <3>1. \A i \in 1..n : new[i].topic # topic BY <1>1, <1>3, <2>4
    <3>2. new[n + 1].topic = topic BY <2>2, <2>4
    <3>3. \A i, j \in 1..n : new[i].topic = new[j].topic => i = j BY <1>1, <2>4 DEF Touched, Apart
    <3>4. \A i \in 1..(n + 1) : i \in 1..n \/ i = n + 1 OBVIOUS
    <3> QED BY ONLY <2>4, <3>1, <3>2, <3>3, <3>4, Zenon DEF Apart
  <2>6. PICK m \in Nat : m = Len(old) /\ m <= n BY <1>1 DEF Touched
  <2>7. \A i \in 1..m : new[i] = list[i] BY <2>4, <2>6
  <2>8. \A i \in 1..(n + 1) : i > m => new[i].trail = <<>> /\ new[i].since = turn /\ new[i].updated = turn
    <3> SUFFICES ASSUME NEW i \in 1..(n + 1), i > m
                 PROVE  new[i].trail = <<>> /\ new[i].since = turn /\ new[i].updated = turn
      OBVIOUS
    <3>1. CASE i = n + 1 BY <2>2, <2>4, <3>1
    <3>2. CASE i \in 1..n BY <1>1, <2>4, <2>6, <3>2 DEF Touched
    <3> QED BY <3>1, <3>2
  <2>9. \A i \in 1..m :
          /\ new[i].topic = old[i].topic /\ new[i].trail = old[i].trail /\ new[i].since = old[i].since
          /\ old[i].updated <= new[i].updated /\ new[i].updated <= turn
          /\ new[i].status # old[i].status => new[i].updated = turn
    BY <2>6, <2>7 DEF Touched
  <2>10. m <= n + 1 BY <2>6
  <2> QED BY ONLY <2>4, <2>5, <2>6, <2>8, <2>9, <2>10, Zenon DEF Touched
<1> QED BY <1>2, <1>3

\* The place an update falls on, if any.
LEMMA TransitionDoes ==
  ASSUME NEW list \in Seq(Moving), NEW update \in StatusUpdates, NEW turn \in Nat,
         NEW new, new = Transition(list, update, turn)
  PROVE  /\ new \in Seq(Moving) /\ Len(new) = Len(list)
         /\ \A i \in 1..Len(list) :
              \/ new[i] = list[i]
              \/ /\ new[i].topic = list[i].topic /\ new[i].trail = list[i].trail
                 /\ new[i].since = list[i].since /\ new[i].updated = turn
<1>1. PICK n \in Nat : n = Len(list) /\ DOMAIN list = 1..n OBVIOUS
<1>2. \A i \in 1..n : list[i] \in Moving BY <1>1
<1> DEFINE I == {i \in 1..Len(list) : <<update.topic, list[i].topic>> \in Related}
           i == SelectInSeq(list, LAMBDA it : <<update.topic, it.topic>> \in Related)
<1>3. i = IF I # {} THEN Min(I) ELSE 0 BY Zenon DEF SelectInSeq
<1>4. I \in SUBSET (1..n) BY <1>1
<1>5. new = IF i = 0 THEN list
            ELSE [list EXCEPT ![i].status = update.status, ![i].updated = turn]
  BY Zenon DEF Transition
<1> HIDE DEF I, i
<1>6. i = 0 \/ i \in 1..n BY <1>1, <1>3, <1>4, FirstPlace
<1>7. CASE i = 0 BY <1>1, <1>5, <1>7
<1>8. CASE i \in 1..n
  <2>1. PICK e : e = [list[i] EXCEPT !.status = update.status, !.updated = turn] OBVIOUS
  <2>2. /\ e \in Moving /\ e.topic = list[i].topic /\ e.trail = list[i].trail
        /\ e.since = list[i].since /\ e.updated = turn
    <3>1. list[i] \in Moving BY <1>2, <1>8
    <3>2. update.status \in ItemStatuses BY DEF ItemStatuses
    <3> QED BY <2>1, <3>1, <3>2 DEF Moving
  <2>3. new = [list EXCEPT ![i].status = update.status, ![i].updated = turn] BY <1>5, <1>8
  <2>4. new[i] = e BY <1>1, <1>8, <2>1, <2>3
  <2>5. \A j \in 1..n : j # i => new[j] = list[j] BY <1>1, <1>8, <2>3
  <2>6. new \in [1..n -> Moving]
    <3>1. \A j \in 1..n : new[j] \in Moving BY <1>2, <2>2, <2>4, <2>5
    <3>2. DOMAIN new = 1..n /\ new = [j \in 1..n |-> new[j]] BY <1>1, <2>3
    <3> QED BY ONLY <3>1, <3>2
  <2>7. new \in Seq(Moving) /\ Len(new) = n BY ONLY <2>6, n \in Nat
  <2> QED BY <1>1, <2>2, <2>4, <2>5, <2>7
<1> QED BY <1>6, <1>7, <1>8

\* An update of a status leaves everything else as it was.
LEMMA TransitionStep ==
  ASSUME NEW old \in Seq(Moving), NEW list, NEW turn \in Nat, Touched(old, list, turn),
         NEW update \in StatusUpdates, NEW new, new = Transition(list, update, turn)
  PROVE  Touched(old, new, turn)
<1>1. list \in Seq(Moving) BY DEF Touched
<1>2. /\ new \in Seq(Moving) /\ Len(new) = Len(list)
      /\ \A i \in 1..Len(list) :
           \/ new[i] = list[i]
           \/ /\ new[i].topic = list[i].topic /\ new[i].trail = list[i].trail
              /\ new[i].since = list[i].since /\ new[i].updated = turn
  BY <1>1, TransitionDoes
<1>3. PICK n \in Nat, m \in Nat : n = Len(list) /\ m = Len(old) /\ m <= n BY <1>1 DEF Touched
<1>4. \A i \in 1..n : new[i].topic = list[i].topic /\ new[i].trail = list[i].trail /\ new[i].since = list[i].since
  BY <1>2, <1>3
<1>5. Apart(new)
  <2>1. \A i, j \in 1..n : list[i].topic = list[j].topic => i = j BY <1>3 DEF Touched, Apart
  <2> QED BY <1>2, <1>3, <1>4, <2>1 DEF Apart
<1>6. ASSUME NEW i \in 1..m
      PROVE  /\ new[i].topic = old[i].topic /\ new[i].trail = old[i].trail /\ new[i].since = old[i].since
             /\ old[i].updated <= new[i].updated /\ new[i].updated <= turn
             /\ new[i].status # old[i].status => new[i].updated = turn
  <2>1. i \in 1..n BY <1>3
  <2>2. /\ list[i].topic = old[i].topic /\ list[i].trail = old[i].trail /\ list[i].since = old[i].since
        /\ old[i].updated <= list[i].updated /\ list[i].updated <= turn
        /\ list[i].status # old[i].status => list[i].updated = turn
    BY <1>3 DEF Touched
  <2>3. CASE new[i] = list[i] BY <2>2, <2>3
  <2>4. CASE new[i].updated = turn
    <3>1. old[i] \in Moving /\ list[i] \in Moving BY <1>1, <1>3, <2>1
    <3>2. old[i].updated \in Nat /\ list[i].updated \in Nat BY <3>1 DEF Moving
    <3> QED BY <1>4, <2>1, <2>2, <2>4, <3>2
  <2> QED BY <1>2, <1>3, <2>1, <2>3, <2>4
<1>7. ASSUME NEW i \in 1..n, i > m
      PROVE  new[i].trail = <<>> /\ new[i].since = turn /\ new[i].updated = turn
  <2>1. list[i].trail = <<>> /\ list[i].since = turn /\ list[i].updated = turn BY <1>3, <1>7 DEF Touched
  <2>2. new[i].updated = list[i].updated \/ new[i].updated = turn BY <1>2, <1>3
  <2> QED BY <1>4, <2>1, <2>2
<1> QED BY ONLY <1>2, <1>3, <1>5, <1>6, <1>7, Zenon DEF Touched

\* The last of the items with a topic.
LEMMA CounterpartIs ==
  ASSUME NEW old \in Seq(Moving), NEW topic
  PROVE  LET i == Counterpart(old, topic) IN
         /\ i = 0 \/ i \in 1..Len(old)
         /\ i # 0 => old[i].topic = topic
         /\ i = 0 => \A j \in 1..Len(old) : old[j].topic # topic
<1> DEFINE I == {i \in 1..Len(old) : old[i].topic = topic}
           i == Counterpart(old, topic)
<1>1. i = IF I # {} THEN Max(I) ELSE 0 BY Zenon DEF Counterpart, SelectLastInSeq
<1>2. I \in SUBSET (1..Len(old)) /\ Len(old) \in Nat OBVIOUS
<1> HIDE DEF i
<1>3. CASE I = {}
  <2>1. i = 0 BY <1>1, <1>3
  <2>2. \A j \in 1..Len(old) : old[j].topic # topic BY <1>3
  <2> QED BY <2>1, <2>2 DEF i
<1>4. CASE I # {}
  <2>1. Max(I) \in I
    <3> HIDE DEF I
    <3> QED BY <1>2, <1>4, MaxUpTo
  <2>2. i \in I
    <3> HIDE DEF I
    <3> QED BY <1>1, <1>4, <2>1
  <2>3. i \in 1..Len(old) /\ i # 0 /\ old[i].topic = topic BY <1>2, <2>2
  <2> QED BY <2>3 DEF i
<1> QED BY <1>3, <1>4

\* What MergeOne makes of items are items.
LEMMA MergeOneType ==
  ASSUME NEW list \in Seq(Moving), NEW topic \in Topics, NEW fresh \in {"active", "open"}, NEW turn \in Nat
  PROVE  MergeOne(list, topic, fresh, turn) \in Seq(Moving)
<1>1. fresh \in ItemStatuses /\ <<>> \in Seq(ItemStatuses) BY DEF ItemStatuses
<1>2. Item(topic, fresh, turn) \in Moving BY <1>1 DEF Item, Moving
<1>3. PICK e \in Moving : e = Item(topic, fresh, turn) BY <1>2
<1>4. Append(list, e) \in Seq(Moving) OBVIOUS
<1> QED BY ONLY <1>3, <1>4, list \in Seq(Moving), Zenon DEF MergeOne

\* Merging goes topic by topic.
MergeRun(g, list, q, fresh, turn, new) ==
  /\ g \in [0..Len(q) -> Seq(Moving)] /\ g[0] = list /\ g[Len(q)] = new
  /\ \A k \in 1..Len(q) : g[k] = MergeOne(g[k - 1], q[k], fresh, turn)

\* Merging topics is such a run.
LEMMA MergeRuns ==
  ASSUME NEW list \in Seq(Moving), NEW q \in Seq(Topics), NEW fresh \in {"active", "open"},
         NEW turn \in Nat,
         NEW new, new = Merge(list, q, fresh, turn)
  PROVE  \E g : MergeRun(g, list, q, fresh, turn, new)
<1> DEFINE n == Len(q)
           V == Seq(Moving)
           Body(g) == [s \in SUBSET (1..n) |->
                         IF s = {} THEN list ELSE MergeOne(g[s \ {Max(s)}], q[Max(s)], fresh, turn)]
           f == CHOOSE g : g = Body(g)
           step == [i \in 1..n |-> [v \in V |-> MergeOne(v, q[i], fresh, turn)]]
<1>0. n \in Nat /\ DOMAIN q = 1..n /\ \A i \in 1..n : q[i] \in Topics BY ElementOfSeq
<1>1. new = f[1..n] BY <1>0, Zenon DEF Merge, FoldLeft, MapThenFoldSet
<1>2. list \in V OBVIOUS
<1>3. \A v \in V, i \in 1..n : MergeOne(v, q[i], fresh, turn) \in V BY <1>0, MergeOneType
<1> HIDE DEF V, n
<1>4. step \in [1..n -> [V -> V]]
  <2>1. \A i \in 1..n : [v \in V |-> MergeOne(v, q[i], fresh, turn)] \in [V -> V] BY <1>3
  <2> QED BY <2>1
<1>5. f = Body(f)
  <2>1. PICK g \in [SUBSET (1..n) -> V] : FoldsBy(g, n, list, step)
    <3> HIDE DEF step
    <3> QED BY <1>0, <1>2, <1>4, FoldExists, Zenon
  <2>2. ASSUME NEW s \in SUBSET (1..n), s # {}
        PROVE  g[s] = MergeOne(g[s \ {Max(s)}], q[Max(s)], fresh, turn)
    <3>1. Max(s) \in 1..n BY <1>0, <2>2, MaxUpTo
    <3>2. g[s \ {Max(s)}] \in V BY <2>1
    <3>3. g[s] = step[Max(s)][g[s \ {Max(s)}]] BY <2>1, <2>2 DEF FoldsBy
    <3> QED BY <3>1, <3>2, <3>3
  <2>3. g[{}] = list BY <2>1 DEF FoldsBy
  <2>4. \A s \in SUBSET (1..n) : g[s] = IF s = {} THEN list ELSE MergeOne(g[s \ {Max(s)}], q[Max(s)], fresh, turn)
    BY <2>2, <2>3
  <2>5. g = [s \in SUBSET (1..n) |-> g[s]] BY <2>1
  <2>6. g = Body(g) BY ONLY <2>4, <2>5, Zenon
  <2> HIDE DEF Body
  <2> QED BY <2>6
<1> HIDE DEF f
<1>6. PICK g \in [0..n -> V] : StepsTo(g, n, list, f[1..n], step)
  <2>1. f[{}] = list BY ONLY <1>5, {} \in SUBSET (1..n), Zenon
  <2>2. ASSUME NEW s \in SUBSET (1..n), s # {}, f[s \ {Max(s)}] \in V
        PROVE  f[s] = step[Max(s)][f[s \ {Max(s)}]]
    <3>1. Max(s) \in 1..n BY <1>0, <2>2, MaxUpTo
    <3>2. f[s] = MergeOne(f[s \ {Max(s)}], q[Max(s)], fresh, turn)
      BY ONLY <1>5, <2>2, s \in SUBSET (1..n), Zenon
    <3> QED BY <2>2, <3>1, <3>2
  <2> HIDE DEF step
  <2>3. FoldsIn(f, n, V, list, step) BY ONLY <2>1, <2>2, Zenon DEF FoldsIn
  <2> QED BY <1>0, <1>2, <1>4, <2>3, FoldRuns, Zenon
<1>7. \A k \in 1..n : g[k] = MergeOne(g[k - 1], q[k], fresh, turn)
  <2> SUFFICES ASSUME NEW k \in 1..n PROVE g[k] = MergeOne(g[k - 1], q[k], fresh, turn) OBVIOUS
  <2>1. g[k - 1] \in V BY <1>0
  <2> QED BY <1>6, <2>1 DEF StepsTo
<1>8. g[0] = list /\ g[n] = new BY <1>1, <1>6, Zenon DEF StepsTo
<1> QED BY ONLY <1>7, <1>8, g \in [0..n -> V], Zenon DEF n, V, MergeRun

\* What Transition makes of items are items.
LEMMA TransitionType ==
  ASSUME NEW list \in Seq(Moving), NEW update \in StatusUpdates, NEW turn \in Nat
  PROVE  Transition(list, update, turn) \in Seq(Moving)
BY TransitionDoes

\* Transitions go update by update.
TransitionsRun(g, list, q, turn, new) ==
  /\ g \in [0..Len(q) -> Seq(Moving)] /\ g[0] = list /\ g[Len(q)] = new
  /\ \A k \in 1..Len(q) : g[k] = Transition(g[k - 1], q[k], turn)

\* Taking status updates in is one, too.
LEMMA TransitionsRuns ==
  ASSUME NEW list \in Seq(Moving), NEW q \in Seq(StatusUpdates), NEW turn \in Nat,
         NEW new, new = Transitions(list, q, turn)
  PROVE  \E g : TransitionsRun(g, list, q, turn, new)
<1> DEFINE n == Len(q)
           V == Seq(Moving)
           Body(g) == [s \in SUBSET (1..n) |->
                         IF s = {} THEN list ELSE Transition(g[s \ {Max(s)}], q[Max(s)], turn)]
           f == CHOOSE g : g = Body(g)
           step == [i \in 1..n |-> [v \in V |-> Transition(v, q[i], turn)]]
<1>0. n \in Nat /\ DOMAIN q = 1..n /\ \A i \in 1..n : q[i] \in StatusUpdates BY ElementOfSeq
<1>1. new = f[1..n] BY <1>0, Zenon DEF Transitions, FoldLeft, MapThenFoldSet
<1>2. list \in V OBVIOUS
<1>3. \A v \in V, i \in 1..n : Transition(v, q[i], turn) \in V BY <1>0, TransitionType
<1> HIDE DEF V, n
<1>4. step \in [1..n -> [V -> V]]
  <2>1. \A i \in 1..n : [v \in V |-> Transition(v, q[i], turn)] \in [V -> V] BY <1>3
  <2> QED BY <2>1
<1>5. f = Body(f)
  <2>1. PICK g \in [SUBSET (1..n) -> V] : FoldsBy(g, n, list, step)
    <3> HIDE DEF step
    <3> QED BY <1>0, <1>2, <1>4, FoldExists, Zenon
  <2>2. ASSUME NEW s \in SUBSET (1..n), s # {}
        PROVE  g[s] = Transition(g[s \ {Max(s)}], q[Max(s)], turn)
    <3>1. Max(s) \in 1..n BY <1>0, <2>2, MaxUpTo
    <3>2. g[s \ {Max(s)}] \in V BY <2>1
    <3>3. g[s] = step[Max(s)][g[s \ {Max(s)}]] BY <2>1, <2>2 DEF FoldsBy
    <3> QED BY <3>1, <3>2, <3>3
  <2>3. g[{}] = list BY <2>1 DEF FoldsBy
  <2>4. \A s \in SUBSET (1..n) : g[s] = IF s = {} THEN list ELSE Transition(g[s \ {Max(s)}], q[Max(s)], turn)
    BY <2>2, <2>3
  <2>5. g = [s \in SUBSET (1..n) |-> g[s]] BY <2>1
  <2>6. g = Body(g) BY ONLY <2>4, <2>5, Zenon
  <2> HIDE DEF Body
  <2> QED BY <2>6
<1> HIDE DEF f
<1>6. PICK g \in [0..n -> V] : StepsTo(g, n, list, f[1..n], step)
  <2>1. f[{}] = list BY ONLY <1>5, {} \in SUBSET (1..n), Zenon
  <2>2. ASSUME NEW s \in SUBSET (1..n), s # {}, f[s \ {Max(s)}] \in V
        PROVE  f[s] = step[Max(s)][f[s \ {Max(s)}]]
    <3>1. Max(s) \in 1..n BY <1>0, <2>2, MaxUpTo
    <3>2. f[s] = Transition(f[s \ {Max(s)}], q[Max(s)], turn)
      BY ONLY <1>5, <2>2, s \in SUBSET (1..n), Zenon
    <3> QED BY <2>2, <3>1, <3>2
  <2> HIDE DEF step
  <2>3. FoldsIn(f, n, V, list, step) BY ONLY <2>1, <2>2, Zenon DEF FoldsIn
  <2> QED BY <1>0, <1>2, <1>4, <2>3, FoldRuns, Zenon
<1>7. \A k \in 1..n : g[k] = Transition(g[k - 1], q[k], turn)
  <2> SUFFICES ASSUME NEW k \in 1..n PROVE g[k] = Transition(g[k - 1], q[k], turn) OBVIOUS
  <2>1. g[k - 1] \in V BY <1>0
  <2> QED BY <1>6, <2>1 DEF StepsTo
<1>8. g[0] = list /\ g[n] = new BY <1>1, <1>6, Zenon DEF StepsTo
<1> QED BY ONLY <1>7, <1>8, g \in [0..n -> V], Zenon DEF n, V, TransitionsRun

\* What Tell makes of events are events.
LEMMA TellType ==
  ASSUME NEW told \in Seq(Events), NEW kind \in Kinds, NEW old \in Seq(Moving), NEW item \in Moving,
         NEW turn \in Nat
  PROVE  Tell(told, kind, old, item, turn) \in Seq(Events)
<1>1. PICK i : i = Counterpart(old, item.topic) OBVIOUS
<1>2. Counterpart(old, item.topic) = 0 \/ Counterpart(old, item.topic) \in 1..Len(old) BY CounterpartIs
<1>3. CASE i # 0 /\ old[i].status # item.status
  <2>1. old[i] \in Moving BY <1>1, <1>2, <1>3
  <2>2. Event(kind, item.topic, old[i].status, item.status, turn) \in Events
    BY <2>1 DEF Event, Events, Moving
  <2>3. PICK e \in Events : e = Event(kind, item.topic, old[i].status, item.status, turn) BY <2>2
  <2>4. Append(told, e) \in Seq(Events) OBVIOUS
  <2> QED BY ONLY <1>1, <1>3, <2>3, <2>4, Zenon DEF Tell
<1>4. CASE ~(i # 0 /\ old[i].status # item.status)
  BY ONLY <1>1, <1>4, told \in Seq(Events), Zenon DEF Tell
<1> QED BY <1>3, <1>4

\* The events of a list come item by item.
ChangedRun(g, kind, old, q, turn, new) ==
  /\ g \in [0..Len(q) -> Seq(Events)] /\ g[0] = <<>> /\ g[Len(q)] = new
  /\ \A k \in 1..Len(q) : g[k] = Tell(g[k - 1], kind, old, q[k], turn)

\* So is telling what changed.
LEMMA ChangedRuns ==
  ASSUME NEW kind \in Kinds, NEW old \in Seq(Moving), NEW q \in Seq(Moving), NEW turn \in Nat,
         NEW new, new = Changed(kind, old, q, turn)
  PROVE  \E g : ChangedRun(g, kind, old, q, turn, new)
<1> DEFINE n == Len(q)
           V == Seq(Events)
           Body(g) == [s \in SUBSET (1..n) |->
                         IF s = {} THEN <<>> ELSE Tell(g[s \ {Max(s)}], kind, old, q[Max(s)], turn)]
           f == CHOOSE g : g = Body(g)
           step == [i \in 1..n |-> [v \in V |-> Tell(v, kind, old, q[i], turn)]]
<1>0. n \in Nat /\ DOMAIN q = 1..n /\ \A i \in 1..n : q[i] \in Moving BY ElementOfSeq
<1>1. new = f[1..n] BY <1>0, Zenon DEF Changed, FoldLeft, MapThenFoldSet
<1>2. <<>> \in V OBVIOUS
<1>3. \A v \in V, i \in 1..n : Tell(v, kind, old, q[i], turn) \in V BY <1>0, TellType
<1> HIDE DEF V, n
<1>4. step \in [1..n -> [V -> V]]
  <2>1. \A i \in 1..n : [v \in V |-> Tell(v, kind, old, q[i], turn)] \in [V -> V] BY <1>3
  <2> QED BY <2>1
<1>5. f = Body(f)
  <2>1. PICK g \in [SUBSET (1..n) -> V] : FoldsBy(g, n, <<>>, step)
    <3> HIDE DEF step
    <3> QED BY <1>0, <1>2, <1>4, FoldExists, Zenon
  <2>2. ASSUME NEW s \in SUBSET (1..n), s # {}
        PROVE  g[s] = Tell(g[s \ {Max(s)}], kind, old, q[Max(s)], turn)
    <3>1. Max(s) \in 1..n BY <1>0, <2>2, MaxUpTo
    <3>2. g[s \ {Max(s)}] \in V BY <2>1
    <3>3. g[s] = step[Max(s)][g[s \ {Max(s)}]] BY <2>1, <2>2 DEF FoldsBy
    <3> QED BY <3>1, <3>2, <3>3
  <2>3. g[{}] = <<>> BY <2>1 DEF FoldsBy
  <2>4. \A s \in SUBSET (1..n) : g[s] = IF s = {} THEN <<>> ELSE Tell(g[s \ {Max(s)}], kind, old, q[Max(s)], turn)
    BY <2>2, <2>3
  <2>5. g = [s \in SUBSET (1..n) |-> g[s]] BY <2>1
  <2>6. g = Body(g) BY ONLY <2>4, <2>5, Zenon
  <2> HIDE DEF Body
  <2> QED BY <2>6
<1> HIDE DEF f
<1>6. PICK g \in [0..n -> V] : StepsTo(g, n, <<>>, f[1..n], step)
  <2>1. f[{}] = <<>> BY ONLY <1>5, {} \in SUBSET (1..n), Zenon
  <2>2. ASSUME NEW s \in SUBSET (1..n), s # {}, f[s \ {Max(s)}] \in V
        PROVE  f[s] = step[Max(s)][f[s \ {Max(s)}]]
    <3>1. Max(s) \in 1..n BY <1>0, <2>2, MaxUpTo
    <3>2. f[s] = Tell(f[s \ {Max(s)}], kind, old, q[Max(s)], turn)
      BY ONLY <1>5, <2>2, s \in SUBSET (1..n), Zenon
    <3> QED BY <2>2, <3>1, <3>2
  <2> HIDE DEF step
  <2>3. FoldsIn(f, n, V, <<>>, step) BY ONLY <2>1, <2>2, Zenon DEF FoldsIn
  <2> QED BY <1>0, <1>2, <1>4, <2>3, FoldRuns, Zenon
<1>7. \A k \in 1..n : g[k] = Tell(g[k - 1], kind, old, q[k], turn)
  <2> SUFFICES ASSUME NEW k \in 1..n PROVE g[k] = Tell(g[k - 1], kind, old, q[k], turn) OBVIOUS
  <2>1. g[k - 1] \in V BY <1>0
  <2> QED BY <1>6, <2>1 DEF StepsTo
<1>8. g[0] = <<>> /\ g[n] = new BY <1>1, <1>6, Zenon DEF StepsTo
<1> QED BY ONLY <1>7, <1>8, g \in [0..n -> V], Zenon DEF n, V, ChangedRun

\* All the topics of a message.
LEMMA MergeStep ==
  ASSUME NEW old \in Seq(Moving), NEW list, NEW turn \in Nat, Touched(old, list, turn),
         NEW q \in Seq(Topics), NEW fresh \in {"active", "open"},
         NEW new, new = Merge(list, q, fresh, turn)
  PROVE  Touched(old, new, turn)
<1>1. list \in Seq(Moving) BY DEF Touched
<1>2. PICK n \in Nat : n = Len(q) /\ \A i \in 1..n : q[i] \in Topics BY ElementOfSeq
<1>3. PICK g \in [0..n -> Seq(Moving)] :
        /\ g[0] = list /\ g[n] = new
        /\ \A k \in 1..n : g[k] = MergeOne(g[k - 1], q[k], fresh, turn)
  <2>1. PICK g : MergeRun(g, list, q, fresh, turn, new) BY <1>1, MergeRuns, Zenon
  <2> QED BY <1>2, <2>1 DEF MergeRun
<1> DEFINE S == {k \in 0..n : Touched(old, g[k], turn)}
<1>4. 0 \in S BY <1>3
<1>5. \A k \in 1..n : k - 1 \in S => k \in S
  <2> SUFFICES ASSUME NEW k \in 1..n, k - 1 \in S PROVE k \in S OBVIOUS
  <2>1. Touched(old, g[k - 1], turn) /\ k \in 0..n OBVIOUS
  <2>2. g[k] = MergeOne(g[k - 1], q[k], fresh, turn) /\ q[k] \in Topics BY <1>2, <1>3
  <2>3. Len(old) \in Nat OBVIOUS
  <2>4. Touched(old, g[k], turn) BY ONLY <2>1, <2>2, <2>3, MergeOneStep, turn \in Nat, old \in Seq(Moving),
       fresh \in {"active", "open"}
  <2> QED BY <2>1, <2>4
<1>6. n \in S
  <2> HIDE DEF S
  <2>1. 0..n \subseteq S BY <1>4, <1>5, Climb
  <2> QED BY <2>1
<1> QED BY <1>3, <1>6

\* All the updates of a message.
LEMMA TransitionsStep ==
  ASSUME NEW old \in Seq(Moving), NEW list, NEW turn \in Nat, Touched(old, list, turn),
         NEW q \in Seq(StatusUpdates),
         NEW new, new = Transitions(list, q, turn)
  PROVE  Touched(old, new, turn)
<1>1. list \in Seq(Moving) BY DEF Touched
<1>2. PICK n \in Nat : n = Len(q) /\ \A i \in 1..n : q[i] \in StatusUpdates BY ElementOfSeq
<1>3. PICK g \in [0..n -> Seq(Moving)] :
        /\ g[0] = list /\ g[n] = new
        /\ \A k \in 1..n : g[k] = Transition(g[k - 1], q[k], turn)
  <2>1. PICK g : TransitionsRun(g, list, q, turn, new) BY <1>1, TransitionsRuns, Zenon
  <2> QED BY <1>2, <2>1 DEF TransitionsRun
<1> DEFINE S == {k \in 0..n : Touched(old, g[k], turn)}
<1>4. 0 \in S BY <1>3
<1>5. \A k \in 1..n : k - 1 \in S => k \in S
  <2> SUFFICES ASSUME NEW k \in 1..n, k - 1 \in S PROVE k \in S OBVIOUS
  <2>1. Touched(old, g[k - 1], turn) /\ k \in 0..n OBVIOUS
  <2>2. g[k] = Transition(g[k - 1], q[k], turn) /\ q[k] \in StatusUpdates BY <1>2, <1>3
  <2>3. Len(old) \in Nat OBVIOUS
  <2>4. Touched(old, g[k], turn) BY ONLY <2>1, <2>2, <2>3, TransitionStep, turn \in Nat, old \in Seq(Moving)
  <2> QED BY <2>1, <2>4
<1>6. n \in S
  <2> HIDE DEF S
  <2>1. 0..n \subseteq S BY <1>4, <1>5, Climb
  <2> QED BY <2>1
<1> QED BY <1>3, <1>6

\* To begin with nothing is touched.
LEMMA TouchedStart ==
  ASSUME NEW old, NEW earlier \in Nat, Settled(old, earlier), NEW turn \in Nat, earlier <= turn
  PROVE  Touched(old, old, turn)
<1>1. old \in Seq(Moving) /\ Apart(old) BY DEF Settled
<1>2. PICK n \in Nat : n = Len(old) /\ \A i \in 1..n : old[i] \in Moving BY <1>1
<1>3. \A i \in 1..n : old[i].updated \in Nat /\ old[i].updated <= earlier
  BY <1>2 DEF Settled, Moving
<1> QED BY <1>1, <1>2, <1>3 DEF Touched

\* The history of an item follows its status.
FollowedUp(it, turn) ==
  IF it.trail # <<>> /\ Last(it.trail) = it.status THEN it
  ELSE [it EXCEPT !.trail = Append(@, it.status), !.since = turn]

\* An item whose history is taken down has the last status of its trail.
LEMMA TrackedItem ==
  ASSUME NEW it \in Moving, NEW turn \in Nat, NEW new, new = FollowedUp(it, turn)
  PROVE  /\ new \in Moving /\ new.topic = it.topic /\ new.status = it.status /\ new.updated = it.updated
         /\ new.trail # <<>> /\ Last(new.trail) = new.status
         /\ \/ it.trail # <<>> /\ Last(it.trail) = it.status /\ new = it
            \/ /\ ~(it.trail # <<>> /\ Last(it.trail) = it.status)
               /\ new.trail = Append(it.trail, it.status) /\ new.since = turn
<1>1. CASE it.trail # <<>> /\ Last(it.trail) = it.status BY <1>1 DEF FollowedUp
<1>2. CASE ~(it.trail # <<>> /\ Last(it.trail) = it.status)
  <2>1. PICK t \in Seq(ItemStatuses) : t = it.trail BY DEF Moving
  <2>2. PICK s \in ItemStatuses : s = it.status BY DEF Moving
  <2>3. PICK u \in Seq(ItemStatuses) : u = Append(t, s) /\ u # <<>> /\ Last(u) = s
    <3>1. PICK u : u = Append(t, s) OBVIOUS
    <3>2. u \in Seq(ItemStatuses) /\ Len(u) = Len(t) + 1 /\ u[Len(t) + 1] = s BY <3>1
    <3>3. u # <<>> /\ Last(u) = s BY <3>2 DEF Last
    <3> QED BY <3>1, <3>2, <3>3
  <2>4. new = [it EXCEPT !.trail = u, !.since = turn] BY ONLY <1>2, <2>1, <2>2, <2>3, new = FollowedUp(it, turn) DEF FollowedUp
  <2>5. /\ new \in Moving /\ new.topic = it.topic /\ new.status = it.status /\ new.updated = it.updated
        /\ new.trail = u /\ new.since = turn
    BY <2>4 DEF Moving
  <2> QED BY ONLY <1>2, <2>1, <2>2, <2>3, <2>5, Zenon
<1> QED BY <1>1, <1>2

\* What a stage made of a list.
LEMMA TrackedStep ==
  ASSUME NEW old, NEW earlier \in Nat, Settled(old, earlier), NEW turn \in Nat, earlier <= turn,
         NEW list, Touched(old, list, turn), NEW new, new = Tracked(list, turn)
  PROVE  Became(old, new, turn)
<1>1. PICK n \in Nat, m \in Nat : n = Len(list) /\ m = Len(old) /\ m <= n BY DEF Settled, Touched
<1>2. list \in Seq(Moving) /\ DOMAIN list = 1..n /\ \A i \in 1..n : list[i] \in Moving
  BY <1>1 DEF Touched
<1>3. old \in Seq(Moving) /\ \A i \in 1..m : old[i] \in Moving BY <1>1 DEF Settled
<1>4. ASSUME NEW i \in 1..n
      PROVE  /\ new[i] \in Moving /\ new[i].topic = list[i].topic /\ new[i].status = list[i].status
             /\ new[i].updated = list[i].updated /\ new[i].trail # <<>> /\ Last(new[i].trail) = new[i].status
             /\ \/ list[i].trail # <<>> /\ Last(list[i].trail) = list[i].status /\ new[i] = list[i]
                \/ /\ ~(list[i].trail # <<>> /\ Last(list[i].trail) = list[i].status)
                   /\ new[i].trail = Append(list[i].trail, list[i].status) /\ new[i].since = turn
  <2>1. new[i] = FollowedUp(list[i], turn) BY <1>2, Zenon DEF Tracked, FollowedUp
  <2>2. list[i] \in Moving BY <1>2
  <2> QED BY ONLY <2>1, <2>2, TrackedItem, turn \in Nat
<1>5. new \in Seq(Moving) /\ Len(new) = n
  <2>1. DOMAIN new = 1..n /\ new = [i \in 1..n |-> new[i]] BY <1>2 DEF Tracked
  <2>2. \A i \in 1..n : new[i] \in Moving BY <1>4
  <2> QED BY ONLY <2>1, <2>2, n \in Nat
<1>6. Apart(new)
  <2>1. \A i, j \in 1..n : list[i].topic = list[j].topic => i = j BY <1>1 DEF Touched, Apart
  <2>2. \A i \in 1..n : new[i].topic = list[i].topic BY <1>4
  <2> QED BY <1>5, <2>1, <2>2 DEF Apart
<1>7. ASSUME NEW i \in 1..n
      PROVE  new[i].since <= new[i].updated /\ new[i].updated <= turn
  <2>1. CASE i \in 1..m
    <3>1. /\ list[i].trail = old[i].trail /\ list[i].since = old[i].since
          /\ old[i].updated <= list[i].updated /\ list[i].updated <= turn
          /\ list[i].status # old[i].status => list[i].updated = turn
      BY <1>1, <2>1 DEF Touched
    <3>2. old[i].trail # <<>> /\ Last(old[i].trail) = old[i].status /\ old[i].since <= old[i].updated
      BY <1>1, <2>1 DEF Settled
    <3>3. list[i].updated \in Nat /\ old[i].updated \in Nat /\ old[i].since \in Nat
      BY <1>2, <1>3, <2>1 DEF Moving
    <3>4. CASE new[i] = list[i]
      <4>1. new[i].since = old[i].since /\ new[i].updated = list[i].updated BY <3>1, <3>4
      <4> QED BY <3>1, <3>2, <3>3, <4>1
    <3>5. CASE /\ ~(list[i].trail # <<>> /\ Last(list[i].trail) = list[i].status)
               /\ new[i].trail = Append(list[i].trail, list[i].status) /\ new[i].since = turn
      <4>1. list[i].status # old[i].status BY ONLY <3>1, <3>2, <3>5, Zenon
      <4>2. new[i].updated = turn /\ new[i].since = turn BY <1>4, <3>1, <3>5, <4>1
      <4> QED BY <4>2
    <3> QED BY <1>4, <3>4, <3>5
  <2>2. CASE i \notin 1..m
    <3>1. list[i].trail = <<>> /\ list[i].since = turn /\ list[i].updated = turn BY <1>1, <2>2 DEF Touched
    <3>2. new[i].updated = turn /\ new[i].since = turn BY <1>4, <3>1
    <3> QED BY <3>2
  <2> QED BY <2>1, <2>2
<1>8. Settled(new, turn) BY ONLY <1>4, <1>5, <1>6, <1>7, Zenon DEF Settled
<1>9. ASSUME NEW i \in 1..m
      PROVE  /\ new[i].topic = old[i].topic
             /\ new[i].trail = IF new[i].status = old[i].status THEN old[i].trail
                               ELSE Append(old[i].trail, new[i].status)
  <2>1. i \in 1..n BY <1>1
  <2>2. list[i].topic = old[i].topic /\ list[i].trail = old[i].trail BY <1>1 DEF Touched
  <2>3. old[i].trail # <<>> /\ Last(old[i].trail) = old[i].status BY <1>1 DEF Settled
  <2>4. new[i].topic = old[i].topic /\ new[i].status = list[i].status BY <1>4, <2>1, <2>2
  <2>5. CASE list[i].status = old[i].status
    <3>1. list[i].trail # <<>> /\ Last(list[i].trail) = list[i].status BY <2>2, <2>3, <2>5
    <3>2. new[i] = list[i] BY <1>4, <2>1, <3>1
    <3>3. new[i].trail = old[i].trail BY <2>2, <3>2
    <3> QED BY ONLY <2>4, <2>5, <3>3, Zenon
  <2>6. CASE list[i].status # old[i].status
    <3>1. ~(list[i].trail # <<>> /\ Last(list[i].trail) = list[i].status) BY <2>2, <2>3, <2>6
    <3>2. new[i].trail = Append(list[i].trail, list[i].status) BY <1>4, <2>1, <3>1
    <3>3. new[i].trail = Append(old[i].trail, new[i].status) BY ONLY <2>2, <2>4, <3>2, Zenon
    <3> QED BY ONLY <2>4, <2>6, <3>3, Zenon
  <2> QED BY <2>5, <2>6
<1>10. ASSUME NEW i \in 1..n, i > m PROVE Len(new[i].trail) = 1
  <2>1. list[i].trail = <<>> BY <1>1, <1>10 DEF Touched
  <2>2. new[i].trail = Append(list[i].trail, list[i].status) BY <1>4, <2>1
  <2>3. new[i].trail = Append(<<>>, list[i].status) BY <2>1, <2>2
  <2> QED BY <2>3
<1> QED BY ONLY <1>1, <1>5, <1>8, <1>9, <1>10, Zenon DEF Became

\* The events d of one kind are those of the first k items: each of a change, each
\* change with its own.
ToldUpTo(d, kind, old, new, k) ==
  /\ d \in Seq(Events)
  /\ \A p \in 1..Len(d) : d[p].kind = kind =>
       \E i \in 1..Len(old) :
         /\ i <= k /\ d[p].topic = old[i].topic /\ old[i].status # new[i].status
         /\ d[p].from = old[i].status /\ d[p].to = new[i].status
  /\ \A i \in 1..Len(old) :
       i <= k /\ old[i].status # new[i].status =>
         \E p \in 1..Len(d) : d[p].kind = kind /\ d[p].topic = old[i].topic
  /\ \A p, q \in 1..Len(d) :
       d[p].kind = kind /\ d[q].kind = kind /\ d[p].topic = d[q].topic => p = q
TellsChanges(d, kind, old, new) == ToldUpTo(d, kind, old, new, Len(new))

\* An item that was there is its own counterpart, a new one has none.
LEMMA CounterpartOf ==
  ASSUME NEW old, NEW new, NEW turn, Became(old, new, turn), old \in Seq(Moving), Apart(old),
         NEW k \in 1..Len(new)
  PROVE  Counterpart(old, new[k].topic) = IF k <= Len(old) THEN k ELSE 0
<1>1. PICK n \in Nat, m \in Nat : n = Len(new) /\ m = Len(old) /\ m <= n BY DEF Became, Settled
<1>2. PICK i : i = Counterpart(old, new[k].topic) OBVIOUS
<1>3. /\ i = 0 \/ i \in 1..m
      /\ i # 0 => old[i].topic = new[k].topic
      /\ i = 0 => \A j \in 1..m : old[j].topic # new[k].topic
  BY <1>1, <1>2, CounterpartIs
<1>4. \A j \in 1..m : new[j].topic = old[j].topic BY <1>1 DEF Became
<1>5. \A j, l \in 1..n : new[j].topic = new[l].topic => j = l BY <1>1 DEF Became, Settled, Apart
<1>6. CASE k <= m
  <2>1. i # 0 BY <1>1, <1>3, <1>4, <1>6
  <2>2. i = k BY <1>1, <1>3, <1>4, <1>5, <2>1
  <2> QED BY <1>1, <1>2, <1>6, <2>2
<1>7. CASE ~(k <= m)
  <2>1. i = 0
    <3> SUFFICES ASSUME i # 0 PROVE FALSE OBVIOUS
    <3>1. i \in 1..m /\ new[i].topic = new[k].topic BY <1>3, <1>4
    <3>2. i \in 1..n BY <1>1, <3>1
    <3>3. i = k BY <1>1, <1>5, <3>1, <3>2
    <3> QED BY <1>7, <3>1, <3>3
  <2> QED BY <1>1, <1>2, <1>7, <2>1
<1> QED BY <1>6, <1>7

\* One more item.
LEMMA TellStep ==
  ASSUME NEW kind \in Kinds, NEW old \in Seq(Moving), Apart(old), NEW new, NEW turn \in Nat, NEW t,
         Became(old, new, t), NEW k \in 1..Len(new), NEW d, ToldUpTo(d, kind, old, new, k - 1),
         NEW e, e = Tell(d, kind, old, new[k], turn)
  PROVE  ToldUpTo(e, kind, old, new, k)
<1>1. PICK n \in Nat, m \in Nat : n = Len(new) /\ m = Len(old) /\ m <= n /\ k \in 1..n
  BY DEF Became, Settled
<1>2. PICK l \in Nat : l = Len(d) /\ d \in Seq(Events) BY DEF ToldUpTo
<1>3. new[k] \in Moving
  <2>1. new \in Seq(Moving) BY DEF Became, Settled
  <2> QED BY <2>1
<1>4. PICK i : i = Counterpart(old, new[k].topic) /\ i = IF k <= m THEN k ELSE 0 BY <1>1, CounterpartOf
<1>5. \A p \in 1..l : d[p].kind = kind =>
        \E j \in 1..m :
          /\ j <= k - 1 /\ d[p].topic = old[j].topic /\ old[j].status # new[j].status
          /\ d[p].from = old[j].status /\ d[p].to = new[j].status
  BY <1>1, <1>2 DEF ToldUpTo
<1>6. \A j \in 1..m : j <= k - 1 /\ old[j].status # new[j].status =>
        \E p \in 1..l : d[p].kind = kind /\ d[p].topic = old[j].topic
  BY <1>1, <1>2 DEF ToldUpTo
<1>7. \A p, q \in 1..l : d[p].kind = kind /\ d[q].kind = kind /\ d[p].topic = d[q].topic => p = q
  BY <1>2 DEF ToldUpTo
<1>8. CASE i # 0 /\ old[i].status # new[k].status
  <2>1. i = k /\ k \in 1..m /\ old[k] \in Moving BY <1>1, <1>4, <1>8
  <2>2. new[k].topic = old[k].topic BY <1>1, <2>1 DEF Became
  <2>3. PICK v \in Events : v = Event(kind, new[k].topic, old[k].status, new[k].status, turn)
    BY <1>3, <2>1 DEF Event, Events, Moving
  <2>4. v.kind = kind /\ v.topic = old[k].topic /\ v.from = old[k].status /\ v.to = new[k].status
    BY <2>2, <2>3 DEF Event
  <2>5. e = Append(d, v) BY ONLY <1>4, <1>8, <2>1, <2>3, Zenon, e = Tell(d, kind, old, new[k], turn) DEF Tell
  <2>6. e \in Seq(Events) /\ Len(e) = l + 1 /\ e[l + 1] = v /\ \A p \in 1..l : e[p] = d[p]
    BY <1>2, <2>5
  <2>7. \A p \in 1..(l + 1) : p \in 1..l \/ p = l + 1 OBVIOUS
  <2>8. \A p \in 1..(l + 1) : e[p].kind = kind =>
          \E j \in 1..m :
            /\ j <= k /\ e[p].topic = old[j].topic /\ old[j].status # new[j].status
            /\ e[p].from = old[j].status /\ e[p].to = new[j].status
    <3> SUFFICES ASSUME NEW p \in 1..(l + 1), e[p].kind = kind
                 PROVE  \E j \in 1..m :
                          /\ j <= k /\ e[p].topic = old[j].topic /\ old[j].status # new[j].status
                          /\ e[p].from = old[j].status /\ e[p].to = new[j].status
      OBVIOUS
    <3>1. CASE p \in 1..l
      <4>1. PICK j \in 1..m :
              /\ j <= k - 1 /\ d[p].topic = old[j].topic /\ old[j].status # new[j].status
              /\ d[p].from = old[j].status /\ d[p].to = new[j].status
        BY <1>5, <2>6, <3>1
      <4>2. j <= k BY <1>1, <4>1
      <4> QED BY <2>6, <3>1, <4>1, <4>2
    <3>2. CASE p = l + 1 BY <1>1, <1>8, <2>1, <2>4, <2>6, <3>2
    <3> QED BY <2>7, <3>1, <3>2
  <2>9. \A j \in 1..m : j <= k /\ old[j].status # new[j].status =>
          \E p \in 1..(l + 1) : e[p].kind = kind /\ e[p].topic = old[j].topic
    <3> SUFFICES ASSUME NEW j \in 1..m, j <= k, old[j].status # new[j].status
                 PROVE  \E p \in 1..(l + 1) : e[p].kind = kind /\ e[p].topic = old[j].topic
      OBVIOUS
    <3>1. CASE j = k
      <4>1. l + 1 \in 1..(l + 1) BY <1>2
      <4> QED BY <2>4, <2>6, <3>1, <4>1
    <3>2. CASE j # k
      <4>1. j <= k - 1 BY <1>1, <3>2
      <4>2. PICK p \in 1..l : d[p].kind = kind /\ d[p].topic = old[j].topic BY <1>6, <4>1
      <4>3. p \in 1..(l + 1) BY <1>2
      <4> QED BY <2>6, <4>2, <4>3
    <3> QED BY <3>1, <3>2
  <2>10. ASSUME NEW p \in 1..l, d[p].kind = kind PROVE d[p].topic # old[k].topic
    <3>1. PICK j \in 1..m : j <= k - 1 /\ d[p].topic = old[j].topic BY <1>5, <2>10
    <3>2. j # k BY <1>1, <3>1
    <3> QED BY <1>1, <2>1, <3>1, <3>2 DEF Apart
  <2>11. \A p, q \in 1..(l + 1) :
           e[p].kind = kind /\ e[q].kind = kind /\ e[p].topic = e[q].topic => p = q
    BY ONLY <1>7, <2>4, <2>6, <2>7, <2>10, Zenon
  <2> QED BY ONLY <1>1, <2>6, <2>8, <2>9, <2>11, Zenon DEF ToldUpTo
<1>9. CASE ~(i # 0 /\ old[i].status # new[k].status)
  <2>1. e = d BY ONLY <1>4, <1>9, Zenon, e = Tell(d, kind, old, new[k], turn) DEF Tell
  <2>2. \A j \in 1..m : j <= k /\ old[j].status # new[j].status => j <= k - 1
    <3> SUFFICES ASSUME NEW j \in 1..m, j <= k, old[j].status # new[j].status PROVE j # k
      BY <1>1
    <3> QED BY <1>1, <1>4, <1>9
  <2>3. \A j \in 1..m : j <= k - 1 => j <= k BY <1>1
  <2>4. \A p \in 1..l : d[p].kind = kind =>
          \E j \in 1..m :
            /\ j <= k /\ d[p].topic = old[j].topic /\ old[j].status # new[j].status
            /\ d[p].from = old[j].status /\ d[p].to = new[j].status
    BY ONLY <1>5, <2>3, Zenon
  <2>5. \A j \in 1..m : j <= k /\ old[j].status # new[j].status =>
          \E p \in 1..l : d[p].kind = kind /\ d[p].topic = old[j].topic
    BY ONLY <1>6, <2>2, Zenon
  <2> QED BY ONLY <1>1, <1>2, <1>7, <2>1, <2>4, <2>5, Zenon DEF ToldUpTo
<1> QED BY <1>8, <1>9

\* The events of a stage are those of its changes.
LEMMA ChangedTells ==
  ASSUME NEW kind \in Kinds, NEW old, NEW earlier, Settled(old, earlier), NEW new, NEW turn \in Nat, NEW t,
         Became(old, new, t), NEW d, d = Changed(kind, old, new, turn)
  PROVE  TellsChanges(d, kind, old, new) /\ \A p \in 1..Len(d) : d[p].kind = kind
<1>1. old \in Seq(Moving) /\ Apart(old) BY DEF Settled
<1>2. new \in Seq(Moving) BY DEF Became, Settled
<1>3. PICK n \in Nat : n = Len(new) /\ \A i \in 1..n : new[i] \in Moving BY <1>2, ElementOfSeq
<1>4. PICK g \in [0..n -> Seq(Events)] :
        /\ g[0] = <<>> /\ g[n] = d
        /\ \A k \in 1..n : g[k] = Tell(g[k - 1], kind, old, new[k], turn)
  <2>1. PICK g : ChangedRun(g, kind, old, new, turn, d) BY <1>1, <1>2, ChangedRuns, Zenon
  <2> QED BY <1>3, <2>1 DEF ChangedRun
<1> DEFINE S == {k \in 0..n : /\ ToldUpTo(g[k], kind, old, new, k)
                              /\ \A p \in 1..Len(g[k]) : g[k][p].kind = kind}
<1>5. 0 \in S
  <2>1. Len(g[0]) = 0 /\ g[0] \in Seq(Events) BY <1>4
  <2>2. Len(old) \in Nat BY <1>1
  <2>3. \A i \in 1..Len(old) : ~(i <= 0) BY <2>2
  <2>4. \A p : p \notin 1..0 OBVIOUS
  <2>5. ToldUpTo(g[0], kind, old, new, 0) BY ONLY <2>1, <2>3, <2>4, Zenon DEF ToldUpTo
  <2> QED BY <2>1, <2>4, <2>5
<1>6. \A k \in 1..n : k - 1 \in S => k \in S
  <2> SUFFICES ASSUME NEW k \in 1..n, k - 1 \in S PROVE k \in S OBVIOUS
  <2>1. ToldUpTo(g[k - 1], kind, old, new, k - 1) /\ k \in 0..n OBVIOUS
  <2>2. g[k] = Tell(g[k - 1], kind, old, new[k], turn) BY <1>4
  <2>3. ToldUpTo(g[k], kind, old, new, k) BY <1>1, <1>3, <2>1, <2>2, TellStep
  <2>4. PICK a \in Seq(Events) : a = g[k - 1] /\ \A p \in 1..Len(a) : a[p].kind = kind BY <1>4
  <2>5. \A p \in 1..Len(g[k]) : g[k][p].kind = kind
    <3>1. PICK i : i = Counterpart(old, new[k].topic) OBVIOUS
    <3>2. CASE i # 0 /\ old[i].status # new[k].status
      <4>1. PICK v : v = Event(kind, new[k].topic, old[i].status, new[k].status, turn) OBVIOUS
      <4>2. g[k] = Append(a, v) BY ONLY <2>2, <2>4, <3>1, <3>2, <4>1, Zenon DEF Tell
      <4>3. v.kind = kind BY <4>1 DEF Event
      <4> QED BY <2>4, <4>2, <4>3
    <3>3. CASE ~(i # 0 /\ old[i].status # new[k].status)
      <4>1. g[k] = a BY ONLY <2>2, <2>4, <3>1, <3>3, Zenon DEF Tell
      <4> QED BY <2>4, <4>1
    <3> QED BY <3>2, <3>3
  <2> QED BY <2>1, <2>3, <2>5
<1>7. n \in S
  <2> HIDE DEF S
  <2>1. 0..n \subseteq S BY <1>5, <1>6, Climb
  <2> QED BY <2>1
<1> QED BY <1>3, <1>4, <1>7 DEF TellsChanges

\* Events of another kind, before or after, make no difference.
LEMMA OtherKindBefore ==
  ASSUME NEW a \in Seq(Events), NEW b \in Seq(Events), NEW kind \in Kinds, NEW old \in Seq(Moving), NEW new,
         \A p \in 1..Len(a) : a[p].kind # kind, TellsChanges(b, kind, old, new)
  PROVE  TellsChanges(a \o b, kind, old, new)
<1>1. PICK l \in Nat, m \in Nat, d \in Seq(Events) : l = Len(a) /\ m = Len(b) /\ d = a \o b
  <2>1. a \o b \in Seq(Events) /\ Len(a) \in Nat /\ Len(b) \in Nat OBVIOUS
  <2> QED BY ONLY <2>1, Zenon
<1>2. /\ d \in Seq(Events) /\ Len(d) = l + m
      /\ \A i \in 1..l : d[i] = a[i]
      /\ \A i \in 1..m : d[l + i] = b[i]
  BY ONLY <1>1, a \in Seq(Events), b \in Seq(Events), Joined
<1>3. \A p \in 1..(l + m) : d[p].kind = kind => \E i \in 1..m : p = l + i
  <2> SUFFICES ASSUME NEW p \in 1..(l + m), d[p].kind = kind PROVE \E i \in 1..m : p = l + i OBVIOUS
  <2>1. p \notin 1..l BY <1>1, <1>2
  <2>2. p - l \in 1..m /\ p = l + (p - l) BY <2>1
  <2> QED BY <2>2
<1>4. \A i \in 1..m : l + i \in 1..(l + m) OBVIOUS
<1>5. \A i, j \in 1..m : i = j => l + i = l + j OBVIOUS
<1>6. /\ \A p \in 1..m : b[p].kind = kind =>
           \E i \in 1..Len(old) :
             /\ i <= Len(new) /\ b[p].topic = old[i].topic /\ old[i].status # new[i].status
             /\ b[p].from = old[i].status /\ b[p].to = new[i].status
      /\ \A i \in 1..Len(old) :
           i <= Len(new) /\ old[i].status # new[i].status =>
             \E p \in 1..m : b[p].kind = kind /\ b[p].topic = old[i].topic
      /\ \A p, q \in 1..m :
           b[p].kind = kind /\ b[q].kind = kind /\ b[p].topic = b[q].topic => p = q
  BY ONLY <1>1, Zenon, TellsChanges(b, kind, old, new) DEF TellsChanges, ToldUpTo
<1>7. \A p \in 1..(l + m) : d[p].kind = kind =>
        \E i \in 1..Len(old) :
          /\ i <= Len(new) /\ d[p].topic = old[i].topic /\ old[i].status # new[i].status
          /\ d[p].from = old[i].status /\ d[p].to = new[i].status
  <2> SUFFICES ASSUME NEW p \in 1..(l + m), d[p].kind = kind
               PROVE  \E i \in 1..Len(old) :
                        /\ i <= Len(new) /\ d[p].topic = old[i].topic /\ old[i].status # new[i].status
                        /\ d[p].from = old[i].status /\ d[p].to = new[i].status
    OBVIOUS
  <2>1. PICK j \in 1..m : p = l + j BY <1>3
  <2>2. d[p] = b[j] BY <1>2, <2>1
  <2>3. b[j].kind = kind BY <2>2
  <2>4. PICK i \in 1..Len(old) :
          /\ i <= Len(new) /\ b[j].topic = old[i].topic /\ old[i].status # new[i].status
          /\ b[j].from = old[i].status /\ b[j].to = new[i].status
    BY ONLY <1>6, <2>3, j \in 1..m, Zenon
  <2> QED BY <2>2, <2>4
<1>8. \A i \in 1..Len(old) :
        i <= Len(new) /\ old[i].status # new[i].status =>
          \E p \in 1..(l + m) : d[p].kind = kind /\ d[p].topic = old[i].topic
  <2> SUFFICES ASSUME NEW i \in 1..Len(old), i <= Len(new), old[i].status # new[i].status
               PROVE  \E p \in 1..(l + m) : d[p].kind = kind /\ d[p].topic = old[i].topic
    OBVIOUS
  <2>1. PICK q \in 1..m : b[q].kind = kind /\ b[q].topic = old[i].topic BY ONLY <1>6, Zenon,
          i \in 1..Len(old), i <= Len(new), old[i].status # new[i].status
  <2>2. d[l + q] = b[q] /\ l + q \in 1..(l + m) BY <1>2, <1>4
  <2> QED BY <2>1, <2>2
<1>9. \A p, q \in 1..(l + m) :
        d[p].kind = kind /\ d[q].kind = kind /\ d[p].topic = d[q].topic => p = q
  <2> SUFFICES ASSUME NEW p \in 1..(l + m), NEW q \in 1..(l + m),
                      d[p].kind = kind, d[q].kind = kind, d[p].topic = d[q].topic
               PROVE  p = q
    OBVIOUS
  <2>1. PICK i \in 1..m, j \in 1..m : p = l + i /\ q = l + j BY <1>3
  <2>2. d[p] = b[i] /\ d[q] = b[j] BY <1>2, <2>1
  <2>3. i = j BY <1>6, <2>2
  <2> QED BY <2>1, <2>3
<1>10. TellsChanges(d, kind, old, new) BY ONLY <1>2, <1>7, <1>8, <1>9 DEF TellsChanges, ToldUpTo
<1> QED BY ONLY <1>1, <1>10, Zenon

\* Likewise behind it.
LEMMA OtherKindAfter ==
  ASSUME NEW a \in Seq(Events), NEW b \in Seq(Events), NEW kind \in Kinds, NEW old \in Seq(Moving), NEW new,
         \A p \in 1..Len(b) : b[p].kind # kind, TellsChanges(a, kind, old, new)
  PROVE  TellsChanges(a \o b, kind, old, new)
<1>1. PICK l \in Nat, m \in Nat, d \in Seq(Events) : l = Len(a) /\ m = Len(b) /\ d = a \o b
  <2>1. a \o b \in Seq(Events) /\ Len(a) \in Nat /\ Len(b) \in Nat OBVIOUS
  <2> QED BY ONLY <2>1, Zenon
<1>2. /\ d \in Seq(Events) /\ Len(d) = l + m
      /\ \A i \in 1..l : d[i] = a[i]
      /\ \A i \in 1..m : d[l + i] = b[i]
  BY ONLY <1>1, a \in Seq(Events), b \in Seq(Events), Joined
<1>3. \A p \in 1..(l + m) : d[p].kind = kind => p \in 1..l
  <2> SUFFICES ASSUME NEW p \in 1..(l + m), p \notin 1..l PROVE d[p].kind # kind OBVIOUS
  <2>1. p - l \in 1..m /\ p = l + (p - l) OBVIOUS
  <2> QED BY <1>1, <1>2, <2>1
<1>4. \A i \in 1..l : i \in 1..(l + m) OBVIOUS
<1>5. /\ \A p \in 1..l : a[p].kind = kind =>
           \E i \in 1..Len(old) :
             /\ i <= Len(new) /\ a[p].topic = old[i].topic /\ old[i].status # new[i].status
             /\ a[p].from = old[i].status /\ a[p].to = new[i].status
      /\ \A i \in 1..Len(old) :
           i <= Len(new) /\ old[i].status # new[i].status =>
             \E p \in 1..l : a[p].kind = kind /\ a[p].topic = old[i].topic
      /\ \A p, q \in 1..l :
           a[p].kind = kind /\ a[q].kind = kind /\ a[p].topic = a[q].topic => p = q
  BY ONLY <1>1, Zenon, TellsChanges(a, kind, old, new) DEF TellsChanges, ToldUpTo
<1>6. \A p \in 1..l : d[p] = a[p] BY <1>2
<1>7. /\ \A p \in 1..(l + m) : d[p].kind = kind =>
           \E i \in 1..Len(old) :
             /\ i <= Len(new) /\ d[p].topic = old[i].topic /\ old[i].status # new[i].status
             /\ d[p].from = old[i].status /\ d[p].to = new[i].status
      /\ \A p, q \in 1..(l + m) :
           d[p].kind = kind /\ d[q].kind = kind /\ d[p].topic = d[q].topic => p = q
  <2>1. \A p \in 1..(l + m) : d[p].kind = kind => p \in 1..l /\ d[p] = a[p] BY ONLY <1>3, <1>6, Zenon
  <2>2. ASSUME NEW p \in 1..(l + m), d[p].kind = kind
        PROVE  \E i \in 1..Len(old) :
                 /\ i <= Len(new) /\ d[p].topic = old[i].topic /\ old[i].status # new[i].status
                 /\ d[p].from = old[i].status /\ d[p].to = new[i].status
    <3>1. p \in 1..l /\ d[p] = a[p] /\ a[p].kind = kind BY <2>1, <2>2
    <3>2. PICK i \in 1..Len(old) :
            /\ i <= Len(new) /\ a[p].topic = old[i].topic /\ old[i].status # new[i].status
            /\ a[p].from = old[i].status /\ a[p].to = new[i].status
      BY ONLY <1>5, <3>1, Zenon
    <3> QED BY <3>1, <3>2
  <2>3. ASSUME NEW p \in 1..(l + m), NEW q \in 1..(l + m),
               d[p].kind = kind, d[q].kind = kind, d[p].topic = d[q].topic
        PROVE  p = q
    BY <1>5, <2>1, <2>3
  <2> QED BY ONLY <2>2, <2>3, Zenon
<1>8. \A i \in 1..Len(old) :
        i <= Len(new) /\ old[i].status # new[i].status =>
          \E p \in 1..(l + m) : d[p].kind = kind /\ d[p].topic = old[i].topic
  <2> SUFFICES ASSUME NEW i \in 1..Len(old), i <= Len(new), old[i].status # new[i].status
               PROVE  \E p \in 1..(l + m) : d[p].kind = kind /\ d[p].topic = old[i].topic
    OBVIOUS
  <2>1. PICK p \in 1..l : a[p].kind = kind /\ a[p].topic = old[i].topic BY ONLY <1>5, Zenon,
          i \in 1..Len(old), i <= Len(new), old[i].status # new[i].status
  <2> QED BY <1>4, <1>6, <2>1
<1>9. TellsChanges(d, kind, old, new) BY ONLY <1>2, <1>7, <1>8 DEF TellsChanges, ToldUpTo
<1> QED BY ONLY <1>1, <1>9, Zenon

\* The events of an item in h, and if they are all there, its whole story.
ItemStory(h, kind, it, whole) ==
  \E at \in [EventsOf(h, kind, it.topic) -> 2..Len(it.trail)] :
    /\ Tells(h, kind, it, at)
    /\ whole => \A n \in 2..Len(it.trail) : \E p \in DOMAIN at : at[p] = n

\* That of each item of a list, and no other events of the kind.
Story(list, kind, h, whole) ==
  /\ h \in Seq(Events)
  /\ \A p \in 1..Len(h) : h[p].kind = kind => \E i \in 1..Len(list) : list[i].topic = h[p].topic
  /\ \A i \in 1..Len(list) : ItemStory(h, kind, list[i], whole)

\* new is h and then some.
Extends(new, h) ==
  /\ h \in Seq(Events) /\ new \in Seq(Events) /\ Len(h) <= Len(new)
  /\ \A p \in 1..Len(h) : new[p] = h[p]

\* The events of an item are the ones before and those that came.
LEMMA EventsSplit ==
  ASSUME NEW h, NEW new, Extends(new, h), NEW kind, NEW topic
  PROVE  EventsOf(new, kind, topic) =
           EventsOf(h, kind, topic) \cup
           {p \in (Len(h) + 1)..Len(new) : new[p].kind = kind /\ new[p].topic = topic}
<1>1. PICK l \in Nat, m \in Nat : l = Len(h) /\ m = Len(new) /\ l <= m BY DEF Extends
<1>2. DOMAIN h = 1..l /\ DOMAIN new = 1..m BY <1>1 DEF Extends
<1>3. 1..m = (1..l) \cup ((l + 1)..m) BY <1>1
<1>4. \A p \in 1..l : new[p] = h[p] BY <1>1 DEF Extends
<1> QED BY <1>1, <1>2, <1>3, <1>4 DEF EventsOf

\* Nothing came, nothing is to tell.
LEMMA ItemStays ==
  ASSUME NEW h, NEW new, Extends(new, h), NEW kind, NEW it, NEW jt, NEW whole \in BOOLEAN,
         jt.topic = it.topic, jt.trail = it.trail, ItemStory(h, kind, it, whole),
         \A p \in (Len(h) + 1)..Len(new) : ~(new[p].kind = kind /\ new[p].topic = it.topic)
  PROVE  ItemStory(new, kind, jt, whole)
<1>1. PICK E : E = EventsOf(h, kind, it.topic) OBVIOUS
<1>2. EventsOf(new, kind, it.topic) = E
  <2>1. EventsOf(new, kind, it.topic) =
          E \cup {p \in (Len(h) + 1)..Len(new) : new[p].kind = kind /\ new[p].topic = it.topic}
    BY <1>1, EventsSplit
  <2>2. {p \in (Len(h) + 1)..Len(new) : new[p].kind = kind /\ new[p].topic = it.topic} = {} OBVIOUS
  <2> QED BY <2>1, <2>2
<1>3. \A p \in E : new[p] = h[p]
  <2>1. DOMAIN h = 1..Len(h) BY DEF Extends
  <2> QED BY <1>1, <2>1 DEF EventsOf, Extends
<1>4. PICK at \in [E -> 2..Len(it.trail)] :
        /\ Tells(h, kind, it, at)
        /\ whole => \A n \in 2..Len(it.trail) : \E p \in DOMAIN at : at[p] = n
  BY <1>1 DEF ItemStory
<1>5. \A p \in E : /\ h[p].from = it.trail[at[p] - 1] /\ h[p].to = it.trail[at[p]]
                   /\ \A q \in E : q > p => at[q] > at[p]
  BY ONLY <1>1, <1>4, Zenon DEF Tells
<1>6. \A p \in E : /\ new[p].from = it.trail[at[p] - 1] /\ new[p].to = it.trail[at[p]]
                   /\ \A q \in E : q > p => at[q] > at[p]
  BY ONLY <1>3, <1>5, Zenon
<1>7. Tells(new, kind, jt, at) BY ONLY <1>2, <1>6, jt.topic = it.topic, jt.trail = it.trail, Zenon DEF Tells
<1> QED BY ONLY <1>2, <1>4, <1>7, jt.topic = it.topic, jt.trail = it.trail, Zenon DEF ItemStory

\* One event came, of the status that was added.
Added(it, jt) ==
  /\ jt.topic = it.topic /\ it.trail # <<>> /\ Last(it.trail) = it.status
  /\ jt.trail = Append(it.trail, jt.status)
OneCame(h, new, kind, it, jt, r) ==
  /\ new[r].kind = kind /\ new[r].topic = it.topic /\ new[r].from = it.status /\ new[r].to = jt.status
  /\ \A p \in (Len(h) + 1)..Len(new) : new[p].kind = kind /\ new[p].topic = it.topic => p = r

\* Then the story of the item goes on with that event.
LEMMA ItemGoesOn ==
  ASSUME NEW h, NEW new, Extends(new, h), NEW kind, NEW it \in Moving, NEW jt \in Moving, NEW whole \in BOOLEAN,
         Added(it, jt), ItemStory(h, kind, it, whole),
         NEW r \in (Len(h) + 1)..Len(new), OneCame(h, new, kind, it, jt, r)
  PROVE  ItemStory(new, kind, jt, whole)
<1>0. /\ jt.topic = it.topic /\ it.trail # <<>> /\ Last(it.trail) = it.status
      /\ jt.trail = Append(it.trail, jt.status)
      /\ new[r].kind = kind /\ new[r].topic = it.topic /\ new[r].from = it.status /\ new[r].to = jt.status
      /\ \A p \in (Len(h) + 1)..Len(new) : new[p].kind = kind /\ new[p].topic = it.topic => p = r
  BY Zenon DEF Added, OneCame
<1>1. PICK l \in Nat, m \in Nat : l = Len(h) /\ m = Len(new) /\ l <= m BY DEF Extends
<1>2. PICK E : E = EventsOf(h, kind, it.topic) OBVIOUS
<1>3. E \subseteq 1..l /\ \A p \in E : new[p] = h[p]
  <2>1. DOMAIN h = 1..l BY <1>1 DEF Extends
  <2> QED BY <1>1, <1>2, <2>1 DEF EventsOf, Extends
<1>4. EventsOf(new, kind, jt.topic) = E \cup {r}
  <2>1. EventsOf(new, kind, it.topic) =
          E \cup {p \in (Len(h) + 1)..Len(new) : new[p].kind = kind /\ new[p].topic = it.topic}
    BY <1>2, EventsSplit
  <2>2. {p \in (Len(h) + 1)..Len(new) : new[p].kind = kind /\ new[p].topic = it.topic} = {r}
    BY <1>0
  <2> QED BY ONLY <1>0, <2>1, <2>2, Zenon
<1>5. r \notin E /\ \A p \in E : p < r
  <2>1. r > l /\ r \in Nat BY <1>1
  <2> QED BY <1>3, <2>1
<1>6. PICK t \in Seq(ItemStatuses), L \in Nat : t = it.trail /\ L = Len(t) /\ L >= 1 /\ t[L] = it.status
  <2>1. it.trail \in Seq(ItemStatuses) BY DEF Moving
  <2>2. it.trail # <<>> /\ Last(it.trail) = it.status BY <1>0
  <2>3. Len(it.trail) \in Nat /\ Len(it.trail) >= 1 BY <2>1, <2>2
  <2> QED BY ONLY <2>1, <2>2, <2>3, Zenon DEF Last
<1>7. PICK u \in Seq(ItemStatuses) :
        /\ u = jt.trail /\ Len(u) = L + 1 /\ u[L + 1] = jt.status /\ \A n \in 1..L : u[n] = t[n]
  <2>1. PICK s \in ItemStatuses : s = jt.status BY DEF Moving
  <2>2. PICK u : u = Append(t, s) OBVIOUS
  <2>3. u = jt.trail BY ONLY <1>0, <1>6, <2>1, <2>2, Zenon
  <2>4. u \in Seq(ItemStatuses) /\ Len(u) = L + 1 /\ u[L + 1] = s /\ \A n \in 1..L : u[n] = t[n]
    BY ONLY <1>6, <2>2, t \in Seq(ItemStatuses), s \in ItemStatuses, L \in Nat
  <2> QED BY ONLY <2>1, <2>3, <2>4, Zenon
<1>8. PICK at \in [E -> 2..L] :
        /\ Tells(h, kind, it, at)
        /\ whole => \A n \in 2..L : \E p \in DOMAIN at : at[p] = n
  BY <1>2, <1>6 DEF ItemStory
<1>9. \A p \in E : /\ h[p].from = t[at[p] - 1] /\ h[p].to = t[at[p]]
                   /\ \A q \in E : q > p => at[q] > at[p]
  BY ONLY <1>2, <1>6, <1>8, Zenon DEF Tells
<1> DEFINE F == E \cup {r}
           to == [p \in F |-> IF p = r THEN L + 1 ELSE at[p]]
<1>10. /\ to[r] = L + 1 /\ \A p \in E : to[p] = at[p] /\ at[p] \in 2..L
       /\ to \in [F -> 2..(L + 1)] /\ DOMAIN to = F
  <2>1. \A p \in E : p # r BY <1>5
  <2> QED BY <1>6, <1>8, <2>1
<1> HIDE DEF to
<1>11. \A p \in F : new[p].from = u[to[p] - 1] /\ new[p].to = u[to[p]]
  <2>1. ASSUME NEW p \in E PROVE new[p].from = u[to[p] - 1] /\ new[p].to = u[to[p]]
    <3>1. PICK n \in 2..L : n = at[p] /\ n = to[p] BY <1>10
    <3>2. n \in 1..L /\ n - 1 \in 1..L OBVIOUS
    <3>3. u[n] = t[n] /\ u[n - 1] = t[n - 1] BY <1>7, <3>2
    <3>4. new[p].from = t[n - 1] /\ new[p].to = t[n] BY <1>3, <1>9, <3>1
    <3> QED BY <3>1, <3>3, <3>4
  <2>2. new[r].from = u[to[r] - 1] /\ new[r].to = u[to[r]]
    <3>1. to[r] - 1 = L /\ to[r] = L + 1 /\ L \in 1..L BY <1>6, <1>10
    <3>2. u[L] = t[L] BY <1>7, <3>1
    <3>3. new[r].from = t[L] BY <1>0, <1>6
    <3>4. new[r].to = u[L + 1] BY <1>0, <1>7
    <3> QED BY ONLY <3>1, <3>2, <3>3, <3>4
  <2> QED BY <2>1, <2>2
<1>12. \A p, q \in F : q > p => to[q] > to[p]
  <2> SUFFICES ASSUME NEW p \in F, NEW q \in F, q > p PROVE to[q] > to[p] OBVIOUS
  <2>1. p # r
    <3> SUFFICES ASSUME p = r PROVE FALSE OBVIOUS
    <3>1. r \in Nat BY <1>1
    <3>2. q # r BY <3>1
    <3>3. q \in E /\ q \in Nat BY <1>3, <3>2
    <3> QED BY <1>5, <3>1, <3>3
  <2>2. p \in E BY <2>1
  <2>3. CASE q = r BY <1>6, <1>10, <2>2, <2>3
  <2>4. CASE q \in E BY <1>9, <1>10, <2>2, <2>4
  <2> QED BY <2>3, <2>4
<1>13. Tells(new, kind, jt, to) BY ONLY <1>4, <1>7, <1>11, <1>12, Zenon DEF Tells
<1>14. whole => \A n \in 2..(L + 1) : \E p \in DOMAIN to : to[p] = n
  <2> SUFFICES ASSUME whole, NEW n \in 2..(L + 1) PROVE \E p \in F : to[p] = n BY <1>10
  <2>1. CASE n = L + 1 BY <1>10, <2>1
  <2>2. CASE n # L + 1
    <3>1. n \in 2..L BY <2>2
    <3>2. PICK p \in E : at[p] = n BY <1>8, <3>1
    <3> QED BY <1>10, <3>2
  <2> QED BY <2>1, <2>2
<1>15. to \in [EventsOf(new, kind, jt.topic) -> 2..Len(jt.trail)]
  BY ONLY <1>4, <1>7, <1>10
<1>16. whole => \A n \in 2..Len(jt.trail) : \E p \in DOMAIN to : to[p] = n BY ONLY <1>7, <1>14
<1> QED BY ONLY <1>13, <1>15, <1>16, Zenon DEF ItemStory

\* Nothing to tell, nothing told.
LEMMA ItemBegins ==
  ASSUME NEW h, NEW kind, NEW it, NEW whole \in BOOLEAN, Len(it.trail) = 1, EventsOf(h, kind, it.topic) = {}
  PROVE  ItemStory(h, kind, it, whole)
<1>1. PICK at : at = [p \in {} |-> 2] OBVIOUS
<1>2. at \in [{} -> 2..1] /\ 2..1 = {} BY <1>1
<1>3. Tells(h, kind, it, at) BY ONLY EventsOf(h, kind, it.topic) = {}, Zenon DEF Tells
<1> QED BY ONLY <1>2, <1>3, Len(it.trail) = 1, EventsOf(h, kind, it.topic) = {}, Zenon DEF ItemStory

\* new is h with d behind it.
Behind(new, h, d) ==
  /\ Extends(new, h)
  /\ \A p \in 1..Len(d) : Len(h) + p \in (Len(h) + 1)..Len(new) /\ new[Len(h) + p] = d[p]
  /\ \A p \in (Len(h) + 1)..Len(new) : \E q \in 1..Len(d) : p = Len(h) + q

\* Joining two lists of events puts the second behind the first.
LEMMA ExtendsBy ==
  ASSUME NEW h \in Seq(Events), NEW d \in Seq(Events), NEW new, new = h \o d
  PROVE  Behind(new, h, d)
<1>1. PICK l \in Nat, m \in Nat : l = Len(h) /\ m = Len(d) OBVIOUS
<1>2. /\ new \in Seq(Events) /\ Len(new) = l + m
      /\ \A i \in 1..l : new[i] = h[i]
      /\ \A i \in 1..m : new[l + i] = d[i]
  BY ONLY <1>1, h \in Seq(Events), d \in Seq(Events), Joined, new = h \o d
<1>3. l <= l + m OBVIOUS
<1>4. \A p \in 1..m : l + p \in (l + 1)..(l + m) OBVIOUS
<1>5. \A p \in (l + 1)..(l + m) : p - l \in 1..m /\ p = l + (p - l) OBVIOUS
<1> QED BY ONLY <1>1, <1>2, <1>3, <1>4, <1>5, Zenon, h \in Seq(Events) DEF Extends, Behind

\* The story goes on with the events of a stage.
LEMMA StoryStep ==
  ASSUME NEW kind \in Kinds, NEW old, NEW earlier, Settled(old, earlier), NEW new, NEW turn, Became(old, new, turn),
         NEW whole \in BOOLEAN, NEW h, Story(old, kind, h, whole),
         NEW d, TellsChanges(d, kind, old, new), NEW e, e = h \o d
  PROVE  Story(new, kind, e, whole)
<1>1. h \in Seq(Events) /\ d \in Seq(Events) BY DEF Story, TellsChanges, ToldUpTo
<1>2. /\ Extends(e, h)
      /\ \A p \in 1..Len(d) : Len(h) + p \in (Len(h) + 1)..Len(e) /\ e[Len(h) + p] = d[p]
      /\ \A p \in (Len(h) + 1)..Len(e) : \E q \in 1..Len(d) : p = Len(h) + q
  <2>1. Behind(e, h, d) BY ONLY <1>1, ExtendsBy, e = h \o d, Zenon
  <2> QED BY <2>1 DEF Behind
<1>3. PICK n \in Nat, m \in Nat : n = Len(new) /\ m = Len(old) /\ m <= n BY DEF Became, Settled
<1>4. PICK l \in Nat : l = Len(h) BY <1>1
<1>5. /\ \A i \in 1..m : old[i] \in Moving /\ old[i].trail # <<>> /\ Last(old[i].trail) = old[i].status
      /\ \A i \in 1..n : new[i] \in Moving
      /\ \A i, j \in 1..n : new[i].topic = new[j].topic => i = j
      /\ \A i \in 1..m : /\ new[i].topic = old[i].topic
                         /\ new[i].trail = IF new[i].status = old[i].status THEN old[i].trail
                                           ELSE Append(old[i].trail, new[i].status)
      /\ \A i \in 1..n : i > m => Len(new[i].trail) = 1
  BY <1>3 DEF Became, Settled, Apart
<1>6. /\ \A p \in 1..Len(d) : d[p].kind = kind =>
           \E i \in 1..m :
             /\ d[p].topic = old[i].topic /\ old[i].status # new[i].status
             /\ d[p].from = old[i].status /\ d[p].to = new[i].status
      /\ \A i \in 1..m :
           old[i].status # new[i].status =>
             \E p \in 1..Len(d) : d[p].kind = kind /\ d[p].topic = old[i].topic
      /\ \A p, q \in 1..Len(d) :
           d[p].kind = kind /\ d[q].kind = kind /\ d[p].topic = d[q].topic => p = q
  <2>1. ToldUpTo(d, kind, old, new, n) BY <1>3 DEF TellsChanges
  <2>2. \A i \in 1..m : i <= n BY <1>3
  <2> QED BY ONLY <1>3, <2>1, <2>2, Zenon DEF ToldUpTo
<1>7. \A i \in 1..m : i \in 1..n BY <1>3
<1>8. ASSUME NEW p \in 1..Len(e), e[p].kind = kind
      PROVE  \E i \in 1..m : new[i].topic = e[p].topic
  <2>1. CASE p \in 1..l
    <3>1. e[p] = h[p] BY <1>2, <1>4, <2>1 DEF Extends
    <3>2. PICK i \in 1..m : old[i].topic = h[p].topic BY <1>3, <1>4, <1>8, <2>1, <3>1 DEF Story
    <3> QED BY <1>5, <3>1, <3>2
  <2>2. CASE p \notin 1..l
    <3>1. p \in (Len(h) + 1)..Len(e) BY <1>4, <2>2
    <3>2. PICK q \in 1..Len(d) : p = Len(h) + q BY <1>2, <3>1
    <3>3. e[p] = d[q] BY <1>2, <3>2
    <3>4. PICK i \in 1..m : d[q].topic = old[i].topic BY <1>6, <1>8, <3>3
    <3> QED BY <1>5, <3>3, <3>4
  <2> QED BY <2>1, <2>2
<1>9. ASSUME NEW i \in 1..m PROVE ItemStory(e, kind, new[i], whole)
  <2>1. /\ new[i].topic = old[i].topic /\ old[i] \in Moving /\ new[i] \in Moving
        /\ old[i].trail # <<>> /\ Last(old[i].trail) = old[i].status
    BY <1>5, <1>7
  <2>2. ItemStory(h, kind, old[i], whole) BY <1>3 DEF Story
  <2>3. ASSUME NEW q \in 1..Len(d), d[q].kind = kind, d[q].topic = old[i].topic
        PROVE  /\ old[i].status # new[i].status
               /\ d[q].from = old[i].status /\ d[q].to = new[i].status
    <3>1. PICK j \in 1..m :
            /\ d[q].topic = old[j].topic /\ old[j].status # new[j].status
            /\ d[q].from = old[j].status /\ d[q].to = new[j].status
      BY <1>6, <2>3
    <3>2. new[j].topic = new[i].topic BY <1>5, <2>3, <3>1
    <3>3. j = i BY <1>5, <1>7, <3>2
    <3> QED BY <3>1, <3>3
  <2>4. CASE new[i].status = old[i].status
    <3>1. new[i].trail = old[i].trail BY <1>5, <2>4
    <3>2. \A p \in (Len(h) + 1)..Len(e) : ~(e[p].kind = kind /\ e[p].topic = old[i].topic)
      <4> SUFFICES ASSUME NEW p \in (Len(h) + 1)..Len(e), e[p].kind = kind, e[p].topic = old[i].topic
                   PROVE  FALSE
        OBVIOUS
      <4>1. PICK q \in 1..Len(d) : p = Len(h) + q BY <1>2
      <4>2. e[p] = d[q] BY <1>2, <4>1
      <4> QED BY <2>3, <2>4, <4>2
    <3> QED BY ONLY <1>2, <2>1, <2>2, <3>1, <3>2, ItemStays, whole \in BOOLEAN
  <2>5. CASE new[i].status # old[i].status
    <3>1. new[i].trail = Append(old[i].trail, new[i].status) BY <1>5, <2>5
    <3>2. PICK q \in 1..Len(d) : d[q].kind = kind /\ d[q].topic = old[i].topic BY <1>6, <2>5
    <3>3. PICK r \in (Len(h) + 1)..Len(e) : r = Len(h) + q /\ e[r] = d[q] BY <1>2
    <3>4. e[r].kind = kind /\ e[r].topic = old[i].topic /\ e[r].from = old[i].status /\ e[r].to = new[i].status
      BY <2>3, <3>2, <3>3
    <3>5. \A p \in (Len(h) + 1)..Len(e) : e[p].kind = kind /\ e[p].topic = old[i].topic => p = r
      <4> SUFFICES ASSUME NEW p \in (Len(h) + 1)..Len(e), e[p].kind = kind, e[p].topic = old[i].topic
                   PROVE  p = r
        OBVIOUS
      <4>1. PICK s \in 1..Len(d) : p = Len(h) + s BY <1>2
      <4>2. e[p] = d[s] BY <1>2, <4>1
      <4>3. s = q BY <1>6, <3>2, <4>2
      <4> QED BY <3>3, <4>1, <4>3
    <3>6. OneCame(h, e, kind, old[i], new[i], r) BY ONLY <3>4, <3>5, Zenon DEF OneCame
    <3>7. Added(old[i], new[i]) BY ONLY <2>1, <3>1, Zenon DEF Added
    <3> QED BY ONLY <1>2, <2>1, <2>2, <3>6, <3>7, ItemGoesOn, whole \in BOOLEAN,
                    r \in (Len(h) + 1)..Len(e), Zenon
  <2> QED BY <2>4, <2>5
<1>10. ASSUME NEW i \in 1..n, i > m PROVE ItemStory(e, kind, new[i], whole)
  <2>1. Len(new[i].trail) = 1 BY <1>5, <1>10
  <2>2. DOMAIN e = 1..Len(e) BY <1>2 DEF Extends
  <2>3. EventsOf(e, kind, new[i].topic) = {}
    <3> SUFFICES ASSUME NEW p \in 1..Len(e), e[p].kind = kind, e[p].topic = new[i].topic PROVE FALSE
      BY <2>2 DEF EventsOf
    <3>1. PICK j \in 1..m : new[j].topic = e[p].topic BY <1>8
    <3>2. j = i BY <1>5, <1>7, <3>1
    <3> QED BY <1>10, <3>2
  <2> QED BY <2>1, <2>3, ItemBegins
<1>11. \A i \in 1..n : ItemStory(e, kind, new[i], whole)
  <2>1. \A i \in 1..n : i \in 1..m \/ i > m BY <1>3
  <2> QED BY <1>9, <1>10, <2>1
<1>12. e \in Seq(Events) BY <1>2 DEF Extends
<1> QED BY ONLY <1>3, <1>7, <1>8, <1>11, <1>12, Zenon DEF Story

\* Losing the end of a story leaves a story.
LEMMA StoryCut ==
  ASSUME NEW list, NEW kind, NEW h, NEW new, Extends(new, h), NEW whole \in BOOLEAN, Story(list, kind, new, whole),
         NEW part \in BOOLEAN, ~part
  PROVE  Story(list, kind, h, part)
<1>1. PICK l \in Nat, m \in Nat : l = Len(h) /\ m = Len(new) /\ l <= m BY DEF Extends
<1>2. h \in Seq(Events) /\ \A p \in 1..l : new[p] = h[p] /\ p \in 1..m BY <1>1 DEF Extends
<1>3. \A p \in 1..l : h[p].kind = kind => \E i \in 1..Len(list) : list[i].topic = h[p].topic
  BY <1>1, <1>2 DEF Story
<1>4. ASSUME NEW i \in 1..Len(list) PROVE ItemStory(h, kind, list[i], part)
  <2>1. PICK E, F : E = EventsOf(h, kind, list[i].topic) /\ F = EventsOf(new, kind, list[i].topic) OBVIOUS
  <2>2. E \subseteq F /\ E \subseteq 1..l
    <3>1. DOMAIN h = 1..l BY <1>1, <1>2
    <3>2. F = E \cup {p \in (Len(h) + 1)..Len(new) : new[p].kind = kind /\ new[p].topic = list[i].topic}
      BY <2>1, EventsSplit
    <3>3. E \subseteq 1..l BY ONLY <2>1, <3>1 DEF EventsOf
    <3> QED BY ONLY <3>2, <3>3, Zenon
  <2>3. PICK at \in [F -> 2..Len(list[i].trail)] : Tells(new, kind, list[i], at)
    BY <2>1 DEF Story, ItemStory
  <2>4. \A p \in F : /\ new[p].from = list[i].trail[at[p] - 1] /\ new[p].to = list[i].trail[at[p]]
                     /\ \A q \in F : q > p => at[q] > at[p]
    BY ONLY <2>1, <2>3, Zenon DEF Tells
  <2> DEFINE to == [p \in E |-> at[p]]
  <2>5. to \in [E -> 2..Len(list[i].trail)] /\ \A p \in E : to[p] = at[p] BY <2>2
  <2> HIDE DEF to
  <2>6. \A p \in E : new[p] = h[p] BY <1>2, <2>2
  <2>7. \A p \in E : /\ h[p].from = list[i].trail[to[p] - 1] /\ h[p].to = list[i].trail[to[p]]
                     /\ \A q \in E : q > p => to[q] > to[p]
    <3> SUFFICES ASSUME NEW p \in E
                 PROVE  /\ h[p].from = list[i].trail[to[p] - 1] /\ h[p].to = list[i].trail[to[p]]
                        /\ \A q \in E : q > p => to[q] > to[p]
      OBVIOUS
    <3>1. p \in F /\ to[p] = at[p] /\ new[p] = h[p] BY <2>2, <2>5, <2>6
    <3>2. /\ h[p].from = list[i].trail[to[p] - 1] /\ h[p].to = list[i].trail[to[p]]
          /\ \A q \in F : q > p => at[q] > to[p]
      BY <2>4, <3>1
    <3> QED BY <2>2, <2>5, <3>2
  <2>8. Tells(h, kind, list[i], to) BY ONLY <2>1, <2>7, Zenon DEF Tells
  <2> QED BY ONLY <2>1, <2>5, <2>8, ~part, Zenon DEF ItemStory
<1> QED BY ONLY <1>1, <1>2, <1>3, <1>4, Zenon DEF Story

\* The steps of trails to one status: TrueMoves of one kind.
Row(list, to, i) == {<<i, n>> : n \in {m \in 2..Len(list[i].trail) : list[i].trail[m] = to}}
StatusMoves(list, to) == UNION {Row(list, to, i) : i \in DOMAIN list}

\* The events of one kind that led to one status.
Counting(h, kind, to) == {p \in DOMAIN h : h[p].kind = kind /\ h[p].to = to}

\* They are the true moves of the model.
LEMMA TrueMovesAre ==
  ASSUME NEW w, NEW kind, NEW to
  PROVE  TrueMoves(w, kind, to) = StatusMoves(IF kind = "goal" THEN w.goals ELSE w.decisions, to)
BY Zenon DEF TrueMoves, StatusMoves, Row

\* A move is a place and a step.
LEMMA MovesAre ==
  ASSUME NEW list, NEW n \in Nat, DOMAIN list = 1..n, NEW to
  PROVE  /\ \A i \in 1..n : \A m \in 2..Len(list[i].trail) :
              list[i].trail[m] = to => <<i, m>> \in StatusMoves(list, to)
         /\ \A x \in StatusMoves(list, to) :
              \E i \in 1..n : \E m \in 2..Len(list[i].trail) : list[i].trail[m] = to /\ x = <<i, m>>
<1>1. ASSUME NEW i \in 1..n, NEW m \in 2..Len(list[i].trail), list[i].trail[m] = to
      PROVE  <<i, m>> \in StatusMoves(list, to)
  <2>1. <<i, m>> \in Row(list, to, i) BY <1>1 DEF Row
  <2> QED BY <2>1 DEF StatusMoves
<1>2. ASSUME NEW x \in StatusMoves(list, to)
      PROVE  \E i \in 1..n : \E m \in 2..Len(list[i].trail) : list[i].trail[m] = to /\ x = <<i, m>>
  <2>1. PICK i \in 1..n : x \in Row(list, to, i) BY DEF StatusMoves
  <2> QED BY <2>1 DEF Row
<1> QED BY ONLY <1>1, <1>2, Zenon

\* There are only so many of them.
LEMMA MovesFinite ==
  ASSUME NEW list \in Seq(Moving), NEW to
  PROVE  IsFiniteSet(StatusMoves(list, to))
<1>1. PICK n \in Nat : n = Len(list) /\ DOMAIN list = 1..n /\ \A i \in 1..n : list[i] \in Moving OBVIOUS
<1>2. ASSUME NEW i \in 1..n PROVE IsFiniteSet(Row(list, to, i))
  <2>1. PICK L \in Nat : L = Len(list[i].trail)
    <3>1. list[i].trail \in Seq(ItemStatuses) BY <1>1 DEF Moving
    <3> QED BY <3>1
  <2> DEFINE f == [x \in Row(list, to, i) |-> x[2]]
  <2>2. f \in Injection(Row(list, to, i), 2..L)
    <3>1. \A x \in Row(list, to, i) : x[2] \in 2..L /\ x = <<i, x[2]>> BY <2>1 DEF Row
    <3>2. f \in [Row(list, to, i) -> 2..L] BY <3>1
    <3>3. \A x, y \in Row(list, to, i) : f[x] = f[y] => x = y BY <3>1
    <3> HIDE DEF f
    <3>4. DOMAIN f = Row(list, to, i) BY <3>2
    <3> QED BY ONLY <3>2, <3>3, <3>4 DEF Injection, IsInjective
  <2> HIDE DEF f
  <2>3. IsFiniteSet(2..L)
    <3>1. 2 \in Int /\ L \in Int OBVIOUS
    <3> QED BY ONLY <3>1, FS_Interval
  <2> QED BY <2>2, <2>3, FS_Injection
<1> DEFINE R == {Row(list, to, i) : i \in 1..n}
           r == [i \in 1..n |-> Row(list, to, i)]
<1>3. r \in Surjection(1..n, R)
  <2>1. r \in [1..n -> R] /\ \A t \in R : \E i \in 1..n : r[i] = t OBVIOUS
  <2> QED BY <2>1, Zenon DEF Surjection
<1>4. IsFiniteSet(1..n) BY FS_Interval
<1>5. IsFiniteSet(R)
  <2> HIDE DEF R, r
  <2> QED BY <1>3, <1>4, FS_Surjection
<1>6. \A T \in R : IsFiniteSet(T) BY <1>2
<1>7. StatusMoves(list, to) = UNION R BY <1>1 DEF StatusMoves
<1> HIDE DEF R
<1> QED BY <1>5, <1>6, <1>7, FS_UNION

\* No status counts more events than there were steps to it.
LEMMA CountedMoves ==
  ASSUME NEW list \in Seq(Moving), NEW kind \in Kinds, NEW h, NEW whole, Story(list, kind, h, whole), NEW to
  PROVE  /\ Cardinality(Counting(h, kind, to)) \in Nat /\ Cardinality(StatusMoves(list, to)) \in Nat
         /\ Cardinality(Counting(h, kind, to)) <= Cardinality(StatusMoves(list, to))
<1>1. PICK n \in Nat : n = Len(list) /\ DOMAIN list = 1..n OBVIOUS
<1>2. PICK C : C = Counting(h, kind, to) OBVIOUS
<1>3. DOMAIN h = 1..Len(h) /\ Len(h) \in Nat BY DEF Story
<1> DEFINE E(i) == EventsOf(h, kind, list[i].topic)
           StepOf(i) == CHOOSE at \in [E(i) -> 2..Len(list[i].trail)] : Tells(h, kind, list[i], at)
           Of(p) == CHOOSE i \in 1..n : list[i].topic = h[p].topic
<1>4. ASSUME NEW i \in 1..n
      PROVE  StepOf(i) \in [E(i) -> 2..Len(list[i].trail)] /\ Tells(h, kind, list[i], StepOf(i))
  <2>1. \E at \in [E(i) -> 2..Len(list[i].trail)] : Tells(h, kind, list[i], at)
    BY <1>1 DEF Story, ItemStory
  <2> HIDE DEF E
  <2> QED BY <2>1
<1>5. ASSUME NEW p \in C PROVE Of(p) \in 1..n /\ p \in E(Of(p)) /\ h[p].to = to /\ p \in 1..Len(h)
  <2>1. p \in 1..Len(h) /\ h[p].kind = kind /\ h[p].to = to BY <1>2, <1>3 DEF Counting
  <2>2. \E i \in 1..n : list[i].topic = h[p].topic BY <1>1, <2>1 DEF Story
  <2>3. Of(p) \in 1..n /\ list[Of(p)].topic = h[p].topic BY <2>2
  <2> HIDE DEF Of
  <2> QED BY <1>3, <2>1, <2>3 DEF EventsOf
<1> HIDE DEF StepOf, Of
<1>6. \A i \in 1..n : \A p \in E(i) :
        /\ StepOf(i)[p] \in 2..Len(list[i].trail)
        /\ h[p].to = list[i].trail[StepOf(i)[p]]
        /\ \A q \in E(i) : q > p => StepOf(i)[q] > StepOf(i)[p]
  <2> SUFFICES ASSUME NEW i \in 1..n, NEW p \in E(i)
               PROVE  /\ StepOf(i)[p] \in 2..Len(list[i].trail)
                      /\ h[p].to = list[i].trail[StepOf(i)[p]]
                      /\ \A q \in E(i) : q > p => StepOf(i)[q] > StepOf(i)[p]
    OBVIOUS
  <2>1. PICK at : at = StepOf(i) OBVIOUS
  <2>2. at \in [E(i) -> 2..Len(list[i].trail)] /\ Tells(h, kind, list[i], at) BY <1>4, <2>1
  <2>3. /\ h[p].to = list[i].trail[at[p]] /\ \A q \in E(i) : q > p => at[q] > at[p]
    BY ONLY <2>2, Zenon, p \in E(i) DEF Tells
  <2> HIDE DEF E
  <2> QED BY <2>1, <2>2, <2>3
<1> DEFINE f == [p \in C |-> <<Of(p), StepOf(Of(p))[p]>>]
<1>7. f \in [C -> StatusMoves(list, to)]
  <2>1. ASSUME NEW p \in C PROVE <<Of(p), StepOf(Of(p))[p]>> \in StatusMoves(list, to)
    <3>1. PICK i \in 1..n : i = Of(p) /\ p \in E(i) /\ h[p].to = to BY <1>5
    <3>2. PICK m \in 2..Len(list[i].trail) : m = StepOf(i)[p] /\ list[i].trail[m] = to BY <1>6, <3>1
    <3>3. <<i, m>> \in StatusMoves(list, to) BY <1>1, <3>2, MovesAre
    <3> QED BY <3>1, <3>2, <3>3
  <2> QED BY <2>1
<1>8. ASSUME NEW p \in C, NEW q \in C, f[p] = f[q] PROVE p = q
  <2>1. PICK i \in 1..n : i = Of(p) /\ p \in E(i) /\ p \in 1..Len(h) BY <1>5
  <2>2. <<Of(p), StepOf(Of(p))[p]>> = <<Of(q), StepOf(Of(q))[q]>> BY <1>8
  <2>3. i = Of(q) /\ StepOf(i)[p] = StepOf(i)[q] BY <2>1, <2>2
  <2>4. q \in E(i) /\ q \in 1..Len(h) BY <1>5, <2>3
  <2>5. StepOf(i)[p] \in Nat
    <3>1. StepOf(i)[p] \in 2..Len(list[i].trail) BY <1>6, <2>1
    <3> QED BY <3>1
  <2>6. ~(q > p) /\ ~(p > q)
    <3>1. ASSUME q > p PROVE FALSE
      <4>1. StepOf(i)[q] > StepOf(i)[p] BY <1>6, <2>1, <2>4, <3>1
      <4> QED BY <2>3, <2>5, <4>1
    <3>2. ASSUME p > q PROVE FALSE
      <4>1. StepOf(i)[p] > StepOf(i)[q] BY <1>6, <2>1, <2>4, <3>2
      <4> QED BY <2>3, <2>5, <4>1
    <3> QED BY <3>1, <3>2
  <2> QED BY <2>1, <2>4, <2>6
<1>9. f \in Injection(C, StatusMoves(list, to))
  <2> HIDE DEF f
  <2>1. DOMAIN f = C BY <1>7
  <2> QED BY ONLY <1>7, <1>8, <2>1, Zenon DEF Injection, IsInjective
<1>10. IsFiniteSet(StatusMoves(list, to)) BY MovesFinite
<1>11. IsFiniteSet(C) /\ Cardinality(C) <= Cardinality(StatusMoves(list, to))
  <2> HIDE DEF f
  <2> QED BY <1>9, <1>10, FS_Injection
<1>12. Cardinality(C) \in Nat /\ Cardinality(StatusMoves(list, to)) \in Nat BY <1>10, <1>11, FS_CardinalityType
<1> QED BY <1>2, <1>11, <1>12

\* A stage takes no step back.
Grown(old, new) == \A to \in ItemStatuses : StatusMoves(old, to) \subseteq StatusMoves(new, to)

\* What a stage makes of a list keeps its moves.
LEMMA BecameGrown ==
  ASSUME NEW old, NEW earlier, Settled(old, earlier), NEW new, NEW turn, Became(old, new, turn)
  PROVE  Grown(old, new)
<1>1. PICK n \in Nat, m \in Nat : n = Len(new) /\ m = Len(old) /\ m <= n BY DEF Became, Settled
<1>2. DOMAIN new = 1..n /\ DOMAIN old = 1..m BY <1>1 DEF Became, Settled
<1>3. ASSUME NEW to, NEW x \in StatusMoves(old, to) PROVE x \in StatusMoves(new, to)
  <2>1. PICK i \in 1..m : \E j \in 2..Len(old[i].trail) : old[i].trail[j] = to /\ x = <<i, j>>
    BY <1>2, MovesAre
  <2>2. PICK j \in 2..Len(old[i].trail) : old[i].trail[j] = to /\ x = <<i, j>> BY <2>1
  <2>3. i \in 1..n BY <1>1
  <2>4. PICK t \in Seq(ItemStatuses), s \in ItemStatuses : t = old[i].trail /\ s = new[i].status
    <3>1. old[i] \in Moving /\ new[i] \in Moving BY <1>1, <2>3 DEF Became, Settled
    <3> QED BY <3>1 DEF Moving
  <2>5. new[i].trail = t \/ new[i].trail = Append(t, s) BY <1>1, <2>4 DEF Became
  <2>6. j \in 2..Len(new[i].trail) /\ new[i].trail[j] = t[j] BY <2>4, <2>5
  <2>7. <<i, j>> \in StatusMoves(new, to) BY <1>2, <2>2, <2>3, <2>4, <2>6, MovesAre
  <2> QED BY <2>2, <2>7
<1> QED BY <1>3 DEF Grown

\* What is not known yet has no history.
Wondered(unknowns, turn) ==
  \A u \in unknowns : u \in Moving /\ u.trail = <<>> /\ u.since <= u.updated /\ u.updated <= turn

IsWorld(w) ==
  /\ w = [turn |-> w.turn, phase |-> w.phase, complaint |-> w.complaint, question |-> w.question,
          goals |-> w.goals, decisions |-> w.decisions, unknowns |-> w.unknowns]
  /\ w.turn \in Nat
  /\ Settled(w.goals, w.turn) /\ Settled(w.decisions, w.turn) /\ Wondered(w.unknowns, w.turn)

\* new is what a stage made of old.
StageMade(old, new) ==
  /\ IsWorld(new)
  /\ Became(old.goals, new.goals, new.turn) /\ Became(old.decisions, new.decisions, new.turn)

\* An unknown is answered, asked, or stays.
LEMMA ReconciledStep ==
  ASSUME NEW unknowns, NEW earlier \in Nat, Wondered(unknowns, earlier), NEW turn \in Nat, earlier <= turn,
         NEW x \in Extracts
  PROVE  Wondered(Reconciled(unknowns, x, turn), turn)
<1> SUFFICES ASSUME NEW u \in Reconciled(unknowns, x, turn)
             PROVE  u \in Moving /\ u.trail = <<>> /\ u.since <= u.updated /\ u.updated <= turn
  BY Zenon DEF Wondered
<1>1. \/ u \in unknowns
      \/ \E t \in x.unknowns : u = Item(t, "open", turn)
      \/ \E v \in unknowns : u = [v EXCEPT !.status = "resolved", !.updated = turn]
  BY Zenon DEF Reconciled
<1>2. \A v \in unknowns : v \in Moving /\ v.trail = <<>> /\ v.since <= v.updated /\ v.updated <= turn
  <2>1. \A v \in unknowns : /\ v \in Moving /\ v.trail = <<>> /\ v.since <= v.updated
                            /\ v.updated <= earlier /\ v.updated \in Nat
    BY DEF Wondered, Moving
  <2> QED BY <2>1
<1>3. CASE u \in unknowns BY <1>2, <1>3
<1>4. CASE \E t \in x.unknowns : u = Item(t, "open", turn)
  <2>1. PICK t \in x.unknowns : u = Item(t, "open", turn) BY <1>4
  <2>2. t \in Topics BY Zenon DEF Topics
  <2>3. "open" \in ItemStatuses /\ <<>> \in Seq(ItemStatuses) BY DEF ItemStatuses
  <2> QED BY <2>1, <2>2, <2>3 DEF Item, Moving
<1>5. CASE \E v \in unknowns : u = [v EXCEPT !.status = "resolved", !.updated = turn]
  <2>1. PICK v \in unknowns : u = [v EXCEPT !.status = "resolved", !.updated = turn] BY <1>5
  <2>2. v \in Moving /\ v.trail = <<>> /\ v.since <= v.updated /\ v.updated <= turn BY <1>2
  <2>3. "resolved" \in ItemStatuses BY DEF ItemStatuses
  <2>4. v.since \in Nat /\ v.updated \in Nat BY <2>2 DEF Moving
  <2>5. u \in Moving /\ u.trail = v.trail /\ u.since = v.since /\ u.updated = turn
    BY <2>1, <2>2, <2>3 DEF Moving
  <2> QED BY <2>2, <2>4, <2>5
<1> QED BY <1>1, <1>3, <1>4, <1>5

\* A list that nothing touches.
LEMMA BecameStill ==
  ASSUME NEW list, NEW turn \in Nat, Settled(list, turn)
  PROVE  Became(list, list, turn)
<1>1. list \in Seq(Moving) BY DEF Settled
<1>2. PICK n \in Nat : n = Len(list) BY <1>1
<1>3. \A i \in 1..n : ~(i > n) BY <1>2
<1>4. n <= n BY <1>2
<1> QED BY ONLY <1>2, <1>3, <1>4, Zenon, Settled(list, turn) DEF Became

\* A list that takes topics and updates in.
LEMMA ListStep ==
  ASSUME NEW old, NEW earlier \in Nat, Settled(old, earlier), NEW turn \in Nat, earlier <= turn,
         NEW q \in Seq(Topics), NEW fresh \in {"active", "open"}, NEW u \in Seq(StatusUpdates),
         NEW new, new = Tracked(Transitions(Merge(old, q, fresh, turn), u, turn), turn)
  PROVE  Became(old, new, turn)
<1>1. old \in Seq(Moving) BY DEF Settled
<1>2. PICK a : a = Merge(old, q, fresh, turn) OBVIOUS
<1>3. PICK b : b = Transitions(a, u, turn) OBVIOUS
<1>4. Touched(old, old, turn) BY TouchedStart
<1>5. Touched(old, a, turn) BY <1>1, <1>2, <1>4, MergeStep
<1>6. Touched(old, b, turn) BY <1>1, <1>3, <1>5, TransitionsStep
<1>7. new = Tracked(b, turn) BY <1>2, <1>3
<1> QED BY <1>6, <1>7, TrackedStep

\* What Interpretation makes of a WorldState.
LEMMA IntegratedMakes ==
  ASSUME NEW w, IsWorld(w), NEW x \in Extracts, NEW new, new = Integrated(w, x)
  PROVE  StageMade(w, new) /\ new.turn = w.turn + 1
<1>1. PICK earlier \in Nat, turn \in Nat : earlier = w.turn /\ turn = w.turn + 1 /\ earlier <= turn
  BY DEF IsWorld
<1>2. PICK phase, complaint, question :
        phase = NextPhase(w, x) /\ complaint = (x.complaint \/ w.complaint) /\ question = (x.question \/ w.question)
  OBVIOUS
<1>3. PICK goals, decisions, unknowns :
        /\ goals = Tracked(Transitions(Merge(w.goals, x.goals, "active", turn), x.updates, turn), turn)
        /\ decisions = Tracked(Transitions(Merge(w.decisions, x.options, "open", turn), x.outcomes, turn), turn)
        /\ unknowns = Reconciled(w.unknowns, x, turn)
  OBVIOUS
<1>4. new = [turn |-> turn, phase |-> phase, complaint |-> complaint, question |-> question,
             goals |-> goals, decisions |-> decisions, unknowns |-> unknowns]
  BY ONLY <1>1, <1>2, <1>3, Zenon, new = Integrated(w, x) DEF Integrated
<1>5. /\ x.goals \in Seq(Topics) /\ x.options \in Seq(Topics)
      /\ x.updates \in Seq(StatusUpdates) /\ x.outcomes \in Seq(StatusUpdates)
  BY Zenon, TrajectoryAssumption DEF TrajectoryAssumption
<1>6. Settled(w.goals, earlier) /\ Settled(w.decisions, earlier) /\ Wondered(w.unknowns, earlier)
  BY <1>1 DEF IsWorld
<1>7. Became(w.goals, goals, turn)
  <2>1. PICK q \in Seq(Topics), u \in Seq(StatusUpdates) : q = x.goals /\ u = x.updates BY <1>5
  <2>2. goals = Tracked(Transitions(Merge(w.goals, q, "active", turn), u, turn), turn) BY <1>3, <2>1
  <2> QED BY <1>1, <1>6, <2>2, ListStep
<1>8. Became(w.decisions, decisions, turn)
  <2>1. PICK q \in Seq(Topics), u \in Seq(StatusUpdates) : q = x.options /\ u = x.outcomes BY <1>5
  <2>2. decisions = Tracked(Transitions(Merge(w.decisions, q, "open", turn), u, turn), turn) BY <1>3, <2>1
  <2> QED BY <1>1, <1>6, <2>2, ListStep
<1>9. Wondered(unknowns, turn) BY <1>1, <1>3, <1>6, ReconciledStep
<1>10. /\ new.turn = turn /\ new.phase = phase /\ new.complaint = complaint /\ new.question = question
       /\ new.goals = goals /\ new.decisions = decisions /\ new.unknowns = unknowns
  BY ONLY <1>4
<1>11. Settled(goals, turn) /\ Settled(decisions, turn) BY <1>7, <1>8 DEF Became
<1>12. IsWorld(new) BY ONLY <1>4, <1>9, <1>10, <1>11, Zenon, turn \in Nat DEF IsWorld
<1> QED BY ONLY <1>1, <1>7, <1>8, <1>10, <1>12, Zenon DEF StageMade

\* What Judgment makes of it.
LEMMA ResolvedMakes ==
  ASSUME NEW w, IsWorld(w), NEW v \in Verdicts, NEW new, new = Resolved(w, v)
  PROVE  StageMade(w, new) /\ new.turn = w.turn
<1>1. PICK turn \in Nat : turn = w.turn BY DEF IsWorld
<1>2. PICK q \in Seq(StatusUpdates) : q = v.resolutions
  BY Zenon, TrajectoryAssumption DEF TrajectoryAssumption
<1>3. PICK b : b = Transitions(w.decisions, q, turn) OBVIOUS
<1>4. PICK decisions : decisions = Tracked(b, turn) OBVIOUS
<1>5. new = [w EXCEPT !.decisions = decisions]
  <2>1. new = [w EXCEPT !.decisions = Tracked(Transitions(w.decisions, v.resolutions, w.turn), w.turn)]
    BY Zenon DEF Resolved
  <2> QED BY ONLY <1>1, <1>2, <1>3, <1>4, <2>1
<1>6. /\ new = [turn |-> w.turn, phase |-> w.phase, complaint |-> w.complaint, question |-> w.question,
                goals |-> w.goals, decisions |-> decisions, unknowns |-> w.unknowns]
  <2>1. w = [turn |-> w.turn, phase |-> w.phase, complaint |-> w.complaint, question |-> w.question,
             goals |-> w.goals, decisions |-> w.decisions, unknowns |-> w.unknowns]
    BY DEF IsWorld
  <2> QED BY ONLY <1>5, <2>1
<1>7. /\ new.turn = w.turn /\ new.phase = w.phase /\ new.complaint = w.complaint /\ new.question = w.question
      /\ new.goals = w.goals /\ new.decisions = decisions /\ new.unknowns = w.unknowns
  BY ONLY <1>6
<1>8. Settled(w.goals, turn) /\ Settled(w.decisions, turn) /\ Wondered(w.unknowns, turn) BY <1>1 DEF IsWorld
<1>9. Became(w.decisions, decisions, turn)
  <2>1. w.decisions \in Seq(Moving) BY <1>8 DEF Settled
  <2>2. turn <= turn OBVIOUS
  <2>3. Touched(w.decisions, w.decisions, turn) BY <1>8, <2>2, TouchedStart
  <2>4. Touched(w.decisions, b, turn) BY <1>3, <2>1, <2>3, TransitionsStep
  <2> QED BY <1>4, <1>8, <2>2, <2>4, TrackedStep
<1>10. Became(w.goals, w.goals, turn) BY <1>8, BecameStill
<1>11. Settled(decisions, turn) BY <1>9 DEF Became
<1>12. new = [turn |-> new.turn, phase |-> new.phase, complaint |-> new.complaint, question |-> new.question,
              goals |-> new.goals, decisions |-> new.decisions, unknowns |-> new.unknowns]
  BY ONLY <1>6, <1>7, Zenon
<1>13. IsWorld(new) BY ONLY <1>1, <1>7, <1>8, <1>11, <1>12, Zenon, turn \in Nat DEF IsWorld
<1> QED BY ONLY <1>1, <1>7, <1>9, <1>10, <1>13, Zenon DEF StageMade

\* The events of a stage tell its changes.
LEMMA DiffTells ==
  ASSUME NEW old, IsWorld(old), NEW new, StageMade(old, new), NEW d, d = Diff(old, new)
  PROVE  /\ d \in Seq(Events)
         /\ TellsChanges(d, "goal", old.goals, new.goals)
         /\ TellsChanges(d, "decision", old.decisions, new.decisions)
<1>1. PICK a, b : /\ a = Changed("goal", old.goals, new.goals, new.turn)
                  /\ b = Changed("decision", old.decisions, new.decisions, new.turn)
  OBVIOUS
<1>2. d = a \o b BY ONLY <1>1, Zenon, d = Diff(old, new) DEF Diff
<1>3. Settled(old.goals, old.turn) /\ Settled(old.decisions, old.turn) BY DEF IsWorld
<1>4. new.turn \in Nat BY DEF StageMade, IsWorld
<1>5. Became(old.goals, new.goals, new.turn) /\ Became(old.decisions, new.decisions, new.turn) BY DEF StageMade
<1>6. "goal" \in Kinds /\ "decision" \in Kinds /\ "goal" # "decision" BY DEF Kinds
<1>7. TellsChanges(a, "goal", old.goals, new.goals) /\ \A p \in 1..Len(a) : a[p].kind = "goal"
  BY ONLY <1>1, <1>3, <1>4, <1>5, <1>6, ChangedTells
<1>8. TellsChanges(b, "decision", old.decisions, new.decisions) /\ \A p \in 1..Len(b) : b[p].kind = "decision"
  BY ONLY <1>1, <1>3, <1>4, <1>5, <1>6, ChangedTells
<1>9. a \in Seq(Events) /\ b \in Seq(Events) BY <1>7, <1>8 DEF TellsChanges, ToldUpTo
<1>10. old.goals \in Seq(Moving) /\ old.decisions \in Seq(Moving) BY <1>3 DEF Settled
<1>11. TellsChanges(d, "goal", old.goals, new.goals)
  <2>1. \A p \in 1..Len(b) : b[p].kind # "goal" BY <1>6, <1>8
  <2>2. TellsChanges(a \o b, "goal", old.goals, new.goals)
    BY ONLY <1>6, <1>7, <1>9, <1>10, <2>1, OtherKindAfter, Zenon
  <2> QED BY ONLY <1>2, <2>2, Zenon
<1>12. TellsChanges(d, "decision", old.decisions, new.decisions)
  <2>1. \A p \in 1..Len(a) : a[p].kind # "decision" BY <1>6, <1>7
  <2>2. TellsChanges(a \o b, "decision", old.decisions, new.decisions)
    BY ONLY <1>6, <1>8, <1>9, <1>10, <2>1, OtherKindBefore, Zenon
  <2> QED BY ONLY <1>2, <2>2, Zenon
<1>13. d \in Seq(Events) BY <1>11 DEF TellsChanges, ToldUpTo
<1> QED BY <1>11, <1>12, <1>13

\* The story of a WorldState, and how a stage goes on with it.
Tale(w, h, whole) == Story(w.goals, "goal", h, whole) /\ Story(w.decisions, "decision", h, whole)

\* The events of the stage go on with both stories.
LEMMA TaleStep ==
  ASSUME NEW old, IsWorld(old), NEW new, StageMade(old, new), NEW whole \in BOOLEAN,
         NEW h, Tale(old, h, whole), NEW d, d = Diff(old, new), NEW e, e = h \o d
  PROVE  Tale(new, e, whole)
<1>1. /\ TellsChanges(d, "goal", old.goals, new.goals)
      /\ TellsChanges(d, "decision", old.decisions, new.decisions)
  BY DiffTells
<1>2. Settled(old.goals, old.turn) /\ Settled(old.decisions, old.turn) BY DEF IsWorld
<1>3. Became(old.goals, new.goals, new.turn) /\ Became(old.decisions, new.decisions, new.turn) BY DEF StageMade
<1>4. "goal" \in Kinds /\ "decision" \in Kinds BY DEF Kinds
<1>5. Story(old.goals, "goal", h, whole) /\ Story(old.decisions, "decision", h, whole) BY DEF Tale
<1>6. Story(new.goals, "goal", e, whole)
  BY ONLY <1>1, <1>2, <1>3, <1>4, <1>5, StoryStep, whole \in BOOLEAN, e = h \o d, Zenon
<1>7. Story(new.decisions, "decision", e, whole)
  BY ONLY <1>1, <1>2, <1>3, <1>4, <1>5, StoryStep, whole \in BOOLEAN, e = h \o d, Zenon
<1> QED BY <1>6, <1>7 DEF Tale

\* Every event that was observed has been recorded.
Complete == recording /\ ~unsaved

\* The Journey and the WorldState of its turn.
TrajectoryWorlds ==
  /\ IsWorld(journey) /\ IsWorld(world)
  /\ stage \in {"none", "loaded", "interpreted", "judged", "saved"}
  /\ recording \in BOOLEAN /\ unsaved \in BOOLEAN
  /\ stage \in {"loaded", "saved"} => world = journey
  /\ stage \in {"interpreted", "judged"} => world.turn = journey.turn + 1
  /\ stage # "none" => Grown(journey.goals, world.goals) /\ Grown(journey.decisions, world.decisions)

\* What has been recorded of the one, and observed of the other.
TrajectoryTales ==
  /\ records \in Seq(Events) /\ observed \in Seq(Events)
  /\ stage \in {"none", "loaded"} => observed = <<>>
  /\ Tale(journey, records, Complete /\ stage # "saved")
  /\ stage # "none" => Tale(world, records \o observed, Complete)

\* What is read off them, now or before.
Borne(p, w) ==
  /\ p.count \in Nat /\ MinEvidence <= p.count
  /\ p.to \in ItemStatuses /\ p.count <= Cardinality(TrueMoves(w, p.kind, p.to))
TrajectoryReads ==
  /\ \A p \in patterns \cup context.patterns : Borne(p, journey)
  /\ card.turn \in Nat /\ card.turn <= journey.turn
  /\ card.signal /\ card.turn = journey.turn => Signals(journey) # {}
  /\ stage = "loaded" => context.need = NeedState(journey)

\* The inductive invariant of a Journey.
TrajectoryInv == TrajectoryWorlds /\ TrajectoryTales /\ TrajectoryReads

\* A pattern that was borne out stays so.
LEMMA BorneStays ==
  ASSUME NEW old, IsWorld(old), NEW new, IsWorld(new), Grown(old.goals, new.goals),
         Grown(old.decisions, new.decisions), NEW p, Borne(p, old)
  PROVE  Borne(p, new)
<1>1. PICK list, more : /\ list = (IF p.kind = "goal" THEN old.goals ELSE old.decisions)
                        /\ more = (IF p.kind = "goal" THEN new.goals ELSE new.decisions)
  OBVIOUS
<1>2. list \in Seq(Moving) /\ more \in Seq(Moving)
  BY <1>1 DEF IsWorld, Settled
<1>3. Grown(list, more) BY <1>1
<1>4. PICK A, B : A = StatusMoves(list, p.to) /\ B = StatusMoves(more, p.to) OBVIOUS
<1>5. TrueMoves(old, p.kind, p.to) = A /\ TrueMoves(new, p.kind, p.to) = B
  BY ONLY <1>1, <1>4, TrueMovesAre
<1>6. A \subseteq B
  <2>1. p.to \in ItemStatuses BY DEF Borne
  <2> QED BY <1>3, <1>4, <2>1 DEF Grown
<1>7. IsFiniteSet(B) /\ IsFiniteSet(A) BY <1>2, <1>4, MovesFinite
<1>8. Cardinality(A) <= Cardinality(B) BY ONLY <1>6, <1>7, FS_Subset
<1>9. Cardinality(A) \in Nat /\ Cardinality(B) \in Nat BY ONLY <1>7, FS_CardinalityType
<1>10. p.count \in Nat /\ p.count <= Cardinality(A) /\ MinEvidence <= p.count /\ p.to \in ItemStatuses
  BY <1>5 DEF Borne
<1> QED BY ONLY <1>5, <1>8, <1>9, <1>10 DEF Borne

\* What the learning finds in the records is borne out.
LEMMA LearntIsBorne ==
  ASSUME NEW w, IsWorld(w), NEW h, NEW whole \in BOOLEAN, Tale(w, h, whole), NEW p \in PatternsOf(h)
  PROVE  Borne(p, w)
<1>1. PICK e \in ToSet(h) :
        /\ Cardinality(Counting(h, e.kind, e.to)) >= MinEvidence
        /\ p = [kind |-> e.kind, to |-> e.to, count |-> Cardinality(Counting(h, e.kind, e.to))]
  BY Zenon DEF PatternsOf, Counting
<1>2. h \in Seq(Events) BY DEF Tale, Story
<1>3. e \in Events
  <2>1. ToSet(h) = {h[i] : i \in DOMAIN h} BY Zenon DEF ToSet
  <2> QED BY <1>2, <2>1
<1>4. e.kind \in Kinds /\ e.to \in ItemStatuses BY <1>3 DEF Events
<1>5. PICK list : list = IF e.kind = "goal" THEN w.goals ELSE w.decisions OBVIOUS
<1>6. list \in Seq(Moving) BY <1>5 DEF IsWorld, Settled
<1>7. Story(list, e.kind, h, whole)
  <2>1. Story(w.goals, "goal", h, whole) /\ Story(w.decisions, "decision", h, whole) BY DEF Tale
  <2>2. e.kind = "goal" \/ e.kind = "decision" BY <1>4 DEF Kinds
  <2>3. CASE e.kind = "goal" BY <1>5, <2>1, <2>3
  <2>4. CASE e.kind = "decision" BY <1>5, <2>1, <2>4
  <2> QED BY <2>2, <2>3, <2>4
<1>8. PICK c : c = Cardinality(Counting(h, e.kind, e.to)) OBVIOUS
<1>9. c \in Nat /\ c <= Cardinality(StatusMoves(list, e.to))
  BY ONLY <1>4, <1>6, <1>7, <1>8, CountedMoves
<1>10. p.kind = e.kind /\ p.to = e.to /\ p.count = c BY <1>1, <1>8
<1>11. TrueMoves(w, e.kind, e.to) = StatusMoves(list, e.to) BY ONLY <1>5, TrueMovesAre
<1>12. MinEvidence <= c
  <2>1. MinEvidence \in Nat BY TrajectoryAssumption DEF TrajectoryAssumption
  <2> QED BY <1>1, <1>8, <1>9, <2>1
<1> QED BY ONLY <1>4, <1>9, <1>10, <1>11, <1>12 DEF Borne

\* The story of one stage more.
LEMMA TaleGoesOn ==
  ASSUME NEW old, IsWorld(old), NEW new, StageMade(old, new), NEW whole \in BOOLEAN,
         NEW h \in Seq(Events), NEW s \in Seq(Events), Tale(old, h \o s, whole),
         NEW more, more = s \o Diff(old, new)
  PROVE  more \in Seq(Events) /\ Tale(new, h \o more, whole)
<1>1. PICK d : d = Diff(old, new) OBVIOUS
<1>2. d \in Seq(Events) BY <1>1, DiffTells
<1>3. PICK e : e = h \o s OBVIOUS
<1>4. Tale(new, e \o d, whole)
  <2>1. PICK f : f = e \o d OBVIOUS
  <2>2. Tale(new, f, whole) BY <1>1, <1>3, <2>1, TaleStep
  <2> QED BY ONLY <2>1, <2>2, Zenon
<1>5. h \o more = e \o d /\ more \in Seq(Events)
  <2>1. (h \o s) \o d = h \o (s \o d) BY ONLY <1>2, h \in Seq(Events), s \in Seq(Events)
  <2>2. s \o d \in Seq(Events) BY ONLY <1>2, s \in Seq(Events)
  <2> QED BY ONLY <1>1, <1>3, <2>1, <2>2, Zenon, more = s \o Diff(old, new)
<1> QED BY ONLY <1>4, <1>5, Zenon

\* Losing the end of a tale leaves a tale.
LEMMA TaleCut ==
  ASSUME NEW w, NEW h, NEW new, Extends(new, h), NEW whole \in BOOLEAN, Tale(w, new, whole),
         NEW part \in BOOLEAN, ~part
  PROVE  Tale(w, h, part)
<1>1. Story(w.goals, "goal", new, whole) /\ Story(w.decisions, "decision", new, whole) BY DEF Tale
<1>2. Story(w.goals, "goal", h, part) BY <1>1, StoryCut
<1>3. Story(w.decisions, "decision", h, part) BY <1>1, StoryCut
<1> QED BY <1>2, <1>3 DEF Tale

\* Two stages, too, take no step back.
LEMMA GrownOn ==
  ASSUME NEW a, NEW b, NEW c, Grown(a, b), Grown(b, c)
  PROVE  Grown(a, c)
BY Zenon DEF Grown

\* Nor do the goals and decisions of a stage.
LEMMA StageGrown ==
  ASSUME NEW old, IsWorld(old), NEW new, StageMade(old, new)
  PROVE  Grown(old.goals, new.goals) /\ Grown(old.decisions, new.decisions)
BY BecameGrown DEF IsWorld, StageMade

\* A new Journey has nothing to tell.
LEMMA TrajectoryStarts ==
  ASSUME TrajectoryInit PROVE TrajectoryInv
<1>1. /\ journey = [turn |-> 0, phase |-> "prepare", complaint |-> FALSE, question |-> FALSE,
                    goals |-> <<>>, decisions |-> <<>>, unknowns |-> {}]
      /\ world = journey /\ stage = "none" /\ observed = <<>> /\ records = <<>> /\ patterns = {}
      /\ context = [need |-> "general", patterns |-> {}] /\ unsaved = FALSE /\ recording \in BOOLEAN
      /\ card = [signal |-> FALSE, note |-> FALSE, turn |-> 0]
  BY DEF TrajectoryInit
<1>2. Settled(<<>>, 0)
  <2>1. <<>> \in Seq(Moving) /\ Len(<<>>) = 0 /\ 1..0 = {} OBVIOUS
  <2> QED BY ONLY <2>1, Zenon DEF Settled, Apart
<1>3. Wondered({}, 0) BY DEF Wondered
<1>4. IsWorld(journey)
  <2>1. /\ journey.turn = 0 /\ journey.phase = "prepare" /\ journey.complaint = FALSE /\ journey.question = FALSE
        /\ journey.goals = <<>> /\ journey.decisions = <<>> /\ journey.unknowns = {}
    BY ONLY <1>1
  <2>2. 0 \in Nat OBVIOUS
  <2> QED BY ONLY <1>1, <1>2, <1>3, <2>1, <2>2, Zenon DEF IsWorld
<1>5. TrajectoryWorlds BY <1>1, <1>4 DEF TrajectoryWorlds
<1>6. Tale(journey, records, Complete /\ stage # "saved")
  <2>1. <<>> \in Seq(Events) /\ Len(<<>>) = 0 /\ 1..0 = {} OBVIOUS
  <2>2. \A k, b : Story(<<>>, k, <<>>, b) BY ONLY <2>1, Zenon DEF Story
  <2>3. journey.goals = <<>> /\ journey.decisions = <<>> BY <1>1
  <2> QED BY ONLY <1>1, <2>2, <2>3, Zenon DEF Tale
<1>7. TrajectoryTales BY <1>1, <1>6 DEF TrajectoryTales
<1>8. TrajectoryReads BY <1>1 DEF TrajectoryReads
<1> QED BY <1>5, <1>7, <1>8 DEF TrajectoryInv

\* A turn begins with what is stored.
LEMMA LoadTurnKeeps ==
  ASSUME TrajectoryInv, LoadTurn PROVE TrajectoryInv'
<1>1. /\ stage = "none" /\ stage' = "loaded" /\ world' = journey
      /\ context' = [need |-> NeedState(journey), patterns |-> patterns]
      /\ journey' = journey /\ observed' = observed /\ records' = records /\ patterns' = patterns
      /\ card' = card /\ recording' = recording /\ unsaved' = unsaved
  BY DEF LoadTurn
<1>2. TrajectoryWorlds'
  <2>1. \A list : Grown(list, list) BY Zenon DEF Grown
  <2> QED BY <1>1, <2>1 DEF TrajectoryInv, TrajectoryWorlds
<1>3. TrajectoryTales'
  <2>1. records \in Seq(Events) /\ observed = <<>> /\ Tale(journey, records, Complete /\ stage # "saved")
    BY <1>1 DEF TrajectoryInv, TrajectoryTales
  <2>2. records \o <<>> = records BY <2>1
  <2>3. (Complete /\ stage # "saved") = Complete /\ Complete' = Complete
    /\ (Complete' /\ stage' # "saved") = Complete
    BY <1>1 DEF Complete
  <2>4. <<>> \in Seq(Events) OBVIOUS
  <2>5. Tale(journey, records, Complete) BY ONLY <2>1, <2>3
  <2> QED BY ONLY <1>1, <2>1, <2>2, <2>3, <2>4, <2>5 DEF TrajectoryTales
<1>4. TrajectoryReads'
  <2>1. TrajectoryReads BY DEF TrajectoryInv
  <2>2. context'.patterns = patterns /\ context'.need = NeedState(journey) BY <1>1
  <2> QED BY ONLY <1>1, <2>1, <2>2 DEF TrajectoryReads, Borne, Signals, Stalled
<1> QED BY <1>2, <1>3, <1>4 DEF TrajectoryInv

\* What a stage makes of the WorldState is told with it.
LEMMA StageKeeps ==
  ASSUME TrajectoryInv, stage \notin {"none", "saved"}, stage' \in {"interpreted", "judged"},
         StageMade(world, world'), world'.turn = journey.turn + 1,
         observed' = observed \o Diff(world, world'),
         UNCHANGED <<journey, context, records, patterns, card, recording, unsaved>>
  PROVE  TrajectoryInv'
<1>1. /\ journey' = journey /\ context' = context /\ records' = records /\ patterns' = patterns
      /\ card' = card /\ recording' = recording /\ unsaved' = unsaved
      /\ stage # "none" /\ stage # "saved" /\ stage' # "none" /\ stage' # "saved" /\ stage' # "loaded"
  OBVIOUS
<1>2. PICK new : new = world' OBVIOUS
<1>3. StageMade(world, new) /\ new.turn = journey.turn + 1 /\ observed' = observed \o Diff(world, new)
  BY <1>2
<1>4. IsWorld(journey) /\ IsWorld(world) /\ IsWorld(new)
  BY <1>3 DEF TrajectoryInv, TrajectoryWorlds, StageMade
<1>5. Grown(journey.goals, new.goals) /\ Grown(journey.decisions, new.decisions)
  <2>1. Grown(journey.goals, world.goals) /\ Grown(journey.decisions, world.decisions)
    BY <1>1 DEF TrajectoryInv, TrajectoryWorlds
  <2>2. Grown(world.goals, new.goals) /\ Grown(world.decisions, new.decisions)
    BY <1>3, <1>4, StageGrown
  <2> QED BY ONLY <2>1, <2>2, GrownOn, Zenon
<1>6. TrajectoryWorlds'
  <2>1. recording \in BOOLEAN /\ unsaved \in BOOLEAN BY DEF TrajectoryInv, TrajectoryWorlds
  <2> QED BY ONLY <1>1, <1>2, <1>3, <1>4, <1>5, <2>1, stage' \in {"interpreted", "judged"}
          DEF TrajectoryWorlds
<1>7. TrajectoryTales'
  <2>1. /\ records \in Seq(Events) /\ observed \in Seq(Events)
        /\ Tale(journey, records, Complete /\ stage # "saved")
        /\ Tale(world, records \o observed, Complete)
    BY <1>1 DEF TrajectoryInv, TrajectoryTales
  <2>2. PICK whole \in BOOLEAN : whole = Complete BY DEF Complete
  <2>3. PICK more : more = observed \o Diff(world, new) OBVIOUS
  <2>4. more \in Seq(Events) /\ Tale(new, records \o more, whole)
    BY <1>3, <1>4, <2>1, <2>2, <2>3, TaleGoesOn
  <2>5. (Complete /\ stage # "saved") = whole /\ Complete' = whole
        /\ (Complete' /\ stage' # "saved") = whole
    BY <1>1, <2>2 DEF Complete
  <2>6. observed' = more BY <1>3, <2>3
  <2>7. Tale(journey, records, whole) BY ONLY <2>1, <2>5
  <2> QED BY ONLY <1>1, <1>2, <2>1, <2>4, <2>5, <2>6, <2>7 DEF TrajectoryTales
<1>8. TrajectoryReads'
  <2>1. TrajectoryReads BY DEF TrajectoryInv
  <2> QED BY ONLY <1>1, <2>1 DEF TrajectoryReads, Borne, Signals, Stalled
<1> QED BY <1>6, <1>7, <1>8 DEF TrajectoryInv

\* Interpretation tells what it made of the stored state.
LEMMA InterpretKeeps ==
  ASSUME TrajectoryInv, InterpretMessage PROVE TrajectoryInv'
<1>1. PICK x \in Extracts : world' = Integrated(world, x) BY DEF InterpretMessage
<1>2. /\ stage = "loaded" /\ stage' = "interpreted" /\ observed' = observed \o Diff(world, world')
      /\ UNCHANGED <<journey, context, records, patterns, card, recording, unsaved>>
  BY DEF InterpretMessage
<1>3. IsWorld(world) /\ world = journey BY <1>2 DEF TrajectoryInv, TrajectoryWorlds
<1>4. StageMade(world, world') /\ world'.turn = world.turn + 1 BY <1>1, <1>3, IntegratedMakes
<1> QED BY <1>2, <1>3, <1>4, StageKeeps

\* Judgment tells what it made of that.
LEMMA JudgeKeeps ==
  ASSUME TrajectoryInv, JudgeTurn PROVE TrajectoryInv'
<1>1. PICK v \in Verdicts : world' = Resolved(world, v) BY DEF JudgeTurn
<1>2. /\ stage = "interpreted" /\ stage' = "judged" /\ observed' = observed \o Diff(world, world')
      /\ UNCHANGED <<journey, context, records, patterns, card, recording, unsaved>>
  BY DEF JudgeTurn
<1>3. IsWorld(world) /\ world.turn = journey.turn + 1 BY <1>2 DEF TrajectoryInv, TrajectoryWorlds
<1>4. StageMade(world, world') /\ world'.turn = world.turn BY <1>1, <1>3, ResolvedMakes
<1> QED BY <1>2, <1>3, <1>4, StageKeeps

\* A turn is saved before its events are.
LEMMA SaveKeeps ==
  ASSUME TrajectoryInv, SaveState PROVE TrajectoryInv'
<1>1. /\ stage \in {"loaded", "interpreted", "judged"} /\ stage' = "saved" /\ journey' = world
      /\ world' = world /\ observed' = observed /\ context' = context /\ records' = records
      /\ patterns' = patterns /\ card' = card /\ recording' = recording /\ unsaved' = unsaved
  BY DEF SaveState
<1>2. /\ IsWorld(journey) /\ IsWorld(world) /\ recording \in BOOLEAN /\ unsaved \in BOOLEAN
      /\ Grown(journey.goals, world.goals) /\ Grown(journey.decisions, world.decisions)
      /\ stage = "loaded" => world = journey
      /\ stage # "loaded" => world.turn = journey.turn + 1
  BY <1>1 DEF TrajectoryInv, TrajectoryWorlds
<1>3. TrajectoryWorlds'
  <2>1. \A list : Grown(list, list) BY Zenon DEF Grown
  <2> QED BY ONLY <1>1, <1>2, <2>1 DEF TrajectoryWorlds
<1>4. TrajectoryTales'
  <2>1. /\ records \in Seq(Events) /\ observed \in Seq(Events)
        /\ Tale(world, records \o observed, Complete)
    BY <1>1 DEF TrajectoryInv, TrajectoryTales
  <2>2. PICK whole \in BOOLEAN : whole = Complete BY DEF Complete
  <2>3. PICK e : e = records \o observed OBVIOUS
  <2>4. Extends(e, records)
    <3>1. Behind(e, records, observed) BY <2>1, <2>3, ExtendsBy
    <3> QED BY <3>1 DEF Behind
  <2>5. Tale(world, e, whole) BY ONLY <2>1, <2>2, <2>3
  <2>6. PICK part \in BOOLEAN : part = FALSE OBVIOUS
  <2>7. Tale(world, records, part) BY <2>4, <2>5, <2>6, TaleCut
  <2>8. Complete' = whole /\ (Complete' /\ stage' # "saved") = part BY <1>1, <2>2, <2>6 DEF Complete
  <2> QED BY ONLY <1>1, <2>1, <2>3, <2>5, <2>7, <2>8 DEF TrajectoryTales
<1>5. TrajectoryReads'
  <2>1. TrajectoryReads BY DEF TrajectoryInv
  <2>2. ASSUME NEW p \in patterns \cup context.patterns PROVE Borne(p, world)
    <3>1. Borne(p, journey) BY <2>1 DEF TrajectoryReads
    <3> QED BY <1>2, <3>1, BorneStays
  <2>3. card.turn \in Nat /\ card.turn <= journey.turn /\ journey.turn \in Nat
    BY <1>2, <2>1 DEF TrajectoryReads, IsWorld
  <2>4. card.turn <= world.turn BY <1>2, <2>3
  <2>5. card.signal /\ card.turn = world.turn => Signals(world) # {}
    <3>1. CASE stage = "loaded" BY <1>2, <2>1, <3>1 DEF TrajectoryReads
    <3>2. CASE stage # "loaded"
      <4>1. card.turn # world.turn BY <1>2, <2>3, <3>2
      <4> QED BY <4>1
    <3> QED BY <3>1, <3>2
  <2>6. \A p \in patterns' \cup context'.patterns : Borne(p, journey')
    BY ONLY <1>1, <2>2
  <2>7. card'.turn = card.turn /\ card'.signal = card.signal /\ Signals(journey') = Signals(world)
        /\ journey'.turn = world.turn
    BY ONLY <1>1, Zenon
  <2>8. (Signals(journey))' = Signals(journey') BY DEF Signals, Stalled
  <2> QED BY ONLY <1>1, <2>3, <2>4, <2>5, <2>6, <2>7, <2>8 DEF TrajectoryReads, Borne, TrueMoves
<1> QED BY <1>3, <1>4, <1>5 DEF TrajectoryInv

\* Unless recording is off, the events of a saved turn are what its records lacked.
LEMMA RecordKeeps ==
  ASSUME TrajectoryInv, RecordEvents PROVE TrajectoryInv'
<1>1. /\ stage = "saved" /\ stage' = "none" /\ journey' = journey /\ world' = world
      /\ records' = (IF recording THEN records \o observed ELSE records) /\ observed' = <<>>
      /\ context' = context /\ patterns' = patterns /\ card' = card /\ recording' = recording
      /\ unsaved' = unsaved
  BY DEF RecordEvents
<1>2. TrajectoryWorlds' BY <1>1 DEF TrajectoryInv, TrajectoryWorlds
<1>3. TrajectoryTales'
  <2>1. /\ records \in Seq(Events) /\ observed \in Seq(Events) /\ world = journey
        /\ Tale(journey, records, Complete /\ stage # "saved")
        /\ Tale(world, records \o observed, Complete)
    BY <1>1 DEF TrajectoryInv, TrajectoryTales, TrajectoryWorlds
  <2>2. (Complete /\ stage # "saved") = FALSE /\ (Complete' /\ stage' # "saved") = Complete
    BY <1>1 DEF Complete
  <2>3. Tale(journey, records', Complete)
    <3>1. CASE recording
      <4>1. records' = records \o observed BY <1>1, <3>1
      <4> QED BY ONLY <2>1, <4>1
    <3>2. CASE ~recording
      <4>1. records' = records /\ Complete = FALSE BY <1>1, <3>2 DEF Complete
      <4> QED BY ONLY <2>1, <2>2, <4>1
    <3> QED BY <3>1, <3>2
  <2>4. records' \in Seq(Events) /\ <<>> \in Seq(Events)
    <3>1. records \o observed \in Seq(Events) BY ONLY <2>1
    <3> QED BY <1>1, <2>1, <3>1
  <2> QED BY ONLY <1>1, <2>2, <2>3, <2>4 DEF TrajectoryTales
<1>4. TrajectoryReads'
  <2>1. TrajectoryReads BY DEF TrajectoryInv
  <2> QED BY ONLY <1>1, <2>1 DEF TrajectoryReads, Borne, Signals, Stalled
<1> QED BY <1>2, <1>3, <1>4 DEF TrajectoryInv

\* A crash loses the turn, or of a saved one the events.
LEMMA DieKeeps ==
  ASSUME TrajectoryInv, DieMidTurn PROVE TrajectoryInv'
<1>1. /\ stage # "none" /\ stage' = "none" /\ journey' = journey /\ world' = world
      /\ observed' = <<>> /\ unsaved' = (unsaved \/ (stage = "saved" /\ observed # <<>>))
      /\ context' = context /\ patterns' = patterns /\ card' = card /\ recording' = recording
      /\ records' = records
  BY DEF DieMidTurn
<1>2. TrajectoryWorlds' BY <1>1 DEF TrajectoryInv, TrajectoryWorlds
<1>3. TrajectoryTales'
  <2>1. /\ records \in Seq(Events) /\ recording \in BOOLEAN /\ unsaved \in BOOLEAN
        /\ stage = "saved" => world = journey
        /\ Tale(journey, records, Complete /\ stage # "saved")
        /\ Tale(world, records \o observed, Complete)
    BY <1>1 DEF TrajectoryInv, TrajectoryTales, TrajectoryWorlds
  <2>2. Tale(journey, records, Complete')
    <3>1. CASE stage # "saved"
      <4>1. (Complete /\ stage # "saved") = Complete /\ Complete' = Complete
        BY <1>1, <2>1, <3>1 DEF Complete
      <4> QED BY ONLY <2>1, <4>1
    <3>2. CASE stage = "saved" /\ observed = <<>>
      <4>1. Complete' = Complete BY <1>1, <2>1, <3>2 DEF Complete
      <4>2. records \o observed = records BY <2>1, <3>2
      <4> QED BY ONLY <2>1, <3>2, <4>1, <4>2
    <3>3. CASE stage = "saved" /\ observed # <<>>
      <4>1. (Complete /\ stage # "saved") = FALSE /\ Complete' = FALSE BY <1>1, <3>3 DEF Complete
      <4> QED BY ONLY <2>1, <4>1
    <3> QED BY <3>1, <3>2, <3>3
  <2>3. (Complete' /\ stage' # "saved") = Complete' BY <1>1 DEF Complete
  <2>4. <<>> \in Seq(Events) OBVIOUS
  <2> QED BY ONLY <1>1, <2>1, <2>2, <2>3, <2>4 DEF TrajectoryTales
<1>4. TrajectoryReads'
  <2>1. TrajectoryReads BY DEF TrajectoryInv
  <2> QED BY ONLY <1>1, <2>1 DEF TrajectoryReads, Borne, Signals, Stalled
<1> QED BY <1>2, <1>3, <1>4 DEF TrajectoryInv

\* The job reads the records at any time.
LEMMA LearnKeeps ==
  ASSUME TrajectoryInv, LearnPatterns PROVE TrajectoryInv'
<1>1. /\ patterns' = PatternsOf(records) /\ journey' = journey /\ world' = world /\ stage' = stage
      /\ observed' = observed /\ context' = context /\ records' = records /\ card' = card
      /\ recording' = recording /\ unsaved' = unsaved
  BY DEF LearnPatterns
<1>2. TrajectoryWorlds' BY <1>1 DEF TrajectoryInv, TrajectoryWorlds
<1>3. TrajectoryTales' BY <1>1 DEF TrajectoryInv, TrajectoryTales, Complete
<1>4. TrajectoryReads'
  <2>1. TrajectoryReads BY DEF TrajectoryInv
  <2>2. IsWorld(journey) /\ Tale(journey, records, Complete /\ stage # "saved")
    BY DEF TrajectoryInv, TrajectoryTales, TrajectoryWorlds
  <2>3. PICK whole \in BOOLEAN : whole = (Complete /\ stage # "saved") OBVIOUS
  <2>4. \A p \in PatternsOf(records) : Borne(p, journey)
    <3>1. Tale(journey, records, whole) BY ONLY <2>2, <2>3
    <3> QED BY <2>2, <3>1, LearntIsBorne
  <2>5. \A p \in patterns' \cup context'.patterns : Borne(p, journey)
    BY ONLY <1>1, <2>1, <2>4 DEF TrajectoryReads
  <2> QED BY ONLY <1>1, <2>1, <2>5 DEF TrajectoryReads, Borne, Signals, Stalled
<1> QED BY <1>2, <1>3, <1>4 DEF TrajectoryInv

\* Home reads the stored state at any time.
LEMMA HomeKeeps ==
  ASSUME TrajectoryInv, OpenHome PROVE TrajectoryInv'
<1>1. /\ card' = [signal |-> Signals(journey) # {}, note |-> debug, turn |-> journey.turn]
      /\ journey' = journey /\ world' = world /\ stage' = stage
      /\ observed' = observed /\ context' = context /\ records' = records /\ patterns' = patterns
      /\ recording' = recording /\ unsaved' = unsaved
  BY DEF OpenHome
<1>2. TrajectoryWorlds' BY <1>1 DEF TrajectoryInv, TrajectoryWorlds
<1>3. TrajectoryTales' BY <1>1 DEF TrajectoryInv, TrajectoryTales, Complete
<1>4. TrajectoryReads'
  <2>1. TrajectoryReads /\ journey.turn \in Nat BY DEF TrajectoryInv, TrajectoryWorlds, IsWorld
  <2>2. journey.turn <= journey.turn BY <2>1
  <2>3. PICK s : s = (Signals(journey) # {}) OBVIOUS
  <2>4. card'.turn = journey.turn /\ card'.signal = s BY <1>1, <2>3
  <2>5. (Signals(journey))' = Signals(journey') BY DEF Signals, Stalled
  <2> QED BY ONLY <1>1, <2>1, <2>2, <2>3, <2>4, <2>5 DEF TrajectoryReads, Borne
<1> QED BY <1>2, <1>3, <1>4 DEF TrajectoryInv

\* No step breaks the invariant.
LEMMA TrajectoryGoesOn ==
  ASSUME TrajectoryInv, [TrajectoryNext]_trajectoryVars PROVE TrajectoryInv'
<1>1. CASE LoadTurn BY <1>1, LoadTurnKeeps
<1>2. CASE InterpretMessage BY <1>2, InterpretKeeps
<1>3. CASE JudgeTurn BY <1>3, JudgeKeeps
<1>4. CASE SaveState BY <1>4, SaveKeeps
<1>5. CASE RecordEvents BY <1>5, RecordKeeps
<1>6. CASE DieMidTurn BY <1>6, DieKeeps
<1>7. CASE LearnPatterns BY <1>7, LearnKeeps
<1>8. CASE OpenHome BY <1>8, HomeKeeps
<1>9. CASE UNCHANGED trajectoryVars
  <2>1. /\ journey' = journey /\ world' = world /\ stage' = stage /\ observed' = observed
        /\ context' = context /\ records' = records /\ patterns' = patterns /\ card' = card
        /\ recording' = recording /\ unsaved' = unsaved
    BY <1>9 DEF trajectoryVars
  <2>2. TrajectoryWorlds' BY <2>1 DEF TrajectoryInv, TrajectoryWorlds
  <2>3. TrajectoryTales' BY <2>1 DEF TrajectoryInv, TrajectoryTales, Complete
  <2>4. TrajectoryReads'
    <3>1. TrajectoryReads BY DEF TrajectoryInv
    <3> QED BY ONLY <2>1, <3>1 DEF TrajectoryReads, Borne, Signals, Stalled
  <2> QED BY <2>2, <2>3, <2>4 DEF TrajectoryInv
<1> QED BY <1>1, <1>2, <1>3, <1>4, <1>5, <1>6, <1>7, <1>8, <1>9 DEF TrajectoryNext

\* What stalls in a WorldState, stalls.
LEMMA SignalIsReal ==
  ASSUME NEW w, IsWorld(w), NEW it \in Signals(w)
  PROVE  /\ it.status \in {"active", "open"} /\ it.since <= it.updated
         /\ w.turn - it.since >= StallAfter
         /\ \/ it \in w.unknowns /\ it.trail = <<>>
            \/ /\ it \in ToSet(w.goals) \cup ToSet(w.decisions)
               /\ it.trail # <<>> /\ Last(it.trail) = it.status
<1>1. /\ it.status \in {"active", "open"} /\ w.turn >= it.updated + StallAfter
      /\ it \in ToSet(w.goals) \cup ToSet(w.decisions) \cup w.unknowns
  BY Zenon DEF Signals, Stalled
<1>2. w.turn \in Nat /\ Settled(w.goals, w.turn) /\ Settled(w.decisions, w.turn) /\ Wondered(w.unknowns, w.turn)
  BY DEF IsWorld
<1>3. ASSUME NEW list, Settled(list, w.turn), it \in ToSet(list)
      PROVE  it \in Moving /\ it.trail # <<>> /\ Last(it.trail) = it.status /\ it.since <= it.updated
  <2>1. list \in Seq(Moving) BY <1>3 DEF Settled
  <2>2. \E i \in 1..Len(list) : it = list[i] BY <1>3, <2>1 DEF ToSet
  <2>3. PICK i \in 1..Len(list) : it = list[i] BY <2>2
  <2>4. it \in Moving BY <2>1, <2>3
  <2> QED BY <1>3, <2>3, <2>4 DEF Settled
<1>4. it \in Moving /\ it.since <= it.updated
      /\ \/ it \in w.unknowns /\ it.trail = <<>>
         \/ /\ it \in ToSet(w.goals) \cup ToSet(w.decisions)
            /\ it.trail # <<>> /\ Last(it.trail) = it.status
  <2>1. CASE it \in ToSet(w.goals) BY <1>2, <1>3, <2>1
  <2>2. CASE it \in ToSet(w.decisions) BY <1>2, <1>3, <2>2
  <2>3. CASE it \in w.unknowns BY <1>2, <2>3 DEF Wondered
  <2> QED BY <1>1, <2>1, <2>2, <2>3
<1>5. StallAfter \in Nat BY TrajectoryAssumption DEF TrajectoryAssumption
<1>6. w.turn - it.since >= StallAfter
  <2>1. it.since \in Nat /\ it.updated \in Nat BY <1>4 DEF Moving
  <2> QED BY <1>1, <1>2, <1>4, <1>5, <2>1
<1> QED BY <1>1, <1>4, <1>6

\* The tale of the turn that counts holds the story of each of its items.
LEMMA UnbrokenFromInv ==
  ASSUME TrajectoryInv PROVE TrailUnbroken
<1> SUFFICES ASSUME recording, ~unsaved, NEW k \in {"goal", "decision"},
                    NEW it \in ToSet(IF k = "goal" THEN Now.goals ELSE Now.decisions)
             PROVE  \E at \in [EventsOf(records \o observed, k, it.topic) -> 2..Len(it.trail)] :
                      /\ Tells(records \o observed, k, it, at)
                      /\ \A n \in 2..Len(it.trail) : \E p \in DOMAIN at : at[p] = n
  BY Zenon DEF TrailUnbroken
<1>1. PICK h : h = records \o observed OBVIOUS
<1>2. PICK list : list = IF k = "goal" THEN Now.goals ELSE Now.decisions OBVIOUS
<1>3. Complete BY DEF Complete
<1>4. Tale(Now, h, TRUE)
  <2>1. CASE stage = "none"
    <3>1. /\ observed = <<>> /\ records \in Seq(Events)
          /\ Tale(journey, records, Complete /\ stage # "saved")
      BY <2>1 DEF TrajectoryInv, TrajectoryTales
    <3>2. h = records BY <1>1, <3>1
    <3>3. (Complete /\ stage # "saved") = TRUE BY <1>3, <2>1
    <3>4. Now = journey BY <2>1 DEF Now
    <3> QED BY ONLY <3>1, <3>2, <3>3, <3>4
  <2>2. CASE stage # "none"
    <3>1. Tale(world, records \o observed, Complete) BY <2>2 DEF TrajectoryInv, TrajectoryTales
    <3>2. Complete = TRUE BY <1>3 DEF Complete
    <3>3. Now = world BY <2>2 DEF Now
    <3> QED BY ONLY <1>1, <3>1, <3>2, <3>3
  <2> QED BY <2>1, <2>2
<1>5. list \in Seq(Moving)
  <2>1. IsWorld(Now) BY DEF TrajectoryInv, TrajectoryWorlds, Now
  <2> QED BY <1>2, <2>1 DEF IsWorld, Settled
<1>6. Story(list, k, h, TRUE)
  <2>1. CASE k = "goal" BY <1>2, <1>4, <2>1 DEF Tale
  <2>2. CASE k = "decision" BY <1>2, <1>4, <2>2 DEF Tale
  <2> QED BY <2>1, <2>2
<1>7. ItemStory(h, k, it, TRUE)
  <2>1. it \in ToSet(list) BY <1>2
  <2>2. PICK i \in 1..Len(list) : it = list[i] BY <1>5, <2>1 DEF ToSet
  <2> QED BY <1>6, <2>2 DEF Story
<1> QED BY ONLY <1>1, <1>7, Zenon DEF ItemStory

\* Home and the signals name nothing but what stalls.
LEMMA StallsFromInv ==
  ASSUME TrajectoryInv PROVE StallsAreReal
<1>1. IsWorld(journey) /\ IsWorld(world) BY DEF TrajectoryInv, TrajectoryWorlds
<1>2. ASSUME card.signal, card.turn = journey.turn
      PROVE  \E it \in ToSet(journey.goals) \cup ToSet(journey.decisions) \cup journey.unknowns :
               it.status \in {"active", "open"} /\ journey.turn - it.since >= StallAfter
  <2>1. PICK it \in Signals(journey) : TRUE BY <1>2 DEF TrajectoryInv, TrajectoryReads
  <2> QED BY <1>1, SignalIsReal
<1>3. ASSUME NEW w \in {journey, world}, NEW it \in Signals(w)
      PROVE  /\ it \in w.unknowns \/ Last(it.trail) = it.status
             /\ it.since <= it.updated /\ w.turn - it.since >= StallAfter
  <2>1. IsWorld(w) BY <1>1
  <2> QED BY <2>1, SignalIsReal
<1> QED BY ONLY <1>2, <1>3, Zenon DEF StallsAreReal

\* The need of a turn goes by the measure of the signals: an unknown has no history,
\* so a goal or a decision is none of the unknowns.
LEMMA NeedFromInv ==
  ASSUME TrajectoryInv PROVE NeedAgrees
<1> SUFFICES ASSUME stage = "loaded"
             PROVE  context.need = "accountability" <=> Signals(world) \ world.unknowns # {}
  BY Zenon DEF NeedAgrees
<1>1. IsWorld(world) /\ world = journey /\ context.need = NeedState(world)
  BY DEF TrajectoryInv, TrajectoryWorlds, TrajectoryReads
<1>2. PICK w : w = world OBVIOUS
<1>3. w.turn \in Nat /\ Settled(w.goals, w.turn) /\ Settled(w.decisions, w.turn) /\ IsWorld(w)
  BY <1>1, <1>2 DEF IsWorld
<1>4. StallAfter \in Nat BY TrajectoryAssumption DEF TrajectoryAssumption
<1>5. ASSUME NEW list, Settled(list, w.turn), NEW it \in ToSet(list)
      PROVE  it.updated \in Nat
  <2>1. list \in Seq(Moving) BY <1>5 DEF Settled
  <2>2. \E i \in 1..Len(list) : it = list[i] BY <2>1 DEF ToSet
  <2>3. it \in Moving BY <2>1, <2>2
  <2> QED BY <2>3 DEF Moving
<1>6. \A it \in ToSet(w.goals) \cup ToSet(w.decisions) :
        w.turn - it.updated >= StallAfter <=> w.turn >= it.updated + StallAfter
  <2> SUFFICES ASSUME NEW it \in ToSet(w.goals) \cup ToSet(w.decisions)
               PROVE  w.turn - it.updated >= StallAfter <=> w.turn >= it.updated + StallAfter
    OBVIOUS
  <2>1. it.updated \in Nat BY <1>3, <1>5
  <2> QED BY <1>3, <1>4, <2>1
<1>7. NeedState(w) = "accountability" <=>
        \/ \E it \in ToSet(w.goals) : it.status = "active" /\ w.turn - it.updated >= StallAfter
        \/ \E it \in ToSet(w.decisions) : it.status = "open" /\ w.turn - it.updated >= StallAfter
  BY DEF NeedState
<1>8. Signals(w) \ w.unknowns # {} <=>
        \/ \E it \in ToSet(w.goals) : Stalled(w, it, "active")
        \/ \E it \in ToSet(w.decisions) : Stalled(w, it, "open")
  <2>1. ASSUME NEW it \in Signals(w) \ w.unknowns
        PROVE  \/ it \in ToSet(w.goals) /\ Stalled(w, it, "active")
               \/ it \in ToSet(w.decisions) /\ Stalled(w, it, "open")
    BY Zenon DEF Signals
  <2>2. ASSUME NEW it \in ToSet(w.goals), Stalled(w, it, "active") PROVE it \in Signals(w) \ w.unknowns
    <3>1. it \in Signals(w) BY <2>2, Zenon DEF Signals
    <3>2. it.trail # <<>>
      <4>1. w.goals \in Seq(Moving) BY <1>3 DEF Settled
      <4>2. PICK i \in 1..Len(w.goals) : it = w.goals[i] BY <4>1 DEF ToSet
      <4> QED BY <1>3, <4>2 DEF Settled
    <3>3. \A u \in w.unknowns : u.trail = <<>> BY <1>3 DEF IsWorld, Wondered
    <3> QED BY <3>1, <3>2, <3>3
  <2>3. ASSUME NEW it \in ToSet(w.decisions), Stalled(w, it, "open") PROVE it \in Signals(w) \ w.unknowns
    <3>1. it \in Signals(w) BY <2>3, Zenon DEF Signals
    <3>2. it.trail # <<>>
      <4>1. w.decisions \in Seq(Moving) BY <1>3 DEF Settled
      <4>2. PICK i \in 1..Len(w.decisions) : it = w.decisions[i] BY <4>1 DEF ToSet
      <4> QED BY <1>3, <4>2 DEF Settled
    <3>3. \A u \in w.unknowns : u.trail = <<>> BY <1>3 DEF IsWorld, Wondered
    <3> QED BY <3>1, <3>2, <3>3
  <2> QED BY ONLY <2>1, <2>2, <2>3, Zenon
<1>9. NeedState(w) = "accountability" <=> Signals(w) \ w.unknowns # {}
  BY ONLY <1>6, <1>7, <1>8 DEF Stalled
<1> QED BY <1>1, <1>2, <1>9

\* What the program tells of a Journey is what happened to it, whatever was
\* extracted and concluded: its events make up the trail of each goal and decision
\* (EventObserver), no pattern counts what was not there, what is called
\* stalled stalls, and the need a turn begins with goes by the same measure.
THEOREM ToldAlwaysAsItWent == TrajectorySpec => []ToldAsItWent
<1>1. TrajectoryInit => TrajectoryInv BY TrajectoryStarts
<1>2. TrajectoryInv /\ [TrajectoryNext]_trajectoryVars => TrajectoryInv' BY TrajectoryGoesOn
<1>3. TrajectoryInv => ToldAsItWent
  <2> SUFFICES ASSUME TrajectoryInv PROVE ToldAsItWent OBVIOUS
  <2>1. PatternsBorneOut BY DEF TrajectoryInv, TrajectoryReads, Borne, PatternsBorneOut
  <2>2. TrailUnbroken BY UnbrokenFromInv
  <2>3. StallsAreReal BY StallsFromInv
  <2>4. NeedAgrees BY NeedFromInv
  <2> QED BY <2>1, <2>2, <2>3, <2>4 DEF ToldAsItWent
<1> QED BY <1>1, <1>2, <1>3, PTL DEF TrajectorySpec
=============================================================================
