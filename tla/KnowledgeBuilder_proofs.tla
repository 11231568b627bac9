------------------------ MODULE KnowledgeBuilder_proofs ------------------------
(***************************************************************************)
(* The knowledge in a WorldState for any texts, any overlap between them   *)
(* and any number of turns: that it keeps the ledger's promise, that what  *)
(* was answered is a fact, and that corrections only consolidate.          *)
(***************************************************************************)
EXTENDS KnowledgeBuilder, FiniteSetTheorems, SequenceTheorems, TLAPS

Marks ==
  {"active", "superseded", "retracted", "paused", "completed", "abandoned",
   "open", "resolved", "deferred", "expired"}
Item == [id : Nat, text : Texts, status : Marks]

Types ==
  /\ items \in [Kinds -> Seq(Item)] /\ made \in Nat
  /\ heard \subseteq Texts /\ aside \in Seq(Item) /\ answered \in Seq(Item)
  /\ keys \in [{"fact", "claim"} -> SUBSET Texts]

\* What is set aside is resolved, and only while the unknowns are merged.
AsideInv ==
  /\ aside # <<>> => phase = "unknowns"
  /\ \A i \in DOMAIN aside : aside[i].status = "resolved"

\* Between BeginCorrections and EndTurn every active text has its key.
KeysInv ==
  phase = "corrections" =>
    \A k \in {"fact", "claim"} : \A i \in DOMAIN items[k] :
      items[k][i].status = "active" => items[k][i].text \in keys[k]

\* What the ledger is about: no id is given twice, no text is twice in force.
IdsGiven == \A k \in Kinds : \A x \in Listed(k) : x.id \in 0..made
OneInForce ==
  \A k \in Kinds : \A x, y \in Listed(k) :
    InForce(k, x) /\ InForce(k, y) /\ x.text = y.text => x.id = y.id
LedgerInv == Types /\ AsideInv /\ KeysInv /\ IdsGiven /\ OneInForce

\* Every question that was resolved is on record as a fact, or about to be.
TextsOf(q) == {q[i].text : i \in DOMAIN q}
AnsweredInv ==
  /\ answered # <<>> => phase \in {"unknowns", "promotion"}
  /\ \A x \in Listed("unknown") :
       x.status = "resolved" => x.text \in TextsOf(items["fact"]) \cup TextsOf(answered)

-----------------------------------------------------------------------------
(* A step, as the ledger sees it: nothing leaves the record, and at most   *)
(* one item comes, with a text that is not in force.                       *)

OnRecord(k) == \A x \in Listed(k) : \E y \in Listed(k)' : y.id = x.id /\ y.text = x.text
WasOnRecord(k, y) ==
  \E x \in Listed(k) : x.id = y.id /\ x.text = y.text /\ (InForce(k, y) => InForce(k, x))
IsNew(k, t, y) ==
  /\ y.id = made + 1 /\ y.text = t /\ made' = made + 1
  /\ \A x \in Listed(k) : InForce(k, x) => x.text # t
Evolves(k0, t) ==
  /\ made' \in Nat /\ made <= made'
  /\ \A k \in Kinds :
       /\ OnRecord(k)
       /\ \A y \in Listed(k)' : WasOnRecord(k, y) \/ (k = k0 /\ IsNew(k, t, y))

Entries == UNION {{EntryOf(k, e) : e \in Listed(k)} : k \in Kinds}
Live == UNION {{EntryOf(k, e) : e \in {x \in Listed(k) : InForce(k, x)}} : k \in Kinds}

LEMMA EntriesAre ==
  /\ \A d : d \in Entries <=> \E k \in Kinds : \E x \in Listed(k) : d = EntryOf(k, x)
  /\ \A d : d \in Live <=> \E k \in Kinds : \E x \in Listed(k) : InForce(k, x) /\ d = EntryOf(k, x)
BY DEF Entries, Live

LEMMA EntriesWillBe ==
  /\ \A d : d \in Entries' <=> \E k \in Kinds : \E x \in Listed(k)' : d = EntryOf(k, x)
  /\ \A d : d \in Live' <=> \E k \in Kinds : \E x \in Listed(k)' : InForce(k, x) /\ d = EntryOf(k, x)
BY DEF Entries, Live, EntryOf, InForce

LEMMA EvolvesKeepsInv ==
  ASSUME made \in Nat, IdsGiven, OneInForce, NEW k0 \in Kinds, NEW t, Evolves(k0, t)
  PROVE  IdsGiven' /\ OneInForce'
<1>1. ASSUME NEW k \in Kinds, NEW y \in Listed(k)' PROVE y.id \in 0..made'
  <2>1. CASE WasOnRecord(k, y)
    <3>1. PICK x \in Listed(k) : x.id = y.id BY <2>1 DEF WasOnRecord
    <3>2. x.id \in 0..made BY DEF IdsGiven
    <3> QED BY <3>1, <3>2 DEF Evolves
  <2>2. CASE IsNew(k, t, y) BY <2>2 DEF IsNew, Evolves
  <2> QED BY <2>1, <2>2 DEF Evolves
<1>2. ASSUME NEW k \in Kinds, NEW y \in Listed(k)', NEW z \in Listed(k)',
             InForce(k, y), InForce(k, z), y.text = z.text
      PROVE  y.id = z.id
  <2>1. /\ WasOnRecord(k, y) \/ IsNew(k, t, y)
        /\ WasOnRecord(k, z) \/ IsNew(k, t, z)
    BY DEF Evolves
  <2>2. CASE WasOnRecord(k, y) /\ WasOnRecord(k, z)
    <3>1. PICK u \in Listed(k) : u.id = y.id /\ u.text = y.text /\ InForce(k, u)
      BY <1>2, <2>2 DEF WasOnRecord
    <3>2. PICK v \in Listed(k) : v.id = z.id /\ v.text = z.text /\ InForce(k, v)
      BY <1>2, <2>2 DEF WasOnRecord
    <3> QED BY <1>2, <3>1, <3>2 DEF OneInForce
  <2>3. CASE WasOnRecord(k, y) /\ IsNew(k, t, z)
    BY <1>2, <2>3 DEF WasOnRecord, IsNew
  <2>4. CASE IsNew(k, t, y) /\ WasOnRecord(k, z)
    BY <1>2, <2>4 DEF WasOnRecord, IsNew
  <2>5. CASE IsNew(k, t, y) /\ IsNew(k, t, z) BY <2>5 DEF IsNew
  <2> QED BY <2>1, <2>2, <2>3, <2>4, <2>5
<1>3. IdsGiven' BY <1>1 DEF IdsGiven
<1>4. OneInForce' BY <1>2 DEF OneInForce, InForce
<1> QED BY <1>3, <1>4

LEMMA EvolvesRevises ==
  ASSUME made \in Nat, IdsGiven, OneInForce, OneInForce', NEW k0 \in Kinds, NEW t, Evolves(k0, t)
  PROVE  Ledger!Revise
<1> DEFINE new == Entries' \ Entries
<1>1. Entries \subseteq Entries'
  <2> SUFFICES ASSUME NEW d \in Entries PROVE d \in Entries' OBVIOUS
  <2>1. PICK k \in Kinds : \E x \in Listed(k) : d = EntryOf(k, x) BY EntriesAre
  <2>2. PICK x \in Listed(k) : d = EntryOf(k, x) BY <2>1
  <2>3. PICK y \in Listed(k)' : y.id = x.id /\ y.text = x.text BY DEF Evolves, OnRecord
  <2>4. d = EntryOf(k, y) BY <2>2, <2>3 DEF EntryOf
  <2> QED BY <2>4, EntriesWillBe
<1>2. ASSUME NEW d \in new
      PROVE  d = [id |-> made + 1, kind |-> k0, text |-> t]
  <2>1. PICK k \in Kinds : \E y \in Listed(k)' : d = EntryOf(k, y) BY EntriesWillBe
  <2>2. PICK y \in Listed(k)' : d = EntryOf(k, y) BY <2>1
  <2>3. ~WasOnRecord(k, y)
    <3> SUFFICES ASSUME WasOnRecord(k, y) PROVE FALSE OBVIOUS
    <3>1. PICK x \in Listed(k) : x.id = y.id /\ x.text = y.text BY DEF WasOnRecord
    <3>2. d = EntryOf(k, x) BY <2>2, <3>1 DEF EntryOf
    <3>3. d \in Entries BY <3>2, EntriesAre
    <3> QED BY <3>3
  <2>4. k = k0 /\ y.id = made + 1 /\ y.text = t BY <2>3 DEF Evolves, IsNew
  <2> QED BY <2>2, <2>4 DEF EntryOf
<1>3. \A d, e \in new : d = e BY <1>2
<1>4. ASSUME NEW d \in new, NEW e \in Entries PROVE d.id # e.id
  <2>1. PICK k \in Kinds : \E x \in Listed(k) : e = EntryOf(k, x) BY EntriesAre
  <2>2. PICK x \in Listed(k) : e = EntryOf(k, x) BY <2>1
  <2>3. e.id = x.id /\ x.id <= made BY <2>2 DEF EntryOf, IdsGiven
  <2>4. d.id = made + 1 BY <1>2
  <2>5. ~(made + 1 <= made) OBVIOUS
  <2> QED BY <2>3, <2>4, <2>5
<1>5. ASSUME NEW d \in Live' PROVE d \in Live \cup new
  <2>1. PICK k \in Kinds : \E y \in Listed(k)' : InForce(k, y) /\ d = EntryOf(k, y)
    BY EntriesWillBe
  <2>2. PICK y \in Listed(k)' : InForce(k, y) /\ d = EntryOf(k, y) BY <2>1
  <2>3. CASE WasOnRecord(k, y)
    <3>1. PICK x \in Listed(k) : x.id = y.id /\ x.text = y.text /\ InForce(k, x)
      BY <2>2, <2>3 DEF WasOnRecord
    <3>2. d = EntryOf(k, x) BY <2>2, <3>1 DEF EntryOf
    <3>3. d \in Live BY <3>1, <3>2, EntriesAre
    <3> QED BY <3>3
  <2>4. CASE IsNew(k, t, y)
    <3>1. d \in Entries' BY <2>2, EntriesWillBe
    <3>2. d \notin Entries
      <4> SUFFICES ASSUME d \in Entries PROVE FALSE OBVIOUS
      <4>1. PICK j \in Kinds : \E x \in Listed(j) : d = EntryOf(j, x) BY EntriesAre
      <4>2. PICK x \in Listed(j) : d = EntryOf(j, x) BY <4>1
      <4>3. d.id = x.id /\ x.id <= made BY <4>2 DEF EntryOf, IdsGiven
      <4>4. d.id = made + 1 BY <2>2, <2>4 DEF EntryOf, IsNew
      <4>5. ~(made + 1 <= made) OBVIOUS
      <4> QED BY <4>3, <4>4, <4>5
    <3> QED BY <3>1, <3>2
  <2> QED BY <2>3, <2>4 DEF Evolves
<1>6. ASSUME NEW d \in Live', NEW e \in Live', d.kind = e.kind, d.text = e.text PROVE d = e
  <2>1. PICK k \in Kinds : \E x \in Listed(k)' : InForce(k, x) /\ d = EntryOf(k, x)
    BY EntriesWillBe
  <2>2. PICK x \in Listed(k)' : InForce(k, x) /\ d = EntryOf(k, x) BY <2>1
  <2>3. PICK j \in Kinds : \E y \in Listed(j)' : InForce(j, y) /\ e = EntryOf(j, y)
    BY EntriesWillBe
  <2>4. PICK y \in Listed(j)' : InForce(j, y) /\ e = EntryOf(j, y) BY <2>3
  <2>5. k = j /\ x.text = y.text BY <1>6, <2>2, <2>4 DEF EntryOf
  <2>6. x.id = y.id BY <2>2, <2>4, <2>5 DEF OneInForce, InForce
  <2> QED BY <2>2, <2>4, <2>5, <2>6 DEF EntryOf
<1> HIDE DEF new
<1> QED BY <1>1, <1>3, <1>4, <1>5, <1>6 DEF Ledger!Revise, Ledger!Same, Entries, Live, new

-----------------------------------------------------------------------------
(* Lists.                                                                  *)

LEMMA UpTo ==
  ASSUME NEW n \in Nat
  PROVE  IsFiniteSet(1..n) /\ Cardinality(1..n) = n
BY FS_Interval

\* Positions are as many as their ordinals.
LEMMA Ordinals ==
  ASSUME NEW n \in Nat, NEW I \in SUBSET (1..n)
  PROVE  /\ Cardinality(I) \in Nat
         /\ \A i \in I : Ordinal(i, I) \in 1..Cardinality(I)
         /\ \A i, j \in I : Ordinal(i, I) = Ordinal(j, I) => i = j
         /\ \A m \in 1..Cardinality(I) : \E i \in I : Ordinal(i, I) = m
<1> DEFINE UpToThat(i) == {j \in I : j <= i}
           rank == [i \in I |-> Ordinal(i, I)]
<1>1. IsFiniteSet(I) /\ Cardinality(I) \in Nat BY UpTo, FS_Subset, FS_CardinalityType
<1>2. \A i \in I : IsFiniteSet(UpToThat(i)) /\ Cardinality(UpToThat(i)) = Ordinal(i, I)
  BY <1>1, FS_Subset DEF Ordinal
<1>3. ASSUME NEW i \in I PROVE Ordinal(i, I) \in 1..Cardinality(I)
  <2>1. UpToThat(i) \subseteq I /\ i \in UpToThat(i) OBVIOUS
  <2>2. Cardinality(UpToThat(i)) <= Cardinality(I) BY <1>1, <2>1, FS_Subset
  <2>3. Cardinality(UpToThat(i)) \in Nat /\ Cardinality(UpToThat(i)) # 0
    BY <1>2, <2>1, FS_CardinalityType, FS_EmptySet
  <2> HIDE DEF UpToThat
  <2> QED BY <1>1, <1>2, <2>2, <2>3
<1>4. ASSUME NEW i \in I, NEW j \in I, i < j PROVE Ordinal(i, I) # Ordinal(j, I)
  <2>1. UpToThat(i) \subseteq UpToThat(j) /\ j \in UpToThat(j) /\ j \notin UpToThat(i)
    <3>1. ~(j <= i) /\ j <= j BY <1>4
    <3>2. \A h \in I : h <= i => h <= j BY <1>4
    <3> QED BY <3>1, <3>2
  <2> HIDE DEF UpToThat
  <2>2. Cardinality(UpToThat(j)) = Cardinality(UpToThat(i)) => UpToThat(j) = UpToThat(i)
    BY <1>2, <2>1, FS_Subset
  <2> QED BY <1>2, <2>1, <2>2
<1>5. \A i, j \in I : Ordinal(i, I) = Ordinal(j, I) => i = j
  <2> SUFFICES ASSUME NEW i \in I, NEW j \in I, Ordinal(i, I) = Ordinal(j, I), i # j
               PROVE  FALSE
    OBVIOUS
  <2>1. i < j \/ j < i OBVIOUS
  <2> QED BY <1>4, <2>1
<1>6. rank \in Injection(I, 1..Cardinality(I))
  BY <1>3, <1>5 DEF Injection, IsInjective
<1>7. IsFiniteSet(1..Cardinality(I)) /\ Cardinality(1..Cardinality(I)) = Cardinality(I)
  BY <1>1, UpTo
<1>8. rank \in Surjection(I, 1..Cardinality(I))
  <2> HIDE DEF rank
  <2> QED BY <1>6, <1>7, FS_Injection
<1>9. \A m \in 1..Cardinality(I) : \E i \in I : Ordinal(i, I) = m
  <2>1. \A m \in 1..Cardinality(I) : \E i \in I : rank[i] = m
    <3> HIDE DEF rank
    <3> QED BY <1>8 DEF Surjection
  <2> QED BY <2>1
<1> QED BY <1>1, <1>3, <1>5, <1>9

LEMMA Picked ==
  ASSUME NEW q \in Seq(Item), NEW I \in SUBSET (DOMAIN q)
  PROVE  /\ Pick(q, I) \in Seq(Item)
         /\ \A n \in DOMAIN Pick(q, I) : \E i \in I : Pick(q, I)[n] = q[i]
         /\ \A i \in I : \E n \in DOMAIN Pick(q, I) : Pick(q, I)[n] = q[i]
<1> DEFINE m == Cardinality(I)
           at(n) == CHOOSE i \in I : Ordinal(i, I) = n
<1>1. DOMAIN q = 1..Len(q) /\ Len(q) \in Nat OBVIOUS
<1>2. /\ m \in Nat
      /\ \A i \in I : Ordinal(i, I) \in 1..m
      /\ \A i, j \in I : Ordinal(i, I) = Ordinal(j, I) => i = j
      /\ \A n \in 1..m : \E i \in I : Ordinal(i, I) = n
  BY <1>1, Ordinals
<1>3. \A n \in 1..m : at(n) \in I /\ Ordinal(at(n), I) = n BY <1>2
<1>4. \A i \in I : at(Ordinal(i, I)) = i BY <1>2, <1>3
<1>5. Pick(q, I) = [n \in 1..m |-> q[at(n)]] BY DEF Pick
<1> HIDE DEF m, at
<1>6. \A n \in 1..m : q[at(n)] \in Item BY <1>1, <1>3
<1>7. [n \in 1..m |-> q[at(n)]] \in Seq(Item) BY <1>2, <1>6
<1>8. DOMAIN Pick(q, I) = 1..m /\ \A n \in 1..m : Pick(q, I)[n] = q[at(n)] BY <1>5
<1> QED BY <1>2, <1>3, <1>4, <1>5, <1>7, <1>8

\* An item is marked; the others, and its id and text, stand.
Mark(q, i, status) == [q EXCEPT ![i].status = status]
LEMMA Marked ==
  ASSUME NEW q \in Seq(Item), NEW i, NEW status \in Marks
  PROVE  /\ Mark(q, i, status) \in Seq(Item) /\ DOMAIN Mark(q, i, status) = DOMAIN q
         /\ \A j \in DOMAIN q :
              Mark(q, i, status)[j].id = q[j].id /\ Mark(q, i, status)[j].text = q[j].text
         /\ \A j \in DOMAIN q : j # i => Mark(q, i, status)[j] = q[j]
         /\ i \in DOMAIN q => Mark(q, i, status)[i].status = status
<1> DEFINE r == [q EXCEPT ![i].status = status]
<1>0. Mark(q, i, status) = r BY DEF Mark
<1>1. DOMAIN r = DOMAIN q /\ DOMAIN q = 1..Len(q) /\ Len(q) \in Nat OBVIOUS
<1>2. \A j \in DOMAIN q : j # i => r[j] = q[j] OBVIOUS
<1>3. i \in DOMAIN q => r[i] = [q[i] EXCEPT !.status = status] OBVIOUS
<1>4. \A j \in DOMAIN q : q[j] \in Item OBVIOUS
<1>5. i \in DOMAIN q => /\ r[i] \in Item /\ r[i].status = status
                        /\ r[i].id = q[i].id /\ r[i].text = q[i].text
  BY <1>3, <1>4 DEF Item
<1>6. \A j \in DOMAIN q : r[j] \in Item BY <1>2, <1>4, <1>5
<1>7. r = [j \in 1..Len(q) |-> r[j]] BY <1>1
<1> HIDE DEF r
<1>8. r \in Seq(Item) BY <1>1, <1>6, <1>7
<1>9. \A j \in DOMAIN q : r[j].id = q[j].id /\ r[j].text = q[j].text BY <1>2, <1>5
<1> QED BY <1>0, <1>1, <1>2, <1>5, <1>8, <1>9

-----------------------------------------------------------------------------
(* What each step does to the record.                                      *)

LEMMA ItemsTyped ==
  ASSUME Types, NEW k \in Kinds
  PROVE  /\ items[k] \in Seq(Item) /\ DOMAIN items = Kinds
         /\ \A i \in DOMAIN items[k] : items[k][i] \in Item
         /\ \A x \in Listed(k) : x \in Item
BY DEF Types, Listed

LEMMA ListedWillBe ==
  ASSUME NEW k
  PROVE  \A y : y \in Listed(k)' <=>
           \/ \E j \in DOMAIN items'[k] : y = items'[k][j]
           \/ k = "unknown" /\ \E i \in DOMAIN aside' : y = aside'[i]
BY DEF Listed

\* A list as it was, under a record that is otherwise as it was.
LEMMA SameList ==
  ASSUME NEW k \in Kinds, items'[k] = items[k], k = "unknown" => aside' = aside
  PROVE  Listed(k)' = Listed(k)
BY DEF Listed

LEMMA SameListEvolves ==
  ASSUME NEW k \in Kinds, Listed(k)' = Listed(k)
  PROVE  OnRecord(k) /\ \A y \in Listed(k)' : WasOnRecord(k, y)
BY DEF OnRecord, WasOnRecord

LEMMA StillEvolves ==
  ASSUME made \in Nat, made' = made, NEW k0, NEW t,
         \A k \in Kinds : Listed(k)' = Listed(k)
  PROVE  Evolves(k0, t)
BY SameListEvolves DEF Evolves

\* One item is appended to a list in which its text is not in force.
LEMMA AppendEvolves ==
  ASSUME Types, NEW k \in Kinds, NEW e \in Item, NEW q \in Seq(Item),
         \A i \in DOMAIN items[k] :
           \E j \in DOMAIN q : q[j].id = items[k][i].id /\ q[j].text = items[k][i].text,
         \A j \in DOMAIN q : \E i \in DOMAIN items[k] :
           /\ items[k][i].id = q[j].id /\ items[k][i].text = q[j].text
           /\ InForce(k, q[j]) => InForce(k, items[k][i]),
         items' = [items EXCEPT ![k] = Append(q, e)], UNCHANGED aside,
         e.id = made + 1, made' = made + 1,
         \A x \in Listed(k) : InForce(k, x) => x.text # e.text
  PROVE  Evolves(k, e.text)
<1>1. /\ items'[k] = Append(q, e) /\ \A j \in Kinds : j # k => items'[j] = items[j]
      /\ made \in Nat /\ aside' = aside
  BY DEF Types
<1>2. \A j \in Kinds : j # k => Listed(j)' = Listed(j) BY <1>1, SameList
<1>3. /\ \A j \in DOMAIN q : j \in DOMAIN Append(q, e) /\ Append(q, e)[j] = q[j]
      /\ Len(q) + 1 \in DOMAIN Append(q, e) /\ Append(q, e)[Len(q) + 1] = e
      /\ \A j \in DOMAIN Append(q, e) : j \in DOMAIN q \/ j = Len(q) + 1
  OBVIOUS
<1>4. \A x : x \in Listed(k) <=> \/ \E i \in DOMAIN items[k] : x = items[k][i]
                                 \/ k = "unknown" /\ \E i \in DOMAIN aside : x = aside[i]
  BY DEF Listed
<1>5. \A y : y \in Listed(k)' <=> \/ \E j \in DOMAIN Append(q, e) : y = Append(q, e)[j]
                                  \/ k = "unknown" /\ \E i \in DOMAIN aside : y = aside[i]
  <2>1. \A y : y \in Listed(k)' <=>
          \/ \E j \in DOMAIN items'[k] : y = items'[k][j]
          \/ k = "unknown" /\ \E i \in DOMAIN aside' : y = aside'[i]
    BY ListedWillBe
  <2> QED BY <1>1, <2>1, SMTT(40)
<1>6. OnRecord(k)
  <2> SUFFICES ASSUME NEW x \in Listed(k)
               PROVE  \E y \in Listed(k)' : y.id = x.id /\ y.text = x.text
    BY DEF OnRecord
  <2>1. CASE \E i \in DOMAIN items[k] : x = items[k][i]
    <3>1. PICK j \in DOMAIN q : q[j].id = x.id /\ q[j].text = x.text BY <2>1
    <3>2. q[j] \in Listed(k)' BY <1>3, <1>5
    <3> QED BY <3>1, <3>2
  <2>2. CASE k = "unknown" /\ \E i \in DOMAIN aside : x = aside[i] BY <1>5, <2>2
  <2> QED BY <1>4, <2>1, <2>2
<1>7. ASSUME NEW y \in Listed(k)' PROVE WasOnRecord(k, y) \/ IsNew(k, e.text, y)
  <2>1. CASE \E j \in DOMAIN Append(q, e) : y = Append(q, e)[j]
    <3>1. PICK j \in DOMAIN Append(q, e) : y = Append(q, e)[j] BY <2>1
    <3>2. CASE j \in DOMAIN q
      <4>1. PICK i \in DOMAIN items[k] :
              /\ items[k][i].id = q[j].id /\ items[k][i].text = q[j].text
              /\ InForce(k, q[j]) => InForce(k, items[k][i])
        BY <3>2
      <4>2. items[k][i] \in Listed(k) /\ y = q[j] BY <1>3, <1>4, <3>1, <3>2
      <4> QED BY <4>1, <4>2 DEF WasOnRecord
    <3>3. CASE j = Len(q) + 1 BY <1>3, <3>1, <3>3 DEF IsNew
    <3> QED BY <1>3, <3>2, <3>3
  <2>2. CASE k = "unknown" /\ \E i \in DOMAIN aside : y = aside[i]
    BY <1>4, <2>2 DEF WasOnRecord
  <2> QED BY <1>5, <2>1, <2>2
<1>8. \A j \in Kinds : j # k => OnRecord(j) /\ \A y \in Listed(j)' : WasOnRecord(j, y)
  BY <1>2, SameListEvolves
<1>9. made' \in Nat /\ made <= made' BY <1>1
<1> QED BY <1>6, <1>7, <1>8, <1>9 DEF Evolves

\* One item of a list is marked.
LEMMA MarkEvolves ==
  ASSUME Types, NEW k \in Kinds \ {"unknown"}, NEW i, NEW status \in Marks,
         k \in {"fact", "claim"} => status # "active",
         items' = [items EXCEPT ![k][i].status = status], UNCHANGED <<aside, made>>
  PROVE  /\ Evolves(k, "none") /\ items' \in [Kinds -> Seq(Item)]
         /\ \A j \in Kinds : j # k => items'[j] = items[j]
<1> DEFINE r == Mark(items[k], i, status)
<1>1. items' = [items EXCEPT ![k] = r] BY DEF Mark
<1>2. items[k] \in Seq(Item) /\ made \in Nat BY DEF Types
<1>3. /\ r \in Seq(Item) /\ DOMAIN r = DOMAIN items[k]
      /\ \A j \in DOMAIN items[k] : r[j].id = items[k][j].id /\ r[j].text = items[k][j].text
      /\ \A j \in DOMAIN items[k] : j # i => r[j] = items[k][j]
      /\ i \in DOMAIN items[k] => r[i].status = status
  BY <1>2, Marked
<1> HIDE DEF r
<1>4. items'[k] = r /\ \A j \in Kinds : j # k => items'[j] = items[j]
  BY <1>1 DEF Types
<1>5. items' \in [Kinds -> Seq(Item)] BY <1>1, <1>3 DEF Types
<1>6. \A j \in Kinds : j # k => OnRecord(j) /\ \A y \in Listed(j)' : WasOnRecord(j, y)
  BY <1>4, SameList, SameListEvolves
<1>7. /\ \A x : x \in Listed(k) <=> \E j \in DOMAIN items[k] : x = items[k][j]
      /\ \A y : y \in Listed(k)' <=> \E j \in DOMAIN items[k] : y = r[j]
  BY <1>3, <1>4 DEF Listed
<1>8. OnRecord(k) BY <1>3, <1>7 DEF OnRecord
<1>9. ASSUME NEW y \in Listed(k)' PROVE WasOnRecord(k, y)
  <2>1. PICK j \in DOMAIN items[k] : y = r[j] BY <1>7
  <2>2. InForce(k, r[j]) => InForce(k, items[k][j])
    <3>1. CASE k \in {"fact", "claim"} BY <1>3, <3>1 DEF InForce
    <3>2. CASE k \notin {"fact", "claim"} BY <3>2 DEF InForce
    <3> QED BY <3>1, <3>2
  <2>3. items[k][j] \in Listed(k) BY <1>7
  <2> QED BY <1>3, <2>1, <2>2, <2>3 DEF WasOnRecord
<1>10. made' \in Nat /\ made <= made' BY <1>2
<1>11. Evolves(k, "none") BY <1>6, <1>8, <1>9, <1>10 DEF Evolves
<1> QED BY <1>4, <1>5, <1>11

-----------------------------------------------------------------------------
(* The actions.                                                            *)

BuilderInv == LedgerInv /\ AnsweredInv
StepStands ==
  /\ Types' /\ AsideInv' /\ KeysInv' /\ AnsweredInv'
  /\ \E k \in Kinds : \E t : Evolves(k, t)

LEMMA FactsStay ==
  ASSUME OnRecord("fact")
  PROVE  TextsOf(items["fact"]) \subseteq TextsOf(items'["fact"])
<1> SUFFICES ASSUME NEW i \in DOMAIN items["fact"]
             PROVE  \E j \in DOMAIN items'["fact"] : items'["fact"][j].text = items["fact"][i].text
  BY DEF TextsOf
<1>1. items["fact"][i] \in Listed("fact") BY DEF Listed
<1>2. PICK y \in Listed("fact")' : y.text = items["fact"][i].text BY <1>1 DEF OnRecord
<1>3. \E j \in DOMAIN items'["fact"] : y = items'["fact"][j] BY <1>2, ListedWillBe
<1> QED BY <1>2, <1>3

LEMMA AnsweredStays ==
  ASSUME AnsweredInv, OnRecord("fact"),
         TextsOf(answered) \subseteq TextsOf(answered') \cup TextsOf(items'["fact"]),
         answered' # <<>> => phase' \in {"unknowns", "promotion"},
         \A y \in Listed("unknown")' : y.status = "resolved" => y \in Listed("unknown")
  PROVE  AnsweredInv'
<1>1. TextsOf(items["fact"]) \subseteq TextsOf(items'["fact"]) BY FactsStay
<1>2. ASSUME NEW y \in Listed("unknown")', y.status = "resolved"
      PROVE  y.text \in TextsOf(items'["fact"]) \cup TextsOf(answered')
  BY <1>1, <1>2 DEF AnsweredInv
<1> QED BY <1>2 DEF AnsweredInv, TextsOf

LEMMA MergeEvolves ==
  ASSUME LedgerInv, NEW k \in Kinds, NEW t \in Texts, Merge(k, t), aside' = aside
  PROVE  /\ Evolves(k, t) /\ items' \in [Kinds -> Seq(Item)] /\ made' \in Nat
         /\ t \in TextsOf(items'[k])
         /\ \A y \in Listed("unknown")' : y \in Listed("unknown") \/ y.status = "open"
<1>1. /\ items \in [Kinds -> Seq(Item)] /\ made \in Nat /\ Types
      /\ items[k] \in Seq(Item)
  BY DEF LedgerInv, Types
<1>2. CASE Positions(items[k], {t}) # {}
  <2>1. UNCHANGED <<items, made>> BY <1>2 DEF Merge
  <2>2. \A j \in Kinds : Listed(j)' = Listed(j) BY <2>1, SameList
  <2>3. t \in TextsOf(items[k]) BY <1>2 DEF Positions, TextsOf
  <2>4. "unknown" \in Kinds BY DEF Kinds
  <2> QED BY <1>1, <2>1, <2>2, <2>3, <2>4, StillEvolves
<1>3. CASE Positions(items[k], {t}) = {}
  <2> DEFINE e == New(k, t)
             q == items[k]
  <2>1. items' = [items EXCEPT ![k] = Append(q, e)] /\ made' = made + 1
    BY <1>3 DEF Merge
  <2>2. e \in Item /\ e.id = made + 1 /\ e.text = t
    <3>1. Fresh(k) \in Marks /\ made + 1 \in Nat BY <1>1 DEF Fresh, Marks
    <3>2. e = [id |-> made + 1, text |-> t, status |-> Fresh(k)] BY DEF New
    <3> HIDE DEF e
    <3> QED BY <3>1, <3>2 DEF Item
  <2>3. ASSUME NEW x \in Listed(k), InForce(k, x) PROVE x.text # t
    <3>1. CASE \E i \in DOMAIN items[k] : x = items[k][i]
      BY <1>3, <3>1 DEF Positions
    <3>2. CASE k = "unknown" /\ \E i \in DOMAIN aside : x = aside[i]
      BY <2>3, <3>2 DEF LedgerInv, AsideInv, InForce
    <3> QED BY <2>3, <3>1, <3>2 DEF Listed
  <2> HIDE DEF e
  <2>4. Evolves(k, e.text)
    <3>1. \A i \in DOMAIN items[k] :
            \E j \in DOMAIN q : q[j].id = items[k][i].id /\ q[j].text = items[k][i].text
      OBVIOUS
    <3>2. \A j \in DOMAIN q : \E i \in DOMAIN items[k] :
            /\ items[k][i].id = q[j].id /\ items[k][i].text = q[j].text
            /\ InForce(k, q[j]) => InForce(k, items[k][i])
      OBVIOUS
    <3>3. q \in Seq(Item) BY <1>1
    <3> HIDE DEF q
    <3> QED BY <1>1, <2>1, <2>2, <2>3, <3>1, <3>2, <3>3, AppendEvolves
  <2>5. Append(q, e) \in Seq(Item) /\ \E j \in DOMAIN Append(q, e) : Append(q, e)[j] = e
    <3>1. q \in Seq(Item) BY <1>1
    <3> HIDE DEF q
    <3>2. Append(q, e) \in Seq(Item) BY <2>2, <3>1
    <3>3. Len(q) + 1 \in DOMAIN Append(q, e) /\ Append(q, e)[Len(q) + 1] = e BY <2>2, <3>1
    <3> QED BY <3>2, <3>3
  <2>6. items' \in [Kinds -> Seq(Item)] /\ items'[k] = Append(q, e)
        /\ \A j \in Kinds : j # k => items'[j] = items[j]
    BY <1>1, <2>1, <2>5
  <2>7. t \in TextsOf(items'[k]) BY <2>2, <2>5, <2>6 DEF TextsOf
  <2>8. ASSUME NEW y \in Listed("unknown")' PROVE y \in Listed("unknown") \/ y.status = "open"
    <3>1. CASE k # "unknown"
      <4>1. "unknown" \in Kinds BY DEF Kinds
      <4>2. Listed("unknown")' = Listed("unknown") BY <2>6, <3>1, <4>1, SameList
      <4> QED BY <4>2
    <3>2. CASE k = "unknown"
      <4>1. e.status = "open" BY <3>2 DEF e, New, Fresh
      <4>2. \A j \in DOMAIN Append(q, e) :
              (j \in DOMAIN q /\ Append(q, e)[j] = q[j]) \/ Append(q, e)[j] = e
        BY <1>1
      <4>3. \/ \E j \in DOMAIN Append(q, e) : y = Append(q, e)[j]
            \/ \E i \in DOMAIN aside : y = aside[i]
        BY <2>6, <3>2, ListedWillBe
      <4> QED BY <3>2, <4>1, <4>2, <4>3 DEF Listed
    <3> QED BY <3>1, <3>2
  <2> QED BY <1>1, <2>1, <2>2, <2>4, <2>6, <2>7, <2>8
<1> QED BY <1>2, <1>3

LEMMA HearStep ==
  ASSUME BuilderInv, NEW loop \in {"facts", "claims", "goals", "decisions", "unknowns"},
         NEW k \in Kinds, NEW t \in Texts, Hear(loop, k, t)
  PROVE  StepStands
<1>1. /\ phase = loop /\ Merge(k, t) /\ UNCHANGED <<turn, phase, aside, answered, keys>>
      /\ heard' \subseteq heard \cup {t}
  BY DEF Hear, Input
<1>2. /\ Evolves(k, t) /\ items' \in [Kinds -> Seq(Item)] /\ made' \in Nat
      /\ \A y \in Listed("unknown")' : y \in Listed("unknown") \/ y.status = "open"
  BY <1>1, MergeEvolves DEF BuilderInv
<1>3. Types' BY <1>1, <1>2 DEF BuilderInv, LedgerInv, Types
<1>4. AsideInv' BY <1>1 DEF BuilderInv, LedgerInv, AsideInv
<1>5. KeysInv' BY <1>1 DEF KeysInv
<1>6. AnsweredInv'
  <2>1. OnRecord("fact") BY <1>2 DEF Evolves, Kinds
  <2>2. answered' # <<>> => phase' \in {"unknowns", "promotion"}
    BY <1>1 DEF BuilderInv, AnsweredInv
  <2> QED BY <1>1, <1>2, <2>1, <2>2, AnsweredStays DEF BuilderInv
<1> QED BY <1>2, <1>3, <1>4, <1>5, <1>6 DEF StepStands

\* A goal is updated, a decision decided.
LEMMA TransitionStep ==
  ASSUME BuilderInv, NEW k \in {"goal", "decision"}, NEW t, NEW status \in Marks,
         Transition(k, t, status), phase # "corrections",
         UNCHANGED <<made, phase, heard, aside, answered, keys>>
  PROVE  StepStands
<1>1. k \in Kinds \ {"unknown"} BY DEF Kinds
<1>2. /\ \E j \in Kinds : \E u : Evolves(j, u)
      /\ items' \in [Kinds -> Seq(Item)] /\ items'["unknown"] = items["unknown"]
      /\ items'["fact"] = items["fact"]
  <2>1. CASE UNCHANGED items
    <3>1. \A j \in Kinds : Listed(j)' = Listed(j) BY <2>1, SameList
    <3>2. Evolves(k, t) BY <3>1, StillEvolves DEF BuilderInv, LedgerInv, Types
    <3> QED BY <1>1, <2>1, <3>2 DEF BuilderInv, LedgerInv, Types
  <2>2. CASE ~UNCHANGED items
    <3> DEFINE i == First(Positions(items[k], Near(t)))
    <3>1. items' = [items EXCEPT ![k][i].status = status] BY <2>2 DEF Transition
    <3> HIDE DEF i
    <3>2. /\ Evolves(k, "none") /\ items' \in [Kinds -> Seq(Item)]
          /\ \A j \in Kinds : j # k => items'[j] = items[j]
      BY <1>1, <3>1, MarkEvolves DEF BuilderInv, LedgerInv
    <3> QED BY <1>1, <3>2 DEF Kinds
  <2> QED BY <2>1, <2>2
<1>3. Types' BY <1>2 DEF BuilderInv, LedgerInv, Types
<1>4. AsideInv' /\ KeysInv' BY DEF BuilderInv, LedgerInv, AsideInv, KeysInv
<1>5. Listed("unknown")' = Listed("unknown") /\ OnRecord("fact")
  BY <1>2, SameList, SameListEvolves DEF Kinds
<1>6. AnsweredInv'
  <2>1. answered' # <<>> => phase' \in {"unknowns", "promotion"} BY DEF BuilderInv, AnsweredInv
  <2> QED BY <1>5, <2>1, AnsweredStays DEF BuilderInv
<1> QED BY <1>2, <1>3, <1>4, <1>6 DEF StepStands

LEMMA ReconcileStep ==
  ASSUME BuilderInv, Reconcile
  PROVE  StepStands
<1> DEFINE q == items["unknown"]
           gone == Pick(q, Answered)
           left == Pick(q, Unanswered)
           set == Resolved(gone)
<1>1. /\ phase = "decision_events" /\ phase' = "unknowns"
      /\ answered' = gone /\ aside' = set
      /\ items' = [items EXCEPT !["unknown"] = left]
      /\ UNCHANGED <<made, turn, inputs, heard, keys>>
  BY DEF Reconcile
<1>2. /\ "unknown" \in Kinds /\ "fact" \in Kinds /\ items \in [Kinds -> Seq(Item)]
      /\ made \in Nat /\ q \in Seq(Item)
  BY DEF BuilderInv, LedgerInv, Types, Kinds
<1>3. /\ Answered \in SUBSET (DOMAIN q) /\ Unanswered \in SUBSET (DOMAIN q)
      /\ DOMAIN q = Answered \cup Unanswered
  BY DEF Answered, Unanswered
<1>4. aside = <<>> /\ answered = <<>> BY <1>1 DEF BuilderInv, LedgerInv, AsideInv, AnsweredInv
<1> HIDE DEF q
<1>5. /\ gone \in Seq(Item)
      /\ \A n \in DOMAIN gone : \E i \in Answered : gone[n] = q[i]
      /\ \A i \in Answered : \E n \in DOMAIN gone : gone[n] = q[i]
  BY <1>2, <1>3, Picked
<1>6. /\ left \in Seq(Item)
      /\ \A n \in DOMAIN left : \E i \in Unanswered : left[n] = q[i]
      /\ \A i \in Unanswered : \E n \in DOMAIN left : left[n] = q[i]
  BY <1>2, <1>3, Picked
<1> HIDE DEF gone, left
<1>7. /\ set \in Seq(Item) /\ DOMAIN set = DOMAIN gone
      /\ \A n \in DOMAIN gone : /\ set[n].id = gone[n].id /\ set[n].text = gone[n].text
                                /\ set[n].status = "resolved"
  <2>1. DOMAIN gone = 1..Len(gone) /\ Len(gone) \in Nat /\ \A n \in DOMAIN gone : gone[n] \in Item
    BY <1>5
  <2>2. \A n \in DOMAIN gone : [gone[n] EXCEPT !.status = "resolved"] \in Item
    BY <2>1 DEF Item, Marks
  <2>3. set = [n \in 1..Len(gone) |-> [gone[n] EXCEPT !.status = "resolved"]]
    BY <2>1 DEF Resolved
  <2>4. set \in Seq(Item) BY <2>1, <2>2, <2>3
  <2>5. \A n \in DOMAIN gone : set[n] = [gone[n] EXCEPT !.status = "resolved"] BY <2>1, <2>3
  <2>6. \A n \in DOMAIN gone : /\ set[n].id = gone[n].id /\ set[n].text = gone[n].text
                               /\ set[n].status = "resolved"
    BY <2>1, <2>5 DEF Item
  <2>7. DOMAIN set = DOMAIN gone BY <2>1, <2>3
  <2> QED BY <2>4, <2>6, <2>7
<1> HIDE DEF set
<1>8. /\ items' \in [Kinds -> Seq(Item)] /\ items'["unknown"] = left
      /\ \A k \in Kinds : k # "unknown" => items'[k] = items[k]
  BY <1>1, <1>2, <1>6
<1>9. \A x : x \in Listed("unknown") <=> \E i \in DOMAIN q : x = q[i]
  BY <1>4 DEF Listed, q
<1>10. \A y : y \in Listed("unknown")' <=> \/ \E n \in DOMAIN left : y = left[n]
                                          \/ \E n \in DOMAIN gone : y = set[n]
  BY <1>1, <1>7, <1>8, ListedWillBe
<1>11. OnRecord("unknown")
  <2> SUFFICES ASSUME NEW x \in Listed("unknown")
               PROVE  \E y \in Listed("unknown")' : y.id = x.id /\ y.text = x.text
    BY DEF OnRecord
  <2>1. PICK i \in DOMAIN q : x = q[i] BY <1>9
  <2>2. CASE i \in Unanswered BY <1>6, <1>10, <2>1, <2>2
  <2>3. CASE i \in Answered
    <3>1. PICK n \in DOMAIN gone : gone[n] = q[i] BY <1>5, <2>3
    <3>2. set[n] \in Listed("unknown")' BY <1>10
    <3> QED BY <1>7, <2>1, <3>1, <3>2
  <2> QED BY <1>3, <2>1, <2>2, <2>3
<1>12. ASSUME NEW y \in Listed("unknown")'
       PROVE  /\ WasOnRecord("unknown", y)
              /\ y.status = "resolved" => y \in Listed("unknown") \/ y.text \in TextsOf(gone)
  <2>1. CASE \E n \in DOMAIN left : y = left[n]
    <3>1. y \in Listed("unknown") BY <1>3, <1>6, <1>9, <2>1
    <3> QED BY <3>1 DEF WasOnRecord
  <2>2. CASE \E n \in DOMAIN gone : y = set[n]
    <3>1. PICK n \in DOMAIN gone : y = set[n] BY <2>2
    <3>2. PICK i \in Answered : gone[n] = q[i] BY <1>5
    <3>3. q[i] \in Listed("unknown") BY <1>3, <1>9
    <3>4. y.id = q[i].id /\ y.text = q[i].text /\ ~InForce("unknown", y)
      BY <1>7, <3>1, <3>2 DEF InForce
    <3>5. y.text \in TextsOf(gone) BY <1>7, <3>1 DEF TextsOf
    <3> QED BY <3>3, <3>4, <3>5 DEF WasOnRecord
  <2> QED BY <1>10, <2>1, <2>2
<1>13. \A k \in Kinds : k # "unknown" => OnRecord(k) /\ \A y \in Listed(k)' : WasOnRecord(k, y)
  BY <1>8, SameList, SameListEvolves
<1>14. Evolves("unknown", "none") BY <1>1, <1>2, <1>11, <1>12, <1>13 DEF Evolves
<1>15. Types' BY <1>1, <1>5, <1>7, <1>8 DEF BuilderInv, LedgerInv, Types
<1>16. AsideInv' /\ KeysInv' BY <1>1, <1>7 DEF AsideInv, KeysInv
<1>17. AnsweredInv'
  <2>1. items'["fact"] = items["fact"] BY <1>2, <1>8
  <2>2. TextsOf(answered) = {} BY <1>4 DEF TextsOf
  <2>3. ASSUME NEW y \in Listed("unknown")', y.status = "resolved"
        PROVE  y.text \in TextsOf(items'["fact"]) \cup TextsOf(answered')
    <3>1. CASE y \in Listed("unknown")
      BY <2>1, <2>2, <2>3, <3>1 DEF BuilderInv, AnsweredInv
    <3>2. CASE y.text \in TextsOf(gone) BY <1>1, <3>2
    <3> QED BY <1>12, <2>3, <3>1, <3>2
  <2> QED BY <1>1, <2>3 DEF AnsweredInv, TextsOf
<1> QED BY <1>2, <1>14, <1>15, <1>16, <1>17 DEF StepStands

LEMMA RejoinStep ==
  ASSUME BuilderInv, Rejoin
  PROVE  StepStands
<1> DEFINE q == items["unknown"]
<1>1. /\ phase = "unknowns" /\ phase' = "promotion" /\ aside' = <<>>
      /\ items' = [items EXCEPT !["unknown"] = q \o aside]
      /\ UNCHANGED <<made, turn, inputs, heard, answered, keys>>
  BY DEF Rejoin
<1>2. /\ "unknown" \in Kinds /\ "fact" \in Kinds /\ items \in [Kinds -> Seq(Item)]
      /\ made \in Nat /\ q \in Seq(Item) /\ aside \in Seq(Item)
  BY DEF BuilderInv, LedgerInv, Types, Kinds
<1>3. /\ q \o aside \in Seq(Item)
      /\ \A n \in DOMAIN (q \o aside) :
           \/ n \in DOMAIN q /\ (q \o aside)[n] = q[n]
           \/ n - Len(q) \in DOMAIN aside /\ (q \o aside)[n] = aside[n - Len(q)]
      /\ \A n \in DOMAIN q : n \in DOMAIN (q \o aside) /\ (q \o aside)[n] = q[n]
      /\ \A n \in DOMAIN aside :
           n + Len(q) \in DOMAIN (q \o aside) /\ (q \o aside)[n + Len(q)] = aside[n]
  <2>1. ASSUME NEW p \in Seq(Item), NEW r \in Seq(Item)
        PROVE  /\ p \o r \in Seq(Item)
               /\ \A n \in DOMAIN (p \o r) :
                    \/ n \in DOMAIN p /\ (p \o r)[n] = p[n]
                    \/ n - Len(p) \in DOMAIN r /\ (p \o r)[n] = r[n - Len(p)]
               /\ \A n \in DOMAIN p : n \in DOMAIN (p \o r) /\ (p \o r)[n] = p[n]
               /\ \A n \in DOMAIN r : n + Len(p) \in DOMAIN (p \o r) /\ (p \o r)[n + Len(p)] = r[n]
    OBVIOUS
  <2> QED BY <1>2, <2>1
<1> DEFINE all == q \o aside
<1> HIDE DEF q, all
<1>4. /\ items' \in [Kinds -> Seq(Item)] /\ items'["unknown"] = all
      /\ \A k \in Kinds : k # "unknown" => items'[k] = items[k]
  BY <1>1, <1>2, <1>3 DEF all
<1>5. \A x : x \in Listed("unknown") <=> \/ \E i \in DOMAIN q : x = q[i]
                                        \/ \E i \in DOMAIN aside : x = aside[i]
  BY DEF Listed, q
<1>6. \A y : y \in Listed("unknown")' <=> \E n \in DOMAIN all : y = all[n]
  <2>1. \A y : y \in Listed("unknown")' <=>
          \/ \E j \in DOMAIN items'["unknown"] : y = items'["unknown"][j]
          \/ \E i \in DOMAIN aside' : y = aside'[i]
    BY ListedWillBe
  <2>2. DOMAIN aside' = {} BY <1>1
  <2> QED BY <1>4, <2>1, <2>2
<1>7. Listed("unknown")' = Listed("unknown")
  <2>1. ASSUME NEW x \in Listed("unknown") PROVE x \in Listed("unknown")'
    BY <1>3, <1>5, <1>6, ZenonT(40) DEF all
  <2>2. ASSUME NEW y \in Listed("unknown")' PROVE y \in Listed("unknown")
    BY <1>3, <1>5, <1>6 DEF all
  <2> QED BY <2>1, <2>2
<1>8. \A k \in Kinds : Listed(k)' = Listed(k)
  BY <1>4, <1>7, SameList
<1>9. Evolves("unknown", "none") BY <1>1, <1>2, <1>8, StillEvolves
<1>10. Types' BY <1>1, <1>4 DEF BuilderInv, LedgerInv, Types
<1>11. AsideInv' /\ KeysInv' BY <1>1 DEF AsideInv, KeysInv
<1>12. AnsweredInv'
  BY <1>1, <1>2, <1>7, <1>8, AnsweredStays, SameListEvolves DEF BuilderInv
<1> QED BY <1>2, <1>9, <1>10, <1>11, <1>12 DEF StepStands

LEMMA PromoteStep ==
  ASSUME BuilderInv, Promote
  PROVE  StepStands
<1> DEFINE t == Head(answered).text
<1>1. /\ phase = "promotion" /\ answered # <<>> /\ Merge("fact", t) /\ answered' = Tail(answered)
      /\ UNCHANGED <<turn, phase, inputs, heard, aside, keys>>
  BY DEF Promote
<1>2. /\ Head(answered) \in Item /\ Tail(answered) \in Seq(Item)
      /\ \A i \in DOMAIN answered :
           answered[i] = Head(answered) \/ \E j \in DOMAIN Tail(answered) : answered[i] = Tail(answered)[j]
  <2>1. ASSUME NEW q \in Seq(Item), q # <<>>
        PROVE  /\ Head(q) \in Item /\ Tail(q) \in Seq(Item)
               /\ \A i \in DOMAIN q :
                    q[i] = Head(q) \/ (i - 1 \in DOMAIN Tail(q) /\ q[i] = Tail(q)[i - 1])
    BY <2>1
  <2> QED BY <1>1, <2>1 DEF BuilderInv, LedgerInv, Types
<1>3. t \in Texts /\ "fact" \in Kinds BY <1>2 DEF Item, Kinds
<1> HIDE DEF t
<1>4. /\ Evolves("fact", t) /\ items' \in [Kinds -> Seq(Item)] /\ made' \in Nat
      /\ t \in TextsOf(items'["fact"])
      /\ \A y \in Listed("unknown")' : y \in Listed("unknown") \/ y.status = "open"
  BY <1>1, <1>3, MergeEvolves DEF BuilderInv
<1>5. Types' BY <1>1, <1>2, <1>4 DEF BuilderInv, LedgerInv, Types
<1>6. AsideInv' /\ KeysInv' BY <1>1 DEF BuilderInv, LedgerInv, AsideInv, KeysInv
<1>7. AnsweredInv'
  <2>1. OnRecord("fact") BY <1>3, <1>4 DEF Evolves
  <2>2. TextsOf(answered) \subseteq TextsOf(answered') \cup TextsOf(items'["fact"])
    <3> SUFFICES ASSUME NEW i \in DOMAIN answered
                 PROVE  answered[i].text \in TextsOf(answered') \cup TextsOf(items'["fact"])
      BY DEF TextsOf
    <3>1. CASE answered[i] = Head(answered) BY <1>4, <3>1 DEF t
    <3>2. CASE \E j \in DOMAIN Tail(answered) : answered[i] = Tail(answered)[j]
      BY <1>1, <3>2 DEF TextsOf
    <3> QED BY <1>2, <3>1, <3>2
  <2> QED BY <1>1, <1>4, <2>1, <2>2, AnsweredStays DEF BuilderInv
<1> QED BY <1>3, <1>4, <1>5, <1>6, <1>7 DEF StepStands

\* A step that writes no item: a loop begins or ends.
LEMMA QuietStep ==
  ASSUME BuilderInv, UNCHANGED <<items, made, aside, answered>>,
         heard' \subseteq Texts, keys' \in [{"fact", "claim"} -> SUBSET Texts], KeysInv',
         aside # <<>> => phase' = "unknowns",
         answered # <<>> => phase' \in {"unknowns", "promotion"}
  PROVE  StepStands
<1>1. \A k \in Kinds : Listed(k)' = Listed(k) BY SameList
<1>2. "unknown" \in Kinds /\ "fact" \in Kinds BY DEF Kinds
<1>3. Evolves("unknown", "none")
  BY <1>1, StillEvolves DEF BuilderInv, LedgerInv, Types
<1>4. Types' BY DEF BuilderInv, LedgerInv, Types
<1>5. AsideInv' BY DEF BuilderInv, LedgerInv, AsideInv
<1>6. AnsweredInv' BY <1>1, <1>2, AnsweredStays, SameListEvolves DEF BuilderInv
<1> QED BY <1>2, <1>3, <1>4, <1>5, <1>6 DEF StepStands

LEMMA TurnSteps ==
  ASSUME BuilderInv, BeginTurn \/ Judged \/ BeginCorrections \/ EndTurn
  PROVE  StepStands
<1>0. /\ aside # <<>> => phase = "unknowns"
      /\ answered # <<>> => phase \in {"unknowns", "promotion"}
      /\ heard \subseteq Texts /\ keys \in [{"fact", "claim"} -> SUBSET Texts]
  BY DEF BuilderInv, LedgerInv, Types, AsideInv, AnsweredInv
<1>1. CASE BeginTurn
  <2>1. KeysInv' BY <1>1 DEF BeginTurn, KeysInv
  <2> QED BY <1>0, <1>1, <2>1, QuietStep DEF BeginTurn
<1>2. CASE Judged
  <2>1. KeysInv' BY <1>2 DEF Judged, KeysInv
  <2>2. aside = <<>> /\ answered = <<>> BY <1>0, <1>2 DEF Judged
  <2> QED BY <1>0, <1>2, <2>1, <2>2, QuietStep DEF Judged
<1>3. CASE BeginCorrections
  <2>1. keys' = [k \in {"fact", "claim"} |-> {items[k][i].text : i \in Active(k, Texts)}]
    BY <1>3 DEF BeginCorrections
  <2>2. ASSUME NEW k \in {"fact", "claim"}
        PROVE  /\ {items[k][i].text : i \in Active(k, Texts)} \subseteq Texts
               /\ \A i \in DOMAIN items[k] : items[k][i].status = "active" =>
                    items[k][i].text \in {items[k][j].text : j \in Active(k, Texts)}
    <3>1. k \in Kinds /\ \A i \in DOMAIN items[k] : items[k][i] \in Item
      BY ItemsTyped DEF Kinds, BuilderInv, LedgerInv
    <3>2. \A i \in DOMAIN items[k] : items[k][i].text \in Texts BY <3>1 DEF Item
    <3> QED BY <3>2 DEF Active, Positions
  <2>3. keys' \in [{"fact", "claim"} -> SUBSET Texts] BY <2>1, <2>2
  <2>4. KeysInv'
    <3>1. items' = items BY <1>3 DEF BeginCorrections
    <3>2. ASSUME NEW k \in {"fact", "claim"}, NEW i \in DOMAIN items[k],
                 items[k][i].status = "active"
          PROVE  items[k][i].text \in keys'[k]
      BY <2>1, <2>2, <3>2
    <3> QED BY <3>1, <3>2 DEF KeysInv
  <2> QED BY <1>0, <1>3, <2>3, <2>4, QuietStep DEF BeginCorrections
<1>4. CASE EndTurn
  <2>1. KeysInv' BY <1>4 DEF EndTurn, KeysInv
  <2>2. keys' \in [{"fact", "claim"} -> SUBSET Texts] BY <1>4 DEF EndTurn
  <2> QED BY <1>0, <1>4, <2>1, <2>2, QuietStep DEF EndTurn
<1> QED BY <1>1, <1>2, <1>3, <1>4

LEMMA EndLoopStep ==
  ASSUME BuilderInv,
         NEW loop \in {"facts", "claims", "goals", "goal_updates", "decisions"},
         NEW next \in {"claims", "goals", "goal_updates", "decisions", "decision_events"},
         EndLoop(loop, next)
  PROVE  StepStands
<1>1. phase = loop /\ phase' = next /\ UNCHANGED <<items, made, heard, aside, answered, keys>>
  BY DEF EndLoop, locals
<1>2. aside = <<>> /\ answered = <<>>
  BY <1>1 DEF BuilderInv, LedgerInv, AsideInv, AnsweredInv
<1>3. KeysInv' BY <1>1 DEF KeysInv
<1> QED BY <1>1, <1>2, <1>3, QuietStep DEF BuilderInv, LedgerInv, Types

-----------------------------------------------------------------------------
(* Corrections.                                                            *)

\* First is the least position there is.
LEMMA FirstIs ==
  ASSUME NEW n \in Nat, NEW I \in SUBSET (1..n), I # {}
  PROVE  First(I) \in I /\ \A j \in I : First(I) <= j
<1>1. Cardinality(I) \in Nat /\ Cardinality(I) # 0 /\ IsFiniteSet(I)
  BY UpTo, FS_Subset, FS_CardinalityType, FS_EmptySet
<1>2. PICK i \in I : Ordinal(i, I) = 1
  <2>1. 1 \in 1..Cardinality(I) BY <1>1
  <2> QED BY <2>1, Ordinals
<1>3. ASSUME NEW j \in I PROVE i <= j
  <2> SUFFICES ASSUME j < i PROVE FALSE OBVIOUS
  <2> DEFINE S == {h \in I : h <= i}
  <2>1. S \subseteq I /\ i \in S /\ j \in S /\ i # j OBVIOUS
  <2>2. Cardinality(S) = 1 BY <1>2 DEF Ordinal
  <2> HIDE DEF S
  <2>3. IsFiniteSet(S) BY <1>1, <2>1, FS_Subset
  <2>4. {i} \subseteq S /\ IsFiniteSet({i}) /\ Cardinality({i}) = 1 BY <2>1, FS_Singleton
  <2>5. {i} = S BY <2>2, <2>3, <2>4, FS_Subset
  <2> QED BY <2>1, <2>5
<1> QED BY <1>3 DEF First

\* What a correction is about is a fact or a claim in force.
LEMMA TargetIs ==
  ASSUME Types, NEW t, Hits(t) # {}
  PROVE  /\ TargetKind(t) \in {"fact", "claim"}
         /\ Target(t) \in DOMAIN items[TargetKind(t)]
         /\ items[TargetKind(t)][Target(t)].status = "active"
<1> DEFINE n == First(Hits(t))
<1>1. Hits(t) \in SUBSET (1..4) BY DEF Hits
<1>2. n \in Hits(t) BY <1>1, FirstIs
<1> HIDE DEF n
<1>3. n \in 1..4 /\ Active(Searches(t)[n][1], Searches(t)[n][2]) # {}
  BY <1>2 DEF Hits
<1>4. TargetKind(t) = Searches(t)[n][1] BY DEF TargetKind, n
<1>5. TargetKind(t) \in {"fact", "claim"}
  <2>1. n = 1 \/ n = 2 \/ n = 3 \/ n = 4 BY <1>3
  <2> QED BY <1>4, <2>1 DEF Searches
<1> DEFINE k == TargetKind(t)
           T == Searches(t)[n][2]
           I == Active(k, T)
<1>6. I # {} BY <1>3, <1>4
<1>7. Target(t) = First(I) BY DEF Target, n
<1>8. k \in Kinds /\ items[k] \in Seq(Item)
  <2>1. k \in Kinds BY <1>5 DEF Kinds
  <2> QED BY <2>1, ItemsTyped
<1> HIDE DEF k, T
<1>9. I \in SUBSET (1..Len(items[k])) /\ Len(items[k]) \in Nat
  BY <1>8 DEF Active, Positions
<1>10. First(I) \in I BY <1>6, <1>9, FirstIs
<1>11. First(I) \in DOMAIN items[k] /\ items[k][First(I)].status = "active"
  BY <1>10 DEF Active, Positions
<1> QED BY <1>5, <1>7, <1>11 DEF k

\* An item is taken out of force, and nothing is said in its place.
LEMMA MarkStep ==
  ASSUME BuilderInv, NEW k \in {"fact", "claim"}, NEW i \in DOMAIN items[k],
         NEW status \in {"superseded", "retracted"},
         items' = [items EXCEPT ![k][i].status = status],
         UNCHANGED <<made, phase, heard, aside, answered, keys>>
  PROVE  StepStands
<1>0. Types /\ AsideInv /\ KeysInv /\ AnsweredInv BY DEF BuilderInv, LedgerInv
<1>1. k \in Kinds \ {"unknown"} /\ status \in Marks /\ status # "active" /\ items[k] \in Seq(Item)
  <2>1. k \in Kinds \ {"unknown"} BY DEF Kinds
  <2> QED BY <1>0, <2>1, ItemsTyped DEF Marks
<1>2. /\ Evolves(k, "none") /\ items' \in [Kinds -> Seq(Item)]
      /\ \A j \in Kinds : j # k => items'[j] = items[j]
  BY <1>0, <1>1, MarkEvolves
<1> DEFINE r == Mark(items[k], i, status)
<1>3. /\ DOMAIN r = DOMAIN items[k]
      /\ \A j \in DOMAIN items[k] : r[j].text = items[k][j].text
      /\ \A j \in DOMAIN items[k] : j # i => r[j] = items[k][j]
      /\ r[i].status = status
  BY <1>1, Marked
<1>4. items'[k] = r BY <1>0, <1>1 DEF Types, Mark
<1> HIDE DEF r
<1>5. KeysInv'
  <2> SUFFICES ASSUME phase' = "corrections", NEW m \in {"fact", "claim"},
                      NEW j \in DOMAIN items'[m], items'[m][j].status = "active"
               PROVE  items'[m][j].text \in keys'[m]
    BY DEF KeysInv
  <2>1. CASE m = k BY <1>0, <1>1, <1>3, <1>4, <2>1 DEF KeysInv
  <2>2. CASE m # k BY <1>0, <1>2, <2>2 DEF KeysInv, Kinds
  <2> QED BY <2>1, <2>2
<1>6. Types' /\ AsideInv' BY <1>0, <1>2 DEF Types, AsideInv
<1>7. AnsweredInv'
  <2>1. "fact" \in Kinds /\ "unknown" \in Kinds BY DEF Kinds
  <2>2. OnRecord("fact") /\ Listed("unknown")' = Listed("unknown")
    BY <1>1, <1>2, <2>1, SameList DEF Evolves
  <2>3. answered' # <<>> => phase' \in {"unknowns", "promotion"} BY <1>0 DEF AnsweredInv
  <2> QED BY <1>0, <2>2, <2>3, AnsweredStays
<1> QED BY <1>1, <1>2, <1>5, <1>6, <1>7 DEF StepStands

\* An item is taken out of force and another comes in its place.  Every
\* active text has its key, so the new one, which has none, is not active.
LEMMA ReplaceStep ==
  ASSUME BuilderInv, phase = "corrections",
         NEW k \in {"fact", "claim"}, NEW i \in DOMAIN items[k], NEW c \in Texts \ keys[k],
         items' = [items EXCEPT ![k] = Append(Mark(items[k], i, "superseded"), New(k, c))],
         made' = made + 1, keys' = [keys EXCEPT ![k] = @ \cup {c}],
         UNCHANGED <<phase, heard, aside, answered>>
  PROVE  StepStands
<1> DEFINE q == Mark(items[k], i, "superseded")
           e == New(k, c)
<1>0. Types /\ AsideInv /\ KeysInv /\ AnsweredInv BY DEF BuilderInv, LedgerInv
<1>1. /\ k \in Kinds /\ k # "unknown" /\ items \in [Kinds -> Seq(Item)] /\ items[k] \in Seq(Item)
      /\ made \in Nat /\ keys \in [{"fact", "claim"} -> SUBSET Texts]
  <2>1. k \in Kinds BY DEF Kinds
  <2> QED BY <1>0, <2>1 DEF Types
<1>2. e \in Item /\ e.id = made + 1 /\ e.text = c
  <2>1. Fresh(k) \in Marks /\ made + 1 \in Nat BY <1>1 DEF Fresh, Marks
  <2>2. e = [id |-> made + 1, text |-> c, status |-> Fresh(k)] BY DEF New
  <2> HIDE DEF e
  <2> QED BY <2>1, <2>2 DEF Item
<1>3. /\ q \in Seq(Item) /\ DOMAIN q = DOMAIN items[k]
      /\ \A j \in DOMAIN items[k] : q[j].id = items[k][j].id /\ q[j].text = items[k][j].text
      /\ \A j \in DOMAIN items[k] : j # i => q[j] = items[k][j]
      /\ q[i].status = "superseded"
  <2>1. "superseded" \in Marks BY DEF Marks
  <2> QED BY <1>1, <2>1, Marked
<1> HIDE DEF q, e
<1>4. items' = [items EXCEPT ![k] = Append(q, e)] BY DEF q, e
<1>5. ASSUME NEW j \in DOMAIN q, q[j].status = "active"
      PROVE  j # i /\ q[j] = items[k][j] /\ q[j].text \in keys[k]
  BY <1>0, <1>3, <1>5 DEF KeysInv
<1>6. Evolves(k, e.text)
  <2>1. \A m \in DOMAIN items[k] :
          \E j \in DOMAIN q : q[j].id = items[k][m].id /\ q[j].text = items[k][m].text
    BY <1>3
  <2>2. \A j \in DOMAIN q : \E m \in DOMAIN items[k] :
          /\ items[k][m].id = q[j].id /\ items[k][m].text = q[j].text
          /\ InForce(k, q[j]) => InForce(k, items[k][m])
    BY <1>3, <1>5 DEF InForce
  <2>3. ASSUME NEW x \in Listed(k), InForce(k, x) PROVE x.text # e.text
    <3>1. PICK j \in DOMAIN items[k] : x = items[k][j] BY <1>1 DEF Listed
    <3>2. x.text \in keys[k] BY <1>0, <2>3, <3>1 DEF KeysInv, InForce
    <3> QED BY <1>2, <3>2
  <2>4. UNCHANGED aside OBVIOUS
  <2> QED BY <1>0, <1>1, <1>2, <1>3, <1>4, <2>1, <2>2, <2>3, <2>4, AppendEvolves
<1>7. /\ Append(q, e) \in Seq(Item)
      /\ \A j \in DOMAIN Append(q, e) :
           (j \in DOMAIN q /\ Append(q, e)[j] = q[j]) \/ Append(q, e)[j] = e
  BY <1>2, <1>3
<1>8. /\ items' \in [Kinds -> Seq(Item)] /\ items'[k] = Append(q, e)
      /\ \A j \in Kinds : j # k => items'[j] = items[j]
  BY <1>1, <1>4, <1>7
<1>9. KeysInv'
  <2> SUFFICES ASSUME NEW m \in {"fact", "claim"}, NEW j \in DOMAIN items'[m],
                      items'[m][j].status = "active"
               PROVE  items'[m][j].text \in keys'[m]
    BY DEF KeysInv
  <2>1. CASE m = k
    <3>1. keys'[k] = keys[k] \cup {c} BY <1>1
    <3> QED BY <1>2, <1>5, <1>7, <1>8, <2>1, <3>1
  <2>2. CASE m # k
    <3>1. keys'[m] = keys[m] /\ items'[m] = items[m] BY <1>1, <1>8, <2>2 DEF Kinds
    <3> QED BY <1>0, <3>1 DEF KeysInv
  <2> QED BY <2>1, <2>2
<1>10. Types'
  <2>1. keys' \in [{"fact", "claim"} -> SUBSET Texts] /\ made' \in Nat BY <1>1
  <2> QED BY <1>0, <1>8, <2>1 DEF Types
<1>11. AsideInv' BY <1>0 DEF AsideInv
<1>12. AnsweredInv'
  <2>1. "fact" \in Kinds /\ "unknown" \in Kinds BY DEF Kinds
  <2>2. OnRecord("fact") /\ Listed("unknown")' = Listed("unknown")
    BY <1>1, <1>6, <1>8, <2>1, SameList DEF Evolves
  <2>3. answered' # <<>> => phase' \in {"unknowns", "promotion"} BY <1>0 DEF AnsweredInv
  <2> QED BY <1>0, <2>2, <2>3, AnsweredStays
<1> QED BY <1>1, <1>6, <1>9, <1>10, <1>11, <1>12 DEF StepStands

\* The two things Supersede may do.
Retires(t, status) ==
  /\ items' = [items EXCEPT ![TargetKind(t)][Target(t)].status = status]
  /\ UNCHANGED <<made, keys>>
Replaces(t, c) ==
  /\ c \notin keys[TargetKind(t)]
  /\ items' = [items EXCEPT ![TargetKind(t)] =
                 Append(Mark(items[TargetKind(t)], Target(t), "superseded"), New(TargetKind(t), c))]
  /\ made' = made + 1
  /\ keys' = [keys EXCEPT ![TargetKind(t)] = @ \cup {c}]

LEMMA SupersedeIs ==
  ASSUME Types, NEW t, NEW c, Supersede(t, c)
  PROVE  Retires(t, "superseded") \/ Replaces(t, c)
<1> DEFINE k == TargetKind(t)
           marked == [items EXCEPT ![k][Target(t)].status = "superseded"]
<1>1. Hits(t) # {} BY DEF Supersede
<1>2. k \in Kinds /\ items \in [Kinds -> Seq(Item)]
  BY <1>1, TargetIs DEF Types, Kinds
<1>3. IF c \in keys[k]
        THEN items' = marked /\ UNCHANGED <<made, keys>>
        ELSE /\ items' = [marked EXCEPT ![k] = Append(@, New(k, c))]
             /\ made' = made + 1
             /\ keys' = [keys EXCEPT ![k] = @ \cup {c}]
  BY DEF Supersede
<1>4. /\ marked[k] = Mark(items[k], Target(t), "superseded")
      /\ \A e : [marked EXCEPT ![k] = e] = [items EXCEPT ![k] = e]
  <2> HIDE DEF k
  <2> QED BY <1>2 DEF Mark
<1>5. [marked EXCEPT ![k] = Append(@, New(k, c))] =
        [items EXCEPT ![k] = Append(Mark(items[k], Target(t), "superseded"), New(k, c))]
  <2>1. [marked EXCEPT ![k] = Append(@, New(k, c))] =
          [marked EXCEPT ![k] = Append(marked[k], New(k, c))]
    OBVIOUS
  <2> HIDE DEF marked, k
  <2> QED BY <1>4, <2>1
<1> QED BY <1>3, <1>5 DEF Retires, Replaces

LEMMA CorrectionStep ==
  ASSUME BuilderInv, NEW t \in Texts,
         Retract(t) \/ \E c \in Texts : Supersede(t, c)
  PROVE  StepStands
<1> DEFINE k == TargetKind(t)
           i == Target(t)
<1>1. Hits(t) # {} /\ phase = "corrections" BY DEF Retract, Supersede, Input
<1>2. k \in {"fact", "claim"} /\ i \in DOMAIN items[k]
  BY <1>1, TargetIs DEF BuilderInv, LedgerInv
<1> HIDE DEF k, i
<1>3. CASE Retract(t)
  <2>1. /\ items' = [items EXCEPT ![k][i].status = "retracted"]
        /\ UNCHANGED <<made, phase, heard, aside, answered, keys>>
    BY <1>3 DEF Retract, k, i
  <2> QED BY <1>2, <2>1, MarkStep
<1>4. CASE \E c \in Texts : Supersede(t, c)
  <2>1. PICK c \in Texts : Supersede(t, c) BY <1>4
  <2>2. UNCHANGED <<phase, heard, aside, answered>> BY <2>1 DEF Supersede
  <2>3. CASE Retires(t, "superseded")
    BY <1>2, <2>2, <2>3, MarkStep DEF Retires, k, i
  <2>4. CASE Replaces(t, c)
    BY <1>1, <1>2, <2>2, <2>4, ReplaceStep DEF Replaces, k, i
  <2> QED BY <2>1, <2>3, <2>4, SupersedeIs DEF BuilderInv, LedgerInv
<1> QED BY <1>3, <1>4

-----------------------------------------------------------------------------
(* The theorems.                                                           *)

LEMMA NextStands ==
  ASSUME BuilderInv, Next
  PROVE  StepStands
<1>1. CASE BeginTurn \/ Judged \/ BeginCorrections \/ EndTurn BY <1>1, TurnSteps
<1>2. ASSUME NEW t \in Texts,
             \/ Hear("facts", "fact", t) \/ Hear("claims", "claim", t)
             \/ Hear("goals", "goal", t) \/ Hear("decisions", "decision", t)
             \/ Hear("unknowns", "unknown", t)
      PROVE  StepStands
  BY <1>2, HearStep DEF Kinds
<1>3. ASSUME NEW t \in Texts, NEW s \in Statuses["goal"], UpdateGoal(t, s)
      PROVE  StepStands
  <2>1. s \in Marks BY DEF Statuses, Marks
  <2> QED BY <1>3, <2>1, TransitionStep DEF UpdateGoal, Input
<1>4. ASSUME NEW t \in Texts, NEW e \in DOMAIN EventStatus, Decide(t, e)
      PROVE  StepStands
  <2>1. EventStatus[e] \in Marks BY DEF EventStatus, Marks
  <2> QED BY <1>4, <2>1, TransitionStep DEF Decide, Input
<1>5. ASSUME NEW t \in Texts, NEW s \in {"resolved", "deferred"}, Resolve(t, s)
      PROVE  StepStands
  <2>1. s \in Marks BY DEF Marks
  <2> QED BY <1>5, <2>1, TransitionStep DEF Resolve, Input
<1>6. CASE \/ EndLoop("facts", "claims") \/ EndLoop("claims", "goals")
           \/ EndLoop("goals", "goal_updates") \/ EndLoop("goal_updates", "decisions")
           \/ EndLoop("decisions", "decision_events")
  BY <1>6, EndLoopStep
<1>7. CASE Reconcile \/ Rejoin \/ Promote BY <1>7, ReconcileStep, RejoinStep, PromoteStep
<1>8. ASSUME NEW t \in Texts, Retract(t) \/ \E c \in Texts : Supersede(t, c)
      PROVE  StepStands
  BY <1>8, CorrectionStep
<1> QED BY <1>1, <1>2, <1>3, <1>4, <1>5, <1>6, <1>7, <1>8 DEF Next, UpdateState, ApplyJudgment

LEMMA StandsWhenIdle ==
  ASSUME BuilderInv, UNCHANGED vars
  PROVE  StepStands
BY QuietStep DEF vars, locals, BuilderInv, LedgerInv, Types, AsideInv, KeysInv, AnsweredInv

\* The invariant: the ledger's bookkeeping, the keys that corrections go by,
\* and where the answers to resolved questions are.
LEMMA BuilderInvariant ==
  Spec => []BuilderInv
<1>1. Init => BuilderInv
  <2> SUFFICES ASSUME Init PROVE BuilderInv OBVIOUS
  <2>1. /\ \A k \in Kinds : items[k] = <<>> /\ Listed(k) = {}
        /\ items["fact"] = <<>> /\ items["claim"] = <<>> /\ Listed("unknown") = {}
    BY DEF Init, Listed, Kinds
  <2>2. Types /\ AsideInv BY DEF Init, Types, AsideInv
  <2>3. KeysInv /\ IdsGiven /\ OneInForce BY <2>1 DEF Init, KeysInv, IdsGiven, OneInForce
  <2>4. AnsweredInv BY <2>1 DEF Init, AnsweredInv
  <2> QED BY <2>2, <2>3, <2>4 DEF BuilderInv, LedgerInv
<1>2. BuilderInv /\ [Next]_vars => BuilderInv'
  <2> SUFFICES ASSUME BuilderInv, [Next]_vars PROVE BuilderInv' OBVIOUS
  <2>1. StepStands BY NextStands, StandsWhenIdle
  <2>2. IdsGiven' /\ OneInForce'
    BY <2>1, EvolvesKeepsInv DEF StepStands, BuilderInv, LedgerInv, Types
  <2> QED BY <2>1, <2>2 DEF StepStands, BuilderInv, LedgerInv
<1> QED BY <1>1, <1>2, PTL DEF Spec

\* "Resolved unknowns become facts" (builder.py, _reconcile_unknowns and the
\* promotion after it): after any turn, a question that is resolved has its
\* text among the facts.
THEOREM AnsweredStaysFact ==
  Spec => []AnsweredIsFact
<1>1. BuilderInv => AnsweredIsFact
  <2> SUFFICES ASSUME BuilderInv, phase \in {"idle", "judgment", "corrections"},
                      NEW i \in DOMAIN items["unknown"],
                      items["unknown"][i].status = "resolved"
               PROVE  Positions(items["fact"], {items["unknown"][i].text}) # {}
    BY DEF AnsweredIsFact
  <2>1. answered = <<>> /\ items["unknown"][i] \in Listed("unknown")
    BY DEF BuilderInv, AnsweredInv, Listed
  <2>2. TextsOf(answered) = {} BY <2>1 DEF TextsOf
  <2>3. items["unknown"][i].text \in TextsOf(items["fact"])
    BY <2>1, <2>2 DEF BuilderInv, AnsweredInv
  <2> QED BY <2>3 DEF TextsOf, Positions
<1> QED BY <1>1, BuilderInvariant, PTL

\* "Nothing is silently deleted" (world_state.py): the lists of a WorldState
\* implement the ledger, whose entries and whose entries in force they are.
THEOREM LedgerImplemented ==
  Spec => NothingForgotten
<1>1. Init => Ledger!Init
  <2> SUFFICES ASSUME Init PROVE Ledger!Init OBVIOUS
  <2>1. \A k \in Kinds : Listed(k) = {} BY DEF Init, Listed, Kinds
  <2>2. Entries = {} /\ Live = {} BY <2>1, EntriesAre
  <2> QED BY <2>2 DEF Ledger!Init, Entries, Live
<1>2. BuilderInv /\ BuilderInv' /\ [Next]_vars => [Ledger!Revise]_(Ledger!vars)
  <2> SUFFICES ASSUME BuilderInv, BuilderInv', [Next]_vars PROVE Ledger!Revise OBVIOUS
  <2>1. StepStands BY NextStands, StandsWhenIdle
  <2> QED BY <2>1, EvolvesRevises DEF StepStands, BuilderInv, LedgerInv, Types
<1> QED BY <1>1, <1>2, BuilderInvariant, PTL DEF Spec, NothingForgotten, Ledger!Spec

\* The items of a list that are active.
ActiveIn(q) == {j \in DOMAIN q : q[j].status = "active"}
LEMMA ActiveIs ==
  ASSUME Types, NEW k \in Kinds
  PROVE  Active(k, Texts) = ActiveIn(items[k])
BY ItemsTyped DEF Active, Positions, ActiveIn, Item

LEMMA ActiveFinite ==
  ASSUME NEW q \in Seq(Item)
  PROVE  IsFiniteSet(ActiveIn(q)) /\ Cardinality(ActiveIn(q)) \in Nat
<1>1. Len(q) \in Nat /\ ActiveIn(q) \subseteq 1..Len(q) BY DEF ActiveIn
<1> QED BY <1>1, UpTo, FS_Subset, FS_CardinalityType

\* Neither retiring an active item nor putting another in its place makes
\* them more.
LEMMA RetiredCount ==
  ASSUME NEW q \in Seq(Item), NEW i \in DOMAIN q, q[i].status = "active",
         NEW status \in {"superseded", "retracted"}
  PROVE  /\ Cardinality(ActiveIn(Mark(q, i, status))) <= Cardinality(ActiveIn(q))
         /\ \A e \in Item : Cardinality(ActiveIn(Append(Mark(q, i, status), e)))
                              <= Cardinality(ActiveIn(q))
<1> DEFINE r == Mark(q, i, status)
           was == ActiveIn(q)
           now == ActiveIn(r)
<1>1. /\ r \in Seq(Item) /\ DOMAIN r = DOMAIN q
      /\ \A j \in DOMAIN q : j # i => r[j] = q[j]
      /\ r[i].status = status
  <2>1. status \in Marks BY DEF Marks
  <2> QED BY <2>1, Marked
<1> HIDE DEF r
<1>2. now = was \ {i} /\ i \in was BY <1>1 DEF ActiveIn
<1>3. IsFiniteSet(was) /\ Cardinality(was) \in Nat BY ActiveFinite
<1> HIDE DEF was, now
<1>4. IsFiniteSet(now) /\ Cardinality(now) = Cardinality(was) - 1
  BY <1>2, <1>3, FS_RemoveElement
<1>5. ASSUME NEW e \in Item
      PROVE  Cardinality(ActiveIn(Append(r, e))) <= Cardinality(was)
  <2> DEFINE n == Len(r) + 1
             with == now \cup {n}
  <2>1. /\ \A j \in DOMAIN Append(r, e) : (j \in DOMAIN r /\ Append(r, e)[j] = r[j]) \/ j = n
    BY <1>1
  <2>2. ActiveIn(Append(r, e)) \subseteq with BY <2>1 DEF ActiveIn, now
  <2> HIDE DEF n
  <2>3. IsFiniteSet(with) /\ Cardinality(with) \in {Cardinality(now), Cardinality(now) + 1}
    BY <1>4, FS_AddElement
  <2>4. Cardinality(ActiveIn(Append(r, e))) <= Cardinality(with) BY <2>2, <2>3, FS_Subset
  <2>5. Append(r, e) \in Seq(Item) BY <1>1
  <2>6. Cardinality(ActiveIn(Append(r, e))) \in Nat BY <2>5, ActiveFinite
  <2> QED BY <1>3, <1>4, <2>3, <2>4, <2>6
<1> QED BY <1>3, <1>4, <1>5 DEF r, was, now

\* "Corrections never add to what is known" (apply_knowledge_corrections,
\* which Judgment may run again on the same texts turn after turn): in its
\* loop no step has more facts and claims active after it than before.
THEOREM CorrectionsConsolidate ==
  Spec => OnlyConsolidates
<1>1. ASSUME BuilderInv, BuilderInv', Next, phase = "corrections"
      PROVE  /\ \A k \in {"fact", "claim"} :
                  Cardinality(ActiveIn(items'[k])) <= Cardinality(ActiveIn(items[k]))
  <2>0. /\ \A k \in {"fact", "claim"} : k \in Kinds /\ items[k] \in Seq(Item)
        /\ Types
    BY <1>1, ItemsTyped DEF Kinds, BuilderInv, LedgerInv
  <2>1. (\E t \in Texts : Retract(t) \/ \E c \in Texts : Supersede(t, c)) \/ UNCHANGED items
    BY <1>1 DEF Next, UpdateState, ApplyJudgment, BeginTurn, Hear, UpdateGoal, Decide, Input,
                EndLoop, Reconcile, Rejoin, Promote, Judged, Resolve, BeginCorrections, EndTurn
  <2>2. CASE UNCHANGED items
    <3>1. \A k \in {"fact", "claim"} : Cardinality(ActiveIn(items[k])) \in Nat
      BY <2>0, ActiveFinite
    <3> QED BY <2>2, <3>1
  <2>3. CASE \E t \in Texts : Retract(t) \/ \E c \in Texts : Supersede(t, c)
    <3>1. PICK t \in Texts : Retract(t) \/ \E c \in Texts : Supersede(t, c) BY <2>3
    <3> DEFINE k == TargetKind(t)
               i == Target(t)
    <3>2. /\ k \in {"fact", "claim"} /\ i \in DOMAIN items[k] /\ items[k][i].status = "active"
      BY <2>0, <3>1, TargetIs DEF Retract, Supersede
    <3> HIDE DEF k, i
    <3>3. \/ \E status \in {"superseded", "retracted"} :
               items' = [items EXCEPT ![k] = Mark(items[k], i, status)]
          \/ \E e \in Item : items' = [items EXCEPT ![k] = Append(Mark(items[k], i, "superseded"), e)]
      <4>1. CASE Retract(t) BY <4>1 DEF Retract, Mark, k, i
      <4>2. CASE \E c \in Texts : Supersede(t, c)
        <5>1. PICK c \in Texts : Supersede(t, c) BY <4>2
        <5>2. CASE Retires(t, "superseded") BY <5>2 DEF Retires, Mark, k, i
        <5>3. CASE Replaces(t, c)
          <6>1. New(k, c) \in Item
            <7>1. made + 1 \in Nat /\ Fresh(k) \in Marks
              BY <2>0, <3>2 DEF Types, Fresh, Marks
            <7> QED BY <7>1 DEF New, Item
          <6> QED BY <5>3, <6>1 DEF Replaces, k, i
        <5> QED BY <2>0, <5>1, <5>2, <5>3, SupersedeIs
      <4> QED BY <3>1, <4>1, <4>2
    <3>4. /\ \A m \in {"fact", "claim"} : m # k => items'[m] = items[m]
          /\ \/ \E status \in {"superseded", "retracted"} : items'[k] = Mark(items[k], i, status)
             \/ \E e \in Item : items'[k] = Append(Mark(items[k], i, "superseded"), e)
      BY <2>0, <3>2, <3>3 DEF Types
    <3>5. Cardinality(ActiveIn(items'[k])) <= Cardinality(ActiveIn(items[k]))
      BY <2>0, <3>2, <3>4, RetiredCount
    <3>6. \A m \in {"fact", "claim"} : Cardinality(ActiveIn(items[m])) \in Nat
      BY <2>0, ActiveFinite
    <3> QED BY <3>4, <3>5, <3>6
  <2> QED BY <2>1, <2>2, <2>3
<1>2. ASSUME BuilderInv, BuilderInv', [Next]_vars, phase = "corrections"
      PROVE  Cardinality(Active("fact", Texts))' + Cardinality(Active("claim", Texts))'
               <= Cardinality(Active("fact", Texts)) + Cardinality(Active("claim", Texts))
  <2>1. \A k \in {"fact", "claim"} :
          /\ Active(k, Texts) = ActiveIn(items[k]) /\ Active(k, Texts)' = ActiveIn(items'[k])
          /\ Cardinality(ActiveIn(items[k])) \in Nat /\ Cardinality(ActiveIn(items'[k])) \in Nat
    <3>1. Types /\ Types' /\ \A k \in {"fact", "claim"} : k \in Kinds
      BY <1>2 DEF BuilderInv, LedgerInv, Kinds
    <3>2. \A k \in {"fact", "claim"} : items[k] \in Seq(Item) /\ items'[k] \in Seq(Item)
      BY <3>1 DEF Types
    <3>3. ASSUME NEW k \in {"fact", "claim"} PROVE Active(k, Texts)' = ActiveIn(items'[k])
      <4>1. \A i \in DOMAIN items'[k] : items'[k][i] \in Item BY <3>2
      <4>2. \A i \in DOMAIN items'[k] : items'[k][i].text \in Texts BY <4>1 DEF Item
      <4> QED BY <4>2 DEF Active, Positions, ActiveIn
    <3> QED BY <3>1, <3>2, <3>3, ActiveIs, ActiveFinite
  <2>2. \A k \in {"fact", "claim"} :
          Cardinality(ActiveIn(items'[k])) <= Cardinality(ActiveIn(items[k]))
    <3>1. CASE Next BY <1>1, <1>2, <3>1
    <3>2. CASE UNCHANGED vars
      <4>1. items' = items BY <3>2 DEF vars
      <4> QED BY <2>1, <4>1
    <3> QED BY <1>2, <3>1, <3>2
  <2> QED BY <2>1, <2>2
<1>3. BuilderInv /\ BuilderInv' /\ [Next]_vars
        => [phase = "corrections" =>
              Cardinality(Active("fact", Texts))' + Cardinality(Active("claim", Texts))'
                <= Cardinality(Active("fact", Texts)) + Cardinality(Active("claim", Texts))]_vars
  BY <1>2
<1> QED BY <1>3, BuilderInvariant, PTL DEF Spec, OnlyConsolidates
=============================================================================
