------------------------- MODULE StageStream_proofs -------------------------
(***************************************************************************)
(* The progress stream for any number of connections, turns and events.    *)
(***************************************************************************)
EXTENDS StageStream, TLAPS

\* LatestIsRegistered, with where the connection opened last can be.
LatestInv ==
  /\ LatestIsRegistered
  /\ latest # None => conn[latest] \in {"open", "closed"}

-----------------------------------------------------------------------------
LEMMA TypeInit == ASSUME Init PROVE TypeOK
<1>1. <<>> \in Seq(Items) OBVIOUS
<1>2. /\ conn \in [Conns -> ConnStates] /\ queue \in [Conns -> Seq(Items)]
      /\ served \in [Conns -> Seq(Items)] /\ shown \in Seq(Items)
  BY <1>1 DEF Init, ConnStates
<1>3. /\ turn \in [Turns -> TurnStates] /\ entry \in [Turns -> Conns \cup {None}]
      /\ pushed \in [Turns -> 0..MaxEvents] /\ tab \in 0..MaxTurns
  BY BoundAssumption DEF Init, TurnStates
<1> QED BY <1>2, <1>3 DEF Init, TypeOK

LEMMA ItemTypes ==
  ASSUME NEW t \in Turns, NEW n \in 0..MaxEvents
  PROVE  Item(t, n) \in Items
BY DEF Item, Items

\* A queue grows at its end and shrinks at its head.
LEMMA PutTypes ==
  ASSUME TypeOK, NEW t \in Turns, NEW item \in Items, Put(t, item)
  PROVE  queue' \in [Conns -> Seq(Items)]
BY DEF TypeOK, Put, None

LEMMA CloseTypes ==
  ASSUME TypeOK, NEW c \in Conns, Close(c)
  PROVE  conn' \in [Conns -> ConnStates] /\ registered' \in Conns \cup {None}
BY DEF TypeOK, Close, ConnStates

LEMMA TypeStep == ASSUME TypeOK, [Next]_vars PROVE TypeOK'
<1> USE DEF serverVars, turnVars, tabVars, history
<1>1. CASE UNCHANGED vars BY <1>1 DEF TypeOK, vars
<1>2. ASSUME NEW c \in Conns, Send(c) PROVE TypeOK'
  <2>1. tab + 1 \in Turns /\ tab' \in 0..MaxTurns
    BY <1>2, BoundAssumption DEF Send, TypeOK, Turns
  <2>2. conn' \in [Conns -> ConnStates] /\ turn' \in [Turns -> TurnStates]
    BY <1>2, <2>1 DEF Send, TypeOK, ConnStates, TurnStates
  <2>3. shown' \in Seq(Items) BY <1>2 DEF Send
  <2> QED BY <1>2, <2>1, <2>2, <2>3 DEF Send, TypeOK
<1>3. ASSUME NEW c \in Conns, Reconnect(c) PROVE TypeOK'
  BY <1>3 DEF Reconnect, TypeOK, ConnStates
<1>4. CASE ReceiveResponse \/ GiveUp
  <2>1. Settle BY <1>4 DEF ReceiveResponse, GiveUp
  <2>3. patient' \in BOOLEAN
    <3>1. CASE ReceiveResponse BY <3>1 DEF ReceiveResponse, TypeOK
    <3>2. CASE GiveUp BY <3>2 DEF GiveUp
    <3> QED BY <1>4, <3>1, <3>2
  <2>2. shown' = <<>> /\ source' = None /\ sending' = FALSE BY <2>1 DEF Settle
  <2>4. shown' \in Seq(Items) BY <2>2
  <2> QED BY <2>1, <2>2, <2>3, <2>4 DEF Settle, TypeOK
<1>5. ASSUME NEW c \in Conns, OpenStream(c) PROVE TypeOK'
  BY <1>5 DEF OpenStream, TypeOK, ConnStates
<1>6. ASSUME NEW c \in Conns, Deliver(c) PROVE TypeOK'
  <2>1. queue[c] \in Seq(Items) /\ queue[c] # <<>> BY <1>6 DEF Deliver, TypeOK
  <2>2. Head(queue[c]) \in Items /\ Tail(queue[c]) \in Seq(Items) BY <2>1
  <2>3. queue' \in [Conns -> Seq(Items)] BY <1>6, <2>2 DEF Deliver, TypeOK
  <2>4. CASE Head(queue[c]).no = 0
    <3>1. Close(c) /\ UNCHANGED <<shown, served>> BY <1>6, <2>4 DEF Deliver
    <3> QED BY <1>6, <2>3, <3>1, CloseTypes DEF Deliver, TypeOK
  <2>5. CASE Head(queue[c]).no # 0
    <3>1. /\ served' = [served EXCEPT ![c] = Append(served[c], Head(queue[c]))]
          /\ shown' = IF source = c THEN Append(shown, Head(queue[c])) ELSE shown
          /\ UNCHANGED <<conn, registered>>
      BY <1>6, <2>5 DEF Deliver
    <3>2. Append(served[c], Head(queue[c])) \in Seq(Items) /\ Append(shown, Head(queue[c])) \in Seq(Items)
      BY <2>2 DEF TypeOK
    <3>3. served' \in [Conns -> Seq(Items)] /\ shown' \in Seq(Items) BY <3>1, <3>2 DEF TypeOK
    <3> QED BY <1>6, <2>3, <3>1, <3>3 DEF Deliver, TypeOK
  <2> QED BY <2>4, <2>5
<1>7. ASSUME NEW c \in Conns, NoticeDisconnect(c) \/ Break(c) PROVE TypeOK'
  <2>1. Close(c) BY <1>7 DEF NoticeDisconnect, Break
  <2> QED BY <1>7, <2>1, CloseTypes DEF NoticeDisconnect, Break, TypeOK
<1>8. ASSUME NEW t \in Turns, StartTurn(t) \/ RaiseTurn(t) \/ StoreTurn(t) PROVE TypeOK'
  <2>1. CASE StartTurn(t) BY <2>1 DEF StartTurn, TypeOK, TurnStates
  <2>2. CASE RaiseTurn(t) BY <2>2 DEF RaiseTurn, TypeOK, TurnStates
  <2>3. CASE StoreTurn(t) BY <2>3 DEF StoreTurn, TypeOK, TurnStates
  <2> QED BY <1>8, <2>1, <2>2, <2>3
<1>9. ASSUME NEW t \in Turns, Push(t) PROVE TypeOK'
  <2>1. pushed[t] + 1 \in 0..MaxEvents BY <1>9, BoundAssumption DEF Push, TypeOK
  <2>2. queue' \in [Conns -> Seq(Items)] BY <1>9, <2>1, ItemTypes, PutTypes DEF Push
  <2>3. pushed' \in [Turns -> 0..MaxEvents] BY <1>9, <2>1 DEF Push, TypeOK
  <2> QED BY <1>9, <2>2, <2>3 DEF Push, TypeOK
<1>10. ASSUME NEW t \in Turns, FinishTurn(t) PROVE TypeOK'
  <2>1. Sentinel(t) \in Items BY ItemTypes, BoundAssumption DEF Sentinel
  <2>2. queue' \in [Conns -> Seq(Items)] BY <1>10, <2>1, PutTypes DEF FinishTurn
  <2> QED BY <1>10, <2>2 DEF FinishTurn, TypeOK, TurnStates
<1> QED BY <1>1, <1>2, <1>3, <1>4, <1>5, <1>6, <1>7, <1>8, <1>9, <1>10 DEF Next, Stream, RunTurn

-----------------------------------------------------------------------------
LEMMA LatestStep == ASSUME TypeOK, LatestInv, [Next]_vars PROVE LatestInv'
<1> USE DEF serverVars, turnVars, tabVars, history
<1>1. None \notin Conns BY DEF None, Conns
<1>2. ASSUME UNCHANGED <<conn, latest, registered>> PROVE LatestInv'
  BY <1>2 DEF LatestInv, LatestIsRegistered
<1>3. ASSUME NEW c \in Conns, conn[c] = "unused", conn' = [conn EXCEPT ![c] = "requested"],
             UNCHANGED <<latest, registered>>
      PROVE  LatestInv'
  <2>1. latest # c BY <1>1, <1>3 DEF LatestInv
  <2> QED BY <1>3, <2>1 DEF LatestInv, LatestIsRegistered, TypeOK
<1>4. ASSUME NEW c \in Conns, conn[c] = "open", Close(c), UNCHANGED latest PROVE LatestInv'
  BY <1>1, <1>4 DEF Close, LatestInv, LatestIsRegistered, TypeOK
<1>5. ASSUME NEW c \in Conns, Send(c) \/ Reconnect(c) PROVE LatestInv'
  <2>1. /\ conn[c] = "unused" /\ conn' = [conn EXCEPT ![c] = "requested"]
        /\ UNCHANGED <<latest, registered>>
    BY <1>5 DEF Send, Reconnect, NextConn
  <2> QED BY <1>3, <2>1
<1>6. ASSUME NEW c \in Conns, OpenStream(c) PROVE LatestInv'
  BY <1>1, <1>6 DEF OpenStream, LatestInv, LatestIsRegistered, TypeOK
<1>7. ASSUME NEW c \in Conns, Deliver(c) PROVE LatestInv'
  <2>1. CASE Head(queue[c]).no = 0 BY <1>4, <1>7, <2>1 DEF Deliver
  <2>2. CASE Head(queue[c]).no # 0 BY <1>2, <1>7, <2>2 DEF Deliver
  <2> QED BY <2>1, <2>2
<1>8. ASSUME NEW c \in Conns, NoticeDisconnect(c) \/ Break(c) PROVE LatestInv'
  BY <1>4, <1>8 DEF NoticeDisconnect, Break
<1>9. ASSUME NEW t \in Turns, RunTurn(t) PROVE LatestInv'
  BY <1>2, <1>9 DEF RunTurn, StartTurn, Push, FinishTurn, RaiseTurn, StoreTurn
<1>10. ASSUME ReceiveResponse \/ GiveUp \/ UNCHANGED vars PROVE LatestInv'
  BY <1>2, <1>10 DEF ReceiveResponse, GiveUp, Settle, vars
<1> QED BY <1>5, <1>6, <1>7, <1>8, <1>9, <1>10 DEF Next, Stream

-----------------------------------------------------------------------------
(* What a stream carries.  A turn keeps the queue it captured, so what it has  *)
(* put there is in that queue or was sent from it, whoever is registered now.  *)

\* A turn has an entry only once it runs, and pushes only from then on.
Captured ==
  \A t \in Turns :
    /\ turn[t] \in {"idle", "posted"} => entry[t] = None /\ pushed[t] = 0
    /\ entry[t] # None => conn[entry[t]] \in {"open", "closed"}

\* What is in a stream was put there by a turn that holds that stream's entry.
Belongs ==
  \A c \in Conns : \A i \in DOMAIN Carried(c) :
    /\ entry[Carried(c)[i].turn] = c
    /\ Carried(c)[i].no <= pushed[Carried(c)[i].turn]
    /\ Carried(c)[i].no = 0 => turn[Carried(c)[i].turn] \in {"finished", "stored"}

\* Everything a turn has pushed is in the stream whose entry it holds.
Whole ==
  \A t \in Turns : entry[t] # None =>
    \A n \in 1..pushed[t] :
      \E i \in DOMAIN Carried(entry[t]) : Carried(entry[t])[i] = Item(t, n)

\* NoGapInATurn, by positions.
InOrder(s) ==
  \A i \in DOMAIN s : s[i].no # 0 =>
    /\ s[i].no # 1 => \E j \in 1..(i - 1) : s[j] = Item(s[i].turn, s[i].no - 1)
    /\ \A j \in 1..(i - 1) : s[j].turn = s[i].turn => s[j].no \in 1..(s[i].no - 1)

StreamInv ==
  /\ Captured /\ Belongs /\ Whole
  /\ \A c \in Conns : InOrder(Carried(c))

LEMMA CarriedTypes ==
  ASSUME TypeOK, NEW c \in Conns
  PROVE  /\ Carried(c) \in Seq(Items)
         /\ DOMAIN Carried(c) = 1..Len(Carried(c))
         /\ \A i \in DOMAIN Carried(c) :
              Carried(c)[i] \in Items /\ Carried(c)[i].turn \in Turns /\ Carried(c)[i].no \in Nat
<1>1. served[c] \in Seq(Items) /\ queue[c] \in Seq(Items) BY DEF TypeOK
<1>2. Carried(c) \in Seq(Items) BY <1>1 DEF Carried
<1>3. DOMAIN Carried(c) = 1..Len(Carried(c)) BY <1>2
<1>4. \A i \in DOMAIN Carried(c) : Carried(c)[i] \in Items BY <1>2, <1>3
<1> QED BY <1>2, <1>3, <1>4 DEF Items

\* Putting an item into a queue puts it behind all the stream has carried.
LEMMA PutCarried ==
  ASSUME TypeOK, NEW t \in Turns, NEW item \in Items, Put(t, item), UNCHANGED <<served, entry>>
  PROVE  /\ \A c \in Conns : c # entry[t] => Carried(c)' = Carried(c)
         /\ entry[t] # None => Carried(entry[t])' = Append(Carried(entry[t]), item)
<1>1. ASSUME NEW c \in Conns, c # entry[t] PROVE Carried(c)' = Carried(c)
  BY <1>1 DEF TypeOK, Put, Carried
<1>2. ASSUME entry[t] # None PROVE Carried(entry[t])' = Append(Carried(entry[t]), item)
  <2> DEFINE c == entry[t]
  <2>1. c \in Conns BY <1>2 DEF TypeOK
  <2>2. queue'[c] = Append(queue[c], item) BY <1>2, <2>1 DEF Put, TypeOK
  <2>3. served'[c] = served[c] OBVIOUS
  <2>4. served[c] \in Seq(Items) /\ queue[c] \in Seq(Items) BY <2>1 DEF TypeOK
  <2>5. ASSUME NEW a \in Seq(Items), NEW b \in Seq(Items)
        PROVE  a \o Append(b, item) = Append(a \o b, item)
    OBVIOUS
  <2>6. served[c] \o Append(queue[c], item) = Append(served[c] \o queue[c], item) BY <2>4, <2>5
  <2>7. Carried(c)' = served'[c] \o queue'[c] BY DEF Carried
  <2> QED BY <2>2, <2>3, <2>6, <2>7 DEF Carried
<1> QED BY <1>1, <1>2

\* Handing an item to the client moves it within the stream; a sentinel is
\* dropped, and everything behind it moves up by one.
LEMMA DeliverCarried ==
  ASSUME TypeOK, NEW c \in Conns, Deliver(c)
  PROVE  /\ \A d \in Conns : d # c => Carried(d)' = Carried(d)
         /\ Head(queue[c]).no # 0 => Carried(c)' = Carried(c)
         /\ Head(queue[c]).no = 0 =>
              \E k \in DOMAIN Carried(c) :
                /\ Carried(c)[k].no = 0
                /\ DOMAIN Carried(c)' = 1..(Len(Carried(c)) - 1)
                /\ \A i \in 1..(Len(Carried(c)) - 1) :
                     Carried(c)'[i] = Carried(c)[IF i < k THEN i ELSE i + 1]
<1> DEFINE a == served[c]
           b == queue[c]
<1>1. a \in Seq(Items) /\ b \in Seq(Items) /\ b # <<>> BY DEF TypeOK, Deliver
<1>2. queue' = [queue EXCEPT ![c] = Tail(queue[c])] BY DEF Deliver
<1>3. queue'[c] = Tail(b) /\ \A d \in Conns : d # c => queue'[d] = queue[d]
  BY <1>2 DEF TypeOK
<1>4. ASSUME NEW d \in Conns, d # c PROVE Carried(d)' = Carried(d)
  <2>1. served'[d] = served[d] BY <1>4 DEF Deliver, TypeOK
  <2> QED BY <1>3, <1>4, <2>1 DEF Carried
<1>5. ASSUME Head(b).no # 0 PROVE Carried(c)' = Carried(c)
  <2>1. served' = [served EXCEPT ![c] = Append(served[c], Head(queue[c]))] BY <1>5 DEF Deliver
  <2>2. served'[c] = Append(a, Head(b)) BY <2>1 DEF TypeOK
  <2>3. Carried(c)' = Append(a, Head(b)) \o Tail(b) BY <1>3, <2>2 DEF Carried
  <2>4. ASSUME NEW x \in Seq(Items), NEW y \in Seq(Items), y # <<>>
        PROVE  Append(x, Head(y)) \o Tail(y) = x \o y
    BY <2>4
  <2> QED BY <1>1, <2>3, <2>4 DEF Carried
<1>6. ASSUME Head(b).no = 0
      PROVE  \E k \in DOMAIN Carried(c) :
                /\ Carried(c)[k].no = 0
                /\ DOMAIN Carried(c)' = 1..(Len(Carried(c)) - 1)
                /\ \A i \in 1..(Len(Carried(c)) - 1) :
                     Carried(c)'[i] = Carried(c)[IF i < k THEN i ELSE i + 1]
  <2>1. served'[c] = a BY <1>6 DEF Deliver
  <2>2. Carried(c)' = a \o Tail(b) BY <1>3, <2>1 DEF Carried
  <2>3. Carried(c) = a \o b BY DEF Carried
  <2>4. ASSUME NEW x \in Seq(Items), NEW y \in Seq(Items), y # <<>>, Head(y).no = 0
        PROVE  /\ Len(x) + 1 \in DOMAIN (x \o y)
               /\ (x \o y)[Len(x) + 1].no = 0
               /\ DOMAIN (x \o Tail(y)) = 1..(Len(x \o y) - 1)
               /\ \A i \in 1..(Len(x \o y) - 1) :
                    (x \o Tail(y))[i] = (x \o y)[IF i < Len(x) + 1 THEN i ELSE i + 1]
    BY <2>4
  <2>5. /\ Len(a) + 1 \in DOMAIN (a \o b)
        /\ (a \o b)[Len(a) + 1].no = 0
        /\ DOMAIN (a \o Tail(b)) = 1..(Len(a \o b) - 1)
        /\ \A i \in 1..(Len(a \o b) - 1) :
             (a \o Tail(b))[i] = (a \o b)[IF i < Len(a) + 1 THEN i ELSE i + 1]
    BY <1>1, <1>6, <2>4
  <2>6. /\ Len(a) + 1 \in DOMAIN Carried(c)
        /\ Carried(c)[Len(a) + 1].no = 0
        /\ DOMAIN Carried(c)' = 1..(Len(Carried(c)) - 1)
        /\ \A i \in 1..(Len(Carried(c)) - 1) :
             Carried(c)'[i] = Carried(c)[IF i < Len(a) + 1 THEN i ELSE i + 1]
    BY <2>2, <2>3, <2>5
  <2> QED BY <2>6
<1> QED BY <1>4, <1>5, <1>6

\* A step that leaves what the streams carry, and what the turns hold, as it is.
LEMMA NothingPut ==
  ASSUME TypeOK, StreamInv, UNCHANGED <<entry, pushed>>,
         \A c \in Conns : Carried(c)' = Carried(c),
         \A t \in Turns : /\ turn[t] \in {"finished", "stored"} => turn'[t] \in {"finished", "stored"}
                          /\ turn'[t] \in {"idle", "posted"} => turn[t] \in {"idle", "posted"},
         \A c \in Conns : conn[c] \in {"open", "closed"} => conn'[c] \in {"open", "closed"}
  PROVE  StreamInv'
<1>1. Captured' BY DEF Captured, StreamInv, TypeOK
<1>2. Belongs'
  <2> SUFFICES ASSUME NEW c \in Conns, NEW i \in DOMAIN Carried(c)'
      PROVE  /\ entry'[Carried(c)'[i].turn] = c
             /\ Carried(c)'[i].no <= pushed'[Carried(c)'[i].turn]
             /\ Carried(c)'[i].no = 0 => turn'[Carried(c)'[i].turn] \in {"finished", "stored"}
    BY DEF Belongs
  <2>1. Carried(c)' = Carried(c) OBVIOUS
  <2>2. Carried(c)[i].turn \in Turns BY <2>1, CarriedTypes
  <2> QED BY <2>1, <2>2 DEF StreamInv, Belongs
<1>3. Whole'
  <2> SUFFICES ASSUME NEW t \in Turns, entry[t] # None, NEW n \in 1..pushed[t]
      PROVE  \E i \in DOMAIN Carried(entry[t])' : Carried(entry[t])'[i] = Item(t, n)
    BY DEF Whole, Item
  <2>1. entry[t] \in Conns BY DEF TypeOK
  <2> QED BY <2>1 DEF StreamInv, Whole
<1>4. \A c \in Conns : InOrder(Carried(c))' BY DEF StreamInv, InOrder, Item
<1> QED BY <1>1, <1>2, <1>3, <1>4 DEF StreamInv

LEMMA StreamStart ==
  ASSUME TypeOK, StreamInv, NEW t \in Turns, StartTurn(t), \A c \in Conns : c = registered => conn[c] \in {"open", "closed"}
  PROVE  StreamInv'
<1>0. UNCHANGED <<conn, queue, registered, served, pushed>> BY DEF StartTurn, serverVars, tabVars, history
<1>1. \A c \in Conns : Carried(c)' = Carried(c) BY <1>0 DEF Carried
<1>2. turn[t] = "posted" /\ entry[t] = None /\ pushed[t] = 0
  BY DEF StartTurn, StreamInv, Captured
<1>3. /\ \A u \in Turns : u # t => entry'[u] = entry[u] /\ turn'[u] = turn[u]
      /\ entry'[t] = registered /\ turn'[t] = "running"
  BY DEF StartTurn, TypeOK
<1>4. None \notin Conns BY DEF None, Conns
<1>5. Captured' BY <1>0, <1>3 DEF Captured, StreamInv, TypeOK
<1>6. Belongs'
  <2> SUFFICES ASSUME NEW c \in Conns, NEW i \in DOMAIN Carried(c)'
      PROVE  /\ entry'[Carried(c)'[i].turn] = c
             /\ Carried(c)'[i].no <= pushed'[Carried(c)'[i].turn]
             /\ Carried(c)'[i].no = 0 => turn'[Carried(c)'[i].turn] \in {"finished", "stored"}
    BY DEF Belongs
  <2>1. Carried(c)' = Carried(c) BY <1>1
  <2>2. Carried(c)[i].turn \in Turns BY <2>1, CarriedTypes
  <2>3. Carried(c)[i].turn # t BY <2>1, <1>2, <1>4 DEF StreamInv, Belongs
  <2> QED BY <1>0, <1>3, <2>1, <2>2, <2>3 DEF StreamInv, Belongs
<1>7. Whole'
  <2> SUFFICES ASSUME NEW u \in Turns, entry'[u] # None, NEW n \in 1..pushed'[u]
      PROVE  \E i \in DOMAIN Carried(entry[u])' : Carried(entry[u])'[i] = Item(u, n)
    BY DEF Whole, Item
  <2>1. u # t BY <1>0, <1>2
  <2>2. entry'[u] = entry[u] /\ entry[u] \in Conns BY <1>3, <2>1 DEF TypeOK
  <2>3. \E i \in DOMAIN Carried(entry[u]) : Carried(entry[u])[i] = Item(u, n)
    BY <1>0, <2>2 DEF StreamInv, Whole
  <2>4. Carried(entry[u])' = Carried(entry[u]) BY <1>0, <2>2 DEF Carried
  <2> QED BY <2>3, <2>4
<1>8. \A c \in Conns : InOrder(Carried(c))' BY <1>1 DEF StreamInv, InOrder, Item
<1> QED BY <1>5, <1>6, <1>7, <1>8 DEF StreamInv

\* What InOrder asks survives an item that is next of its turn, or a sentinel,
\* at the end, and the removal of a sentinel anywhere.
LEMMA AppendInOrder ==
  ASSUME NEW s \in Seq(Items), InOrder(s), NEW item \in Items,
         item.no # 0 =>
           /\ item.no # 1 => \E j \in DOMAIN s : s[j] = Item(item.turn, item.no - 1)
           /\ \A j \in DOMAIN s : s[j].turn = item.turn => s[j].no \in 1..(item.no - 1)
  PROVE  InOrder(Append(s, item))
<1>1. DOMAIN Append(s, item) = 1..(Len(s) + 1) /\ DOMAIN s = 1..Len(s) /\ Len(s) \in Nat OBVIOUS
<1>2. \A i \in 1..Len(s) : Append(s, item)[i] = s[i] OBVIOUS
<1>3. Append(s, item)[Len(s) + 1] = item OBVIOUS
<1> DEFINE z == Append(s, item)
<1>5. /\ DOMAIN z = 1..(Len(s) + 1) /\ z[Len(s) + 1] = item
      /\ \A i \in 1..Len(s) : z[i] = s[i]
  BY <1>1, <1>2, <1>3
<1> HIDE DEF z
<1>4. ASSUME NEW i \in DOMAIN z, z[i].no # 0
      PROVE  /\ z[i].no # 1 => \E j \in 1..(i - 1) : z[j] = Item(z[i].turn, z[i].no - 1)
             /\ \A j \in 1..(i - 1) : z[j].turn = z[i].turn => z[j].no \in 1..(z[i].no - 1)
  <2>1. CASE i = Len(s) + 1 BY <1>1, <1>4, <1>5, <2>1
  <2>2. CASE i \in 1..Len(s)
    <3>1. z[i] = s[i] /\ i \in DOMAIN s BY <1>1, <1>5, <2>2
    <3>2. \A j \in 1..(i - 1) : z[j] = s[j] BY <1>1, <1>5, <2>2
    <3> QED BY <1>4, <3>1, <3>2 DEF InOrder
  <2> QED BY <1>1, <1>4, <1>5, <2>1, <2>2
<1>6. InOrder(z) BY <1>4 DEF InOrder
<1> QED BY <1>6 DEF z

LEMMA RemoveInOrder ==
  ASSUME NEW s \in Seq(Items), InOrder(s), NEW k \in DOMAIN s, s[k].no = 0,
         NEW z, DOMAIN z = 1..(Len(s) - 1),
         \A i \in 1..(Len(s) - 1) : z[i] = s[IF i < k THEN i ELSE i + 1]
  PROVE  InOrder(z)
<1>1. DOMAIN s = 1..Len(s) /\ Len(s) \in Nat /\ k \in 1..Len(s) OBVIOUS
<1>3. \A x \in DOMAIN s : s[x].no \in Nat
  <2>1. \A x \in DOMAIN s : s[x] \in Items BY <1>1
  <2> QED BY <2>1 DEF Items
<1>2. ASSUME NEW i \in 1..(Len(s) - 1), z[i].no # 0
      PROVE  /\ z[i].no # 1 => \E j \in 1..(i - 1) : z[j] = Item(z[i].turn, z[i].no - 1)
             /\ \A j \in 1..(i - 1) : z[j].turn = z[i].turn => z[j].no \in 1..(z[i].no - 1)
  <2> DEFINE m == IF i < k THEN i ELSE i + 1
  <2>1. m \in DOMAIN s /\ z[i] = s[m] BY <1>1
  <2>2. /\ s[m].no # 1 => \E j \in 1..(m - 1) : s[j] = Item(s[m].turn, s[m].no - 1)
        /\ \A j \in 1..(m - 1) : s[j].turn = s[m].turn => s[j].no \in 1..(s[m].no - 1)
    BY <1>2, <2>1 DEF InOrder
  <2>3. ASSUME z[i].no # 1 PROVE \E j \in 1..(i - 1) : z[j] = Item(z[i].turn, z[i].no - 1)
    <3>1. PICK j \in 1..(m - 1) : s[j] = Item(z[i].turn, z[i].no - 1) BY <2>1, <2>2, <2>3
    <3>2. z[i].no \in Nat BY <1>3, <2>1
    <3>3. s[j].no = z[i].no - 1 BY <3>1 DEF Item
    <3>4. j # k BY <1>2, <2>3, <3>2, <3>3
    <3>5. CASE j < k
      <4>1. j \in 1..(i - 1) /\ z[j] = s[j] BY <1>1, <3>5
      <4> QED BY <3>1, <4>1
    <3>6. CASE j > k
      <4>1. j - 1 \in 1..(i - 1) /\ z[j - 1] = s[j] BY <1>1, <3>6
      <4> QED BY <3>1, <4>1
    <3> QED BY <1>1, <3>4, <3>5, <3>6
  <2>4. ASSUME NEW j \in 1..(i - 1), z[j].turn = z[i].turn PROVE z[j].no \in 1..(z[i].no - 1)
    <3> DEFINE n == IF j < k THEN j ELSE j + 1
    <3>1. n \in 1..(m - 1) /\ z[j] = s[n] BY <1>1
    <3> QED BY <2>1, <2>2, <2>4, <3>1
  <2> QED BY <2>3, <2>4
<1> QED BY <1>2 DEF InOrder

LEMMA StreamPut ==
  ASSUME TypeOK, StreamInv, NEW t \in Turns, NEW item \in Items, Put(t, item),
         item.turn = t, turn[t] = "running",
         \/ item.no = pushed[t] + 1 /\ pushed' = [pushed EXCEPT ![t] = pushed[t] + 1] /\ turn' = turn
         \/ item.no = 0 /\ pushed' = pushed /\ turn' = [turn EXCEPT ![t] = "finished"],
         UNCHANGED <<conn, entry, served>>
  PROVE  StreamInv'
<1>1. /\ \A c \in Conns : c # entry[t] => Carried(c)' = Carried(c)
      /\ entry[t] # None => Carried(entry[t])' = Append(Carried(entry[t]), item)
  BY PutCarried
<1>2. /\ \A u \in Turns : u # t => pushed'[u] = pushed[u] /\ turn'[u] = turn[u]
      /\ pushed[t] \in Nat /\ pushed'[t] \in Nat /\ pushed[t] <= pushed'[t]
      /\ pushed'[t] = pushed[t] \/ (pushed'[t] = pushed[t] + 1 /\ item.no = pushed'[t])
      /\ item.no <= pushed'[t]
      /\ item.no = 0 => turn'[t] = "finished"
      /\ turn'[t] \in {"running", "finished"}
  <2>1. pushed[t] \in Nat BY DEF TypeOK
  <2>2. CASE item.no = pushed[t] + 1 /\ pushed' = [pushed EXCEPT ![t] = pushed[t] + 1] /\ turn' = turn
    <3>1. pushed'[t] = pushed[t] + 1 /\ \A u \in Turns : u # t => pushed'[u] = pushed[u]
      BY <2>2 DEF TypeOK
    <3> QED BY <2>1, <2>2, <3>1
  <2>3. CASE item.no = 0 /\ pushed' = pushed /\ turn' = [turn EXCEPT ![t] = "finished"]
    <3>1. turn'[t] = "finished" /\ \A u \in Turns : u # t => turn'[u] = turn[u]
      BY <2>3 DEF TypeOK
    <3> QED BY <2>1, <2>3, <3>1
  <2> QED BY <2>2, <2>3
<1>3. Captured' BY <1>2 DEF Captured, StreamInv, TypeOK
<1>4. \A c \in Conns : \A i \in DOMAIN Carried(c) :
        /\ entry[Carried(c)[i].turn] = c
        /\ Carried(c)[i].no <= pushed'[Carried(c)[i].turn]
        /\ Carried(c)[i].no = 0 => turn'[Carried(c)[i].turn] \in {"finished", "stored"}
  <2> SUFFICES ASSUME NEW c \in Conns, NEW i \in DOMAIN Carried(c)
      PROVE  /\ entry[Carried(c)[i].turn] = c
             /\ Carried(c)[i].no <= pushed'[Carried(c)[i].turn]
             /\ Carried(c)[i].no = 0 => turn'[Carried(c)[i].turn] \in {"finished", "stored"}
    OBVIOUS
  <2>1. Carried(c)[i].turn \in Turns /\ Carried(c)[i].no \in Nat BY CarriedTypes
  <2>2. /\ entry[Carried(c)[i].turn] = c
        /\ Carried(c)[i].no <= pushed[Carried(c)[i].turn]
        /\ Carried(c)[i].no = 0 => turn[Carried(c)[i].turn] \in {"finished", "stored"}
    BY DEF StreamInv, Belongs
  <2> QED BY <1>2, <2>1, <2>2
<1>5. ASSUME NEW c \in Conns, c = entry[t]
      PROVE  /\ Carried(c)' = Append(Carried(c), item)
             /\ DOMAIN Carried(c) = 1..Len(Carried(c)) /\ Len(Carried(c)) \in Nat
             /\ DOMAIN Carried(c)' = 1..(Len(Carried(c)) + 1)
             /\ Carried(c)'[Len(Carried(c)) + 1] = item
             /\ \A i \in DOMAIN Carried(c) : Carried(c)'[i] = Carried(c)[i]
  <2>1. c # None BY DEF None, Conns
  <2>2. Carried(c) \in Seq(Items) BY CarriedTypes
  <2>3. Carried(c)' = Append(Carried(c), item)
    <3>1. entry[t] # None BY <1>5, <2>1
    <3>2. Carried(entry[t])' = Carried(c)' BY <1>5 DEF Carried
    <3> QED BY <1>1, <1>5, <3>1, <3>2
  <2> QED BY <2>2, <2>3
<1>6. Belongs'
  <2> SUFFICES ASSUME NEW c \in Conns, NEW i \in DOMAIN Carried(c)'
      PROVE  /\ entry'[Carried(c)'[i].turn] = c
             /\ Carried(c)'[i].no <= pushed'[Carried(c)'[i].turn]
             /\ Carried(c)'[i].no = 0 => turn'[Carried(c)'[i].turn] \in {"finished", "stored"}
    BY DEF Belongs
  <2>1. CASE c # entry[t] BY <1>1, <1>4, <2>1
  <2>2. CASE c = entry[t]
    <3>1. CASE i \in DOMAIN Carried(c) BY <1>4, <1>5, <2>2, <3>1
    <3>2. CASE i = Len(Carried(c)) + 1 BY <1>2, <1>5, <2>2, <3>2
    <3> QED BY <1>5, <2>2, <3>1, <3>2
  <2> QED BY <2>1, <2>2
<1>7. Whole'
  <2> SUFFICES ASSUME NEW u \in Turns, entry'[u] # None, NEW n \in 1..pushed'[u]
      PROVE  \E i \in DOMAIN Carried(entry[u])' : Carried(entry[u])'[i] = Item(u, n)
    BY DEF Whole, Item
  <2>0. PICK c \in Conns : c = entry[u] BY DEF TypeOK
  <2>1. Carried(entry[u])' = Carried(c)' BY <2>0 DEF Carried
  <2>2. n \in 1..pushed[u] => \E i \in DOMAIN Carried(c) : Carried(c)[i] = Item(u, n)
    <3>1. Carried(entry[u]) = Carried(c) BY <2>0
    <3> QED BY <2>0, <3>1 DEF StreamInv, Whole
  <2>3. CASE n \in 1..pushed[u]
    <3>1. CASE c # entry[t] BY <1>1, <2>1, <2>2, <2>3, <3>1
    <3>2. CASE c = entry[t] BY <1>5, <2>1, <2>2, <2>3, <3>2
    <3> QED BY <3>1, <3>2
  <2>4. CASE n \notin 1..pushed[u]
    <3>1. u = t /\ n = pushed'[t] /\ item.no = n BY <1>2, <2>4
    <3>2. item = Item(u, n) BY <3>1 DEF Item, Items
    <3>3. c = entry[t] BY <2>0, <3>1
    <3> QED BY <1>5, <2>1, <3>2, <3>3
  <2> QED BY <2>3, <2>4
<1>8. ASSUME NEW c \in Conns PROVE InOrder(Carried(c)')
  <2>1. InOrder(Carried(c)) BY DEF StreamInv
  <2>2. CASE c # entry[t] BY <1>1, <2>1, <2>2
  <2>3. CASE c = entry[t]
    <3>1. c # None BY DEF None, Conns
    <3>2. ASSUME item.no # 0, item.no # 1
          PROVE  \E j \in DOMAIN Carried(c) : Carried(c)[j] = Item(item.turn, item.no - 1)
      <4>1. item.no = pushed[t] + 1 /\ pushed[t] \in 1..pushed[t] BY <1>2, <3>2
      <4>2. \E j \in DOMAIN Carried(entry[t]) : Carried(entry[t])[j] = Item(t, pushed[t])
        BY <2>3, <3>1, <4>1 DEF StreamInv, Whole
      <4>3. item.no - 1 = pushed[t] BY <1>2, <4>1
      <4> QED BY <2>3, <4>2, <4>3
    <3>3. ASSUME item.no # 0, NEW j \in DOMAIN Carried(c), Carried(c)[j].turn = item.turn
          PROVE  Carried(c)[j].no \in 1..(item.no - 1)
      <4>1. item.no = pushed[t] + 1 BY <3>3
      <4>2. /\ Carried(c)[j].no <= pushed[t]
            /\ Carried(c)[j].no = 0 => turn[t] \in {"finished", "stored"}
        BY <3>3 DEF StreamInv, Belongs
      <4>3. Carried(c)[j].no \in Nat BY CarriedTypes
      <4> QED BY <1>2, <4>1, <4>2, <4>3
    <3>4. Carried(c) \in Seq(Items) BY CarriedTypes
    <3>5. InOrder(Append(Carried(c), item)) BY <2>1, <3>2, <3>3, <3>4, AppendInOrder
    <3> QED BY <1>5, <2>3, <3>5
  <2> QED BY <2>2, <2>3
<1>9. \A c \in Conns : InOrder(Carried(c))' BY <1>8 DEF InOrder, Item
<1> QED BY <1>3, <1>6, <1>7, <1>9 DEF StreamInv

LEMMA StreamDeliver ==
  ASSUME TypeOK, StreamInv, NEW c \in Conns, Deliver(c)
  PROVE  StreamInv'
<1>0. /\ UNCHANGED <<turn, entry, pushed>>
      /\ \A d \in Conns : conn[d] \in {"open", "closed"} => conn'[d] \in {"open", "closed"}
  <2>1. UNCHANGED <<turn, entry, pushed>> BY DEF Deliver, turnVars
  <2>2. conn' = conn \/ conn' = [conn EXCEPT ![c] = "closed"] BY DEF Deliver, Close
  <2> QED BY <2>1, <2>2 DEF TypeOK
<1>1. \A d \in Conns : d # c => Carried(d)' = Carried(d) BY DeliverCarried
<1>2. CASE Head(queue[c]).no # 0
  <2>1. Carried(c)' = Carried(c) BY <1>2, DeliverCarried
  <2>2. \A d \in Conns : Carried(d)' = Carried(d) BY <1>1, <2>1
  <2> QED BY <1>0, <2>2, NothingPut
<1>3. CASE Head(queue[c]).no = 0
  <2>1. PICK k \in DOMAIN Carried(c) :
          /\ Carried(c)[k].no = 0
          /\ DOMAIN Carried(c)' = 1..(Len(Carried(c)) - 1)
          /\ \A i \in 1..(Len(Carried(c)) - 1) :
               Carried(c)'[i] = Carried(c)[IF i < k THEN i ELSE i + 1]
    BY <1>3, DeliverCarried
  <2>2. DOMAIN Carried(c) = 1..Len(Carried(c)) /\ Len(Carried(c)) \in Nat /\ Carried(c) \in Seq(Items)
    BY CarriedTypes
  <2>3. \A i \in DOMAIN Carried(c)' : \E m \in DOMAIN Carried(c) : Carried(c)'[i] = Carried(c)[m]
    BY <2>1, <2>2
  <2>4. \A m \in DOMAIN Carried(c) : m # k =>
          \E i \in DOMAIN Carried(c)' : Carried(c)'[i] = Carried(c)[m]
    <3> SUFFICES ASSUME NEW m \in DOMAIN Carried(c), m # k
        PROVE  \E i \in DOMAIN Carried(c)' : Carried(c)'[i] = Carried(c)[m]
      OBVIOUS
    <3>1. CASE m < k
      <4>1. m \in DOMAIN Carried(c)' BY <2>1, <2>2, <3>1
      <4>2. Carried(c)'[m] = Carried(c)[m] BY <2>1, <3>1, <4>1
      <4> QED BY <4>1, <4>2
    <3>2. CASE m > k
      <4>1. m - 1 \in DOMAIN Carried(c)' /\ ~(m - 1 < k) /\ (m - 1) + 1 = m BY <2>1, <2>2, <3>2
      <4>2. Carried(c)'[m - 1] = Carried(c)[m] BY <2>1, <4>1
      <4> QED BY <4>1, <4>2
    <3> QED BY <2>2, <3>1, <3>2
  <2>5. Captured' BY <1>0 DEF Captured, StreamInv, TypeOK
  <2>6. Belongs'
    <3> SUFFICES ASSUME NEW d \in Conns, NEW i \in DOMAIN Carried(d)'
        PROVE  /\ entry'[Carried(d)'[i].turn] = d
               /\ Carried(d)'[i].no <= pushed'[Carried(d)'[i].turn]
               /\ Carried(d)'[i].no = 0 => turn'[Carried(d)'[i].turn] \in {"finished", "stored"}
      BY DEF Belongs
    <3>1. PICK m \in DOMAIN Carried(d) : Carried(d)'[i] = Carried(d)[m]
      <4>1. CASE d # c BY <1>1, <4>1
      <4>2. CASE d = c BY <2>3, <4>2
      <4> QED BY <4>1, <4>2
    <3> QED BY <1>0, <3>1 DEF StreamInv, Belongs
  <2>7. Whole'
    <3> SUFFICES ASSUME NEW u \in Turns, entry[u] # None, NEW n \in 1..pushed[u]
        PROVE  \E i \in DOMAIN Carried(entry[u])' : Carried(entry[u])'[i] = Item(u, n)
      BY <1>0 DEF Whole, Item
    <3>0. PICK d \in Conns : d = entry[u] BY DEF TypeOK
    <3>1. Carried(entry[u])' = Carried(d)' BY <1>0, <3>0 DEF Carried
    <3>2. PICK m \in DOMAIN Carried(d) : Carried(d)[m] = Item(u, n)
      BY <3>0 DEF StreamInv, Whole
    <3>3. CASE d # c BY <1>1, <3>1, <3>2, <3>3
    <3>4. CASE d = c
      <4>1. n # 0 /\ Item(u, n).no = n BY BoundAssumption DEF TypeOK, Item
      <4>2. m # k BY <2>1, <3>2, <3>4, <4>1
      <4> QED BY <2>4, <3>1, <3>2, <3>4, <4>2
    <3> QED BY <3>3, <3>4
  <2>8. ASSUME NEW d \in Conns PROVE InOrder(Carried(d)')
    <3>1. InOrder(Carried(d)) BY DEF StreamInv
    <3>2. CASE d # c BY <1>1, <3>1, <3>2
    <3>3. CASE d = c BY <2>1, <2>2, <3>1, <3>3, RemoveInOrder
    <3> QED BY <3>2, <3>3
  <2>9. \A d \in Conns : InOrder(Carried(d))' BY <2>8 DEF InOrder, Item
  <2> QED BY <2>5, <2>6, <2>7, <2>9 DEF StreamInv
<1> QED BY <1>2, <1>3

LEMMA StreamInit == ASSUME Init PROVE StreamInv
<1>1. \A c \in Conns : Carried(c) = <<>> BY DEF Init, Carried
<1>2. Belongs /\ \A c \in Conns : InOrder(Carried(c)) BY <1>1 DEF Belongs, InOrder
<1>3. Captured /\ Whole BY DEF Init, Captured, Whole
<1> QED BY <1>2, <1>3 DEF StreamInv

-----------------------------------------------------------------------------
(* The tab.  As long as it gives up no request, the turns before the one it    *)
(* waits for are over, so whatever still pushes into its stream is that turn.  *)

Settled == {"stored", "raised"}

Ahead == \A t \in Turns : t > tab => turn[t] = "idle"

Behind ==
  /\ \A t \in Turns : t < tab => turn[t] \in Settled
  /\ ~sending /\ tab # 0 => turn[tab] \in Settled

OwnStream == source # None => \A t \in Turns : entry[t] = source => t = tab

TabInv == Ahead /\ (patient => Behind /\ OwnStream /\ OwnTurnShown)

LEMMA StreamStep ==
  ASSUME TypeOK, LatestInv, StreamInv, Ahead, [Next]_vars
  PROVE  StreamInv'
<1> USE DEF serverVars, turnVars, tabVars, history
<1>1. ASSUME UNCHANGED <<queue, served>> PROVE \A c \in Conns : Carried(c)' = Carried(c)
  BY <1>1 DEF Carried
<1>2. ASSUME UNCHANGED <<queue, served, entry, pushed, turn>>,
             conn' = conn \/ \E c \in Conns :
               \/ conn[c] = "unused" /\ conn' = [conn EXCEPT ![c] = "requested"]
               \/ conn' = [conn EXCEPT ![c] = "open"]
               \/ conn' = [conn EXCEPT ![c] = "closed"]
      PROVE  StreamInv'
  <2>1. \A d \in Conns : conn[d] \in {"open", "closed"} => conn'[d] \in {"open", "closed"}
    BY <1>2 DEF TypeOK
  <2> QED BY <1>1, <1>2, <2>1, NothingPut
<1>3. ASSUME NEW c \in Conns, Send(c) PROVE StreamInv'
  <2>1. UNCHANGED <<queue, served, entry, pushed>> BY <1>3 DEF Send
  <2>2. conn[c] = "unused" /\ conn' = [conn EXCEPT ![c] = "requested"] BY <1>3 DEF Send, NextConn
  <2>3. \A d \in Conns : conn[d] \in {"open", "closed"} => conn'[d] \in {"open", "closed"}
    BY <2>2 DEF TypeOK
  <2>4. tab + 1 \in Turns /\ tab + 1 > tab /\ turn' = [turn EXCEPT ![tab + 1] = "posted"]
    BY <1>3, BoundAssumption DEF Send, TypeOK, Turns
  <2>5. turn[tab + 1] = "idle" BY <2>4 DEF Ahead
  <2>6. \A t \in Turns : /\ turn[t] \in {"finished", "stored"} => turn'[t] \in {"finished", "stored"}
                         /\ turn'[t] \in {"idle", "posted"} => turn[t] \in {"idle", "posted"}
    BY <2>4, <2>5 DEF TypeOK
  <2> QED BY <1>1, <2>1, <2>3, <2>6, NothingPut
<1>4. ASSUME NEW c \in Conns, Reconnect(c) PROVE StreamInv'
  BY <1>2, <1>4 DEF Reconnect, NextConn
<1>5. ASSUME NEW c \in Conns, OpenStream(c) PROVE StreamInv'
  BY <1>2, <1>5 DEF OpenStream
<1>6. ASSUME NEW c \in Conns, Deliver(c) PROVE StreamInv' BY <1>6, StreamDeliver
<1>7. ASSUME NEW c \in Conns, NoticeDisconnect(c) \/ Break(c) PROVE StreamInv'
  BY <1>2, <1>7 DEF NoticeDisconnect, Break, Close
<1>8. ASSUME ReceiveResponse \/ GiveUp \/ UNCHANGED vars PROVE StreamInv'
  BY <1>2, <1>8 DEF ReceiveResponse, GiveUp, Settle, vars
<1>9. ASSUME NEW t \in Turns, StartTurn(t) PROVE StreamInv'
  <2>1. \A c \in Conns : c = registered => conn[c] \in {"open", "closed"}
    BY DEF LatestInv, LatestIsRegistered, None, Conns
  <2> QED BY <1>9, <2>1, StreamStart
<1>10. ASSUME NEW t \in Turns, RaiseTurn(t) \/ StoreTurn(t) PROVE StreamInv'
  <2>1. UNCHANGED <<queue, served, entry, pushed, conn>> BY <1>10 DEF RaiseTurn, StoreTurn
  <2>2. \A u \in Turns : /\ turn[u] \in {"finished", "stored"} => turn'[u] \in {"finished", "stored"}
                         /\ turn'[u] \in {"idle", "posted"} => turn[u] \in {"idle", "posted"}
    BY <1>10 DEF RaiseTurn, StoreTurn, TypeOK
  <2> QED BY <1>1, <2>1, <2>2, NothingPut
<1>11. ASSUME NEW t \in Turns, Push(t) PROVE StreamInv'
  <2>1. pushed[t] + 1 \in 0..MaxEvents BY <1>11, BoundAssumption DEF Push, TypeOK
  <2>2. Item(t, pushed[t] + 1) \in Items BY <2>1, ItemTypes
  <2>3. Item(t, pushed[t] + 1).turn = t /\ Item(t, pushed[t] + 1).no = pushed[t] + 1 BY DEF Item
  <2> QED BY <1>11, <2>2, <2>3, StreamPut DEF Push
<1>12. ASSUME NEW t \in Turns, FinishTurn(t) PROVE StreamInv'
  <2>1. Sentinel(t) \in Items BY ItemTypes, BoundAssumption DEF Sentinel
  <2>2. Sentinel(t).turn = t /\ Sentinel(t).no = 0 BY DEF Sentinel, Item
  <2> QED BY <1>12, <2>1, <2>2, StreamPut DEF FinishTurn
<1> QED
  BY <1>3, <1>4, <1>5, <1>6, <1>7, <1>8, <1>9, <1>10, <1>11, <1>12 DEF Next, Stream, RunTurn

\* A connection that is only now requested is no turn's entry.
LEMMA FreshSource ==
  ASSUME TypeOK, StreamInv, NEW c \in Conns, NextConn(c)
  PROVE  \A t \in Turns : entry[t] # c
<1>1. c # None BY DEF None, Conns
<1> QED BY <1>1 DEF NextConn, StreamInv, Captured

LEMMA TabStep ==
  ASSUME TypeOK, StreamInv, TabInv, [Next]_vars
  PROVE  TabInv'
<1> USE DEF serverVars, turnVars, tabVars, history
<1>0. tab \in Nat /\ None \notin Conns /\ \A t \in Turns : t \in Nat
  BY DEF TypeOK, None, Conns, Turns
<1>1. ASSUME UNCHANGED <<tab, sending, source, shown, entry, turn, patient>> PROVE TabInv'
  BY <1>1 DEF TabInv, Ahead, Behind, OwnStream, OwnTurnShown
<1>2. ASSUME NEW c \in Conns, Send(c) PROVE TabInv'
  <2>1. /\ tab' = tab + 1 /\ tab + 1 \in Turns /\ sending' = TRUE /\ ~sending
        /\ turn' = [turn EXCEPT ![tab + 1] = "posted"]
        /\ source' = c /\ shown' = <<>> /\ UNCHANGED <<entry, patient>>
    BY <1>2, BoundAssumption DEF Send, TypeOK, Turns
  <2>2. \A t \in Turns : t # tab + 1 => turn'[t] = turn[t] BY <2>1 DEF TypeOK
  <2>3. Ahead' BY <1>0, <2>1, <2>2 DEF TabInv, Ahead
  <2>4. ASSUME patient PROVE Behind'
    <3>1. \A t \in Turns : t < tab + 1 => turn[t] \in Settled
      BY <1>0, <2>1, <2>4 DEF TabInv, Behind, Turns
    <3> QED BY <1>0, <2>1, <2>2, <3>1 DEF Behind
  <2>5. \A t \in Turns : entry[t] # c BY <1>2, FreshSource DEF Send
  <2>6. OwnStream' BY <2>1, <2>5 DEF OwnStream
  <2>7. OwnTurnShown' BY <2>1 DEF OwnTurnShown
  <2> QED BY <2>1, <2>3, <2>4, <2>6, <2>7 DEF TabInv
<1>3. ASSUME NEW c \in Conns, Reconnect(c) PROVE TabInv'
  <2>1. source' = c /\ UNCHANGED <<tab, sending, shown, entry, turn, patient>> BY <1>3 DEF Reconnect
  <2>2. \A t \in Turns : entry[t] # c BY <1>3, FreshSource DEF Reconnect
  <2>3. OwnStream' BY <2>1, <2>2 DEF OwnStream
  <2> QED BY <2>1, <2>3 DEF TabInv, Ahead, Behind, OwnTurnShown
<1>4. ASSUME ReceiveResponse PROVE TabInv'
  <2>1. /\ turn[tab] \in Settled /\ source' = None /\ shown' = <<>> /\ UNCHANGED <<tab, turn, patient>>
    BY <1>4 DEF ReceiveResponse, Settle, Settled
  <2>2. OwnStream' /\ OwnTurnShown' BY <2>1 DEF OwnStream, OwnTurnShown
  <2>3. Ahead' /\ (patient => Behind') BY <2>1 DEF TabInv, Ahead, Behind
  <2> QED BY <2>1, <2>2, <2>3 DEF TabInv
<1>5. ASSUME GiveUp PROVE TabInv'
  BY <1>5 DEF GiveUp, Settle, TabInv, Ahead
<1>6. ASSUME NEW c \in Conns, Deliver(c) PROVE TabInv'
  <2>1. UNCHANGED <<tab, sending, source, entry, turn, patient>> BY <1>6 DEF Deliver
  <2>2. ASSUME patient PROVE OwnTurnShown'
    <3>1. CASE shown' = shown BY <2>1, <2>2, <3>1 DEF TabInv, OwnTurnShown
    <3>2. CASE shown' # shown
      <4>1. source = c /\ shown' = Append(shown, Head(queue[c])) BY <1>6, <3>2 DEF Deliver
      <4>2. queue[c] \in Seq(Items) /\ queue[c] # <<>> /\ served[c] \in Seq(Items)
        BY <1>6 DEF Deliver, TypeOK
      <4>3. /\ Len(served[c]) + 1 \in DOMAIN Carried(c)
            /\ Carried(c)[Len(served[c]) + 1] = Head(queue[c])
        <5>1. ASSUME NEW x \in Seq(Items), NEW y \in Seq(Items), y # <<>>
              PROVE  Len(x) + 1 \in DOMAIN (x \o y) /\ (x \o y)[Len(x) + 1] = Head(y)
          BY <5>1
        <5> QED BY <4>2, <5>1 DEF Carried
      <4>4. entry[Head(queue[c]).turn] = c BY <4>3 DEF StreamInv, Belongs
      <4>5. shown \in Seq(Items) /\ Head(queue[c]) \in Items BY <4>2 DEF TypeOK
      <4>6. Head(queue[c]).turn \in Turns BY <4>5 DEF Items
      <4>7. Head(queue[c]).turn = tab BY <1>0, <2>2, <4>1, <4>4, <4>6 DEF TabInv, OwnStream
      <4>8. \A i \in DOMAIN shown : shown[i].turn = tab BY <2>2 DEF TabInv, OwnTurnShown
      <4>9. \A i \in DOMAIN shown' : shown'[i].turn = tab BY <4>1, <4>7, <4>8, <4>5
      <4> QED BY <2>1, <4>9 DEF OwnTurnShown
    <3> QED BY <3>1, <3>2
  <2> QED BY <2>1, <2>2 DEF TabInv, Ahead, Behind, OwnStream
<1>7. ASSUME NEW c \in Conns, OpenStream(c) \/ NoticeDisconnect(c) \/ Break(c) PROVE TabInv'
  BY <1>1, <1>7 DEF OpenStream, NoticeDisconnect, Break
<1>8. ASSUME NEW t \in Turns, StartTurn(t) PROVE TabInv'
  <2>1. /\ turn[t] = "posted" /\ turn' = [turn EXCEPT ![t] = "running"]
        /\ entry' = [entry EXCEPT ![t] = registered]
        /\ UNCHANGED <<tab, sending, source, shown, patient>>
    BY <1>8 DEF StartTurn
  <2>2. /\ turn'[t] = "running" /\ \A u \in Turns : u # t => turn'[u] = turn[u] /\ entry'[u] = entry[u]
    BY <2>1 DEF TypeOK
  <2>3. ~(t > tab) BY <2>1 DEF TabInv, Ahead
  <2>4. Ahead' BY <2>1, <2>2, <2>3 DEF TabInv, Ahead
  <2>5. ASSUME patient PROVE t = tab /\ Behind' /\ OwnStream'
    <3>1. ~(t < tab) BY <2>1, <2>5 DEF TabInv, Behind, Settled
    <3>2. t = tab BY <1>0, <2>3, <3>1
    <3>3. sending \/ tab = 0 BY <2>1, <2>5, <3>2 DEF TabInv, Behind, Settled
    <3>4. Behind' BY <1>0, <2>1, <2>2, <2>5, <3>2, <3>3 DEF TabInv, Behind
    <3>5. OwnStream' BY <2>1, <2>2, <2>5, <3>2 DEF TabInv, OwnStream
    <3> QED BY <3>2, <3>4, <3>5
  <2> QED BY <2>1, <2>4, <2>5 DEF TabInv, OwnTurnShown
<1>9. ASSUME NEW t \in Turns, Push(t) PROVE TabInv' BY <1>1, <1>9 DEF Push
<1>10. ASSUME NEW t \in Turns, FinishTurn(t) \/ RaiseTurn(t) \/ StoreTurn(t) PROVE TabInv'
  <2>1. /\ turn[t] \in {"running", "finished"}
        /\ \A u \in Turns : u # t => turn'[u] = turn[u]
        /\ UNCHANGED <<tab, sending, source, shown, entry, patient>>
    BY <1>10 DEF FinishTurn, RaiseTurn, StoreTurn, TypeOK
  <2>2. Ahead' BY <2>1 DEF TabInv, Ahead
  <2>3. ASSUME patient PROVE Behind'
    <3>1. \A u \in Turns : turn[u] \in Settled => turn'[u] \in Settled BY <2>1 DEF Settled
    <3>2. tab # 0 => tab \in Turns BY BoundAssumption DEF TypeOK, Turns
    <3> QED BY <2>1, <2>3, <3>1, <3>2 DEF TabInv, Behind
  <2> QED BY <2>1, <2>2, <2>3 DEF TabInv, OwnStream, OwnTurnShown
<1>11. CASE UNCHANGED vars BY <1>1, <1>11 DEF vars
<1> QED
  BY <1>2, <1>3, <1>4, <1>5, <1>6, <1>7, <1>8, <1>9, <1>10, <1>11 DEF Next, Stream, RunTurn

-----------------------------------------------------------------------------
\* Queues hold items, and every name in the dict and in a turn's hands is a
\* connection, for any number of tabs' connections, turns and events.
THEOREM StreamTypes == Spec => []TypeOK
<1>1. Init => TypeOK BY TypeInit
<1>2. TypeOK /\ [Next]_vars => TypeOK' BY TypeStep
<1> QED BY <1>1, <1>2, PTL DEF Spec, SafetySpec

\* An older stream that ends, breaks or is cancelled never takes the entry of
\* the one opened last with it.
THEOREM LatestStays == Spec => []LatestIsRegistered
<1>1. Init => LatestInv BY DEF Init, LatestInv, LatestIsRegistered
<1>2. TypeOK /\ LatestInv /\ [Next]_vars => LatestInv' BY LatestStep
<1>3. LatestInv => LatestIsRegistered BY DEF LatestInv
<1> QED BY <1>1, <1>2, <1>3, StreamTypes, PTL DEF Spec, SafetySpec

\* Every stream shows each turn that pushes into it from its first event on,
\* whole and in order, and a tab that has given up no request shows only the
\* turn it waits for, whatever reconnections, late events and sentinels of the
\* turn before come between.
THEOREM StreamStaysWhole == Spec => []StreamShowsTurn
<1>1. Init => StreamInv BY StreamInit
<1>2. Init => TabInv
  BY DEF Init, TabInv, Ahead, Behind, OwnStream, OwnTurnShown, Turns
<1>3. Init => LatestInv BY DEF Init, LatestInv, LatestIsRegistered
<1>4. TypeOK /\ LatestInv /\ StreamInv /\ TabInv /\ [Next]_vars => LatestInv' /\ StreamInv' /\ TabInv'
  BY LatestStep, StreamStep, TabStep DEF TabInv
<1>5. ASSUME TypeOK, StreamInv, TabInv PROVE StreamShowsTurn
  <2>1. NoGapInATurn
    <3> SUFFICES ASSUME NEW c \in Conns, NEW i \in DOMAIN Carried(c), Carried(c)[i].no # 0
        PROVE  /\ entry[Carried(c)[i].turn] = c
               /\ Carried(c)[i].no # 1 =>
                    \E j \in 1..(i - 1) : Carried(c)[j] = Item(Carried(c)[i].turn, Carried(c)[i].no - 1)
               /\ \A j \in 1..(i - 1) : Carried(c)[j].turn = Carried(c)[i].turn =>
                    Carried(c)[j].no \in 1..(Carried(c)[i].no - 1)
      BY DEF NoGapInATurn
    <3> QED BY <1>5 DEF StreamInv, Belongs, InOrder
  <2>2. OwnTurnShown BY <1>5 DEF TabInv, OwnTurnShown
  <2> QED BY <2>1, <2>2 DEF StreamShowsTurn
<1> QED BY <1>1, <1>2, <1>3, <1>4, <1>5, StreamTypes, PTL DEF Spec, SafetySpec
=============================================================================
