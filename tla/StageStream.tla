---------------------------- MODULE StageStream -----------------------------
(***************************************************************************)
(* The progress stream of one Journey: GET /sessions/{id}/stream           *)
(* (stream_stages, on the event loop), the send_message threads that push  *)
(* into its queue, and the browser tab that opens an EventSource and posts *)
(* a message in the same call (Journey.svelte, api.js).                    *)
(*                                                                         *)
(* _stage_queues is one dict entry per Journey.  A turn looks it up once,  *)
(* when it starts, and pushes into that queue for as long as it runs; an   *)
(* EventSource whose connection ends opens another by itself.  An item is  *)
(* the turn that pushed it and its number in that turn; number 0 is the    *)
(* sentinel None.  Keepalive comments carry nothing and are left out.      *)
(*                                                                         *)
(* A definition headed "Fault:" is no part of the specification.           *)
(***************************************************************************)
EXTENDS Naturals, Sequences

CONSTANTS
  MaxConns,   \* GET requests considered, numbered in the order they are sent
  MaxTurns,   \* POST requests considered, numbered in the order they are sent
  MaxEvents   \* how many stage and token events a turn pushes at most

ASSUME BoundAssumption == MaxConns \in Nat /\ MaxTurns \in Nat /\ MaxEvents \in Nat

Conns == 1..MaxConns
None == 0    \* no connection
Turns == 1..MaxTurns

VARIABLES
  conn,        \* conn[c]: "unused", "requested", "open", "closed"
  latest,      \* history: the connection the server opened last
  queue,       \* queue[c]: the asyncio.Queue of c
  registered,  \* _stage_queues.get(session_id)
  turn,        \* turn[t]: "idle", "posted", "running", "finished", "stored", "raised"
  entry,       \* entry[t]: stream_entry, the queue the turn pushes into
  pushed,      \* pushed[t]: events pushed by t
  tab,         \* the turn the tab has sent last, 0 before the first
  sending,     \* whether it still waits for that turn's response
  source,      \* the connection of its EventSource, None once closed
  shown,       \* the items the EventSource handed to the tab in this turn
  served,      \* history: served[c]: the items c was sent
  patient      \* history: the tab has given up no request

serverVars == <<conn, latest, queue, registered>>
turnVars == <<turn, entry, pushed>>
tabVars == <<tab, sending, source, shown>>
history == <<served, patient>>
vars == <<serverVars, turnVars, tabVars, history>>

-----------------------------------------------------------------------------
Item(t, n) == [turn |-> t, no |-> n]
Sentinel(t) == Item(t, 0)

Init ==
  /\ conn = [c \in Conns |-> "unused"]
  /\ latest = None
  /\ queue = [c \in Conns |-> <<>>]
  /\ registered = None
  /\ turn = [t \in Turns |-> "idle"]
  /\ entry = [t \in Turns |-> None]
  /\ pushed = [t \in Turns |-> 0]
  /\ tab = 0 /\ sending = FALSE /\ source = None /\ shown = <<>>
  /\ served = [c \in Conns |-> <<>>]
  /\ patient = TRUE

-----------------------------------------------------------------------------
(* The tab.                                                                *)

NextConn(c) == conn[c] = "unused" /\ \A d \in 1..(c - 1) : conn[d] # "unused"

\* handleSend: the EventSource and the POST leave together and arrive in
\* either order.
Send(c) ==
  /\ ~sending /\ tab < MaxTurns
  /\ NextConn(c)
  /\ tab' = tab + 1
  /\ sending' = TRUE
  /\ source' = c
  /\ shown' = <<>>
  /\ conn' = [conn EXCEPT ![c] = "requested"]
  /\ turn' = [turn EXCEPT ![tab + 1] = "posted"]
  /\ UNCHANGED <<latest, queue, registered, entry, pushed, history>>

\* The EventSource finds its connection closed and opens another.
Reconnect(c) ==
  /\ source # None
  /\ conn[source] = "closed" /\ NextConn(c)
  /\ conn' = [conn EXCEPT ![c] = "requested"]
  /\ source' = c
  /\ UNCHANGED <<latest, queue, registered, turnVars, tab, sending, shown, history>>

Settle ==
  /\ sending
  /\ sending' = FALSE
  /\ source' = None
  /\ shown' = <<>>
  /\ UNCHANGED <<serverVars, turnVars, tab, served>>

\* The response, or the server's error, arrives: closeStream().
ReceiveResponse ==
  /\ tab > 0 /\ turn[tab] \in {"stored", "raised"}
  /\ Settle
  /\ UNCHANGED patient

\* The POST breaks in the browser while the server still works on it.
GiveUp ==
  /\ tab > 0 /\ turn[tab] \in {"posted", "running", "finished"}
  /\ Settle
  /\ patient' = FALSE

-----------------------------------------------------------------------------
(* stream_stages.                                                          *)

\* A new connection takes the Journey's place in the dict, whoever held it.
OpenStream(c) ==
  /\ conn[c] = "requested"
  /\ conn' = [conn EXCEPT ![c] = "open"]
  /\ latest' = c
  /\ registered' = c
  /\ UNCHANGED <<queue, turnVars, tabVars, history>>

\* Fault: the entry is deleted whoever it belongs to.
CloseAndDelete(c) ==
  /\ conn' = [conn EXCEPT ![c] = "closed"]
  /\ registered' = None

\* The generator's `finally`: the entry goes only if it is still its own.
Close(c) ==
  /\ conn' = [conn EXCEPT ![c] = "closed"]
  /\ registered' = IF registered = c THEN None ELSE registered

\* One turn of the generator's loop.
Deliver(c) ==
  /\ conn[c] = "open" /\ queue[c] # <<>>
  /\ LET item == Head(queue[c]) IN
       IF item.no = 0
         THEN Close(c) /\ UNCHANGED <<shown, served>>
         ELSE /\ served' = [served EXCEPT ![c] = Append(@, item)]
              /\ shown' = IF source = c THEN Append(shown, item) ELSE shown
              /\ UNCHANGED <<conn, registered>>
  /\ queue' = [queue EXCEPT ![c] = Tail(@)]
  /\ UNCHANGED <<latest, turnVars, tab, sending, source, patient>>

\* Fault: a blocking get() cannot be cancelled, only an item wakes it.
NoticeWhenWoken(c) ==
  /\ conn[c] = "open" /\ source # c
  /\ queue[c] # <<>>
  /\ Close(c)
  /\ UNCHANGED <<latest, queue, turnVars, tabVars, history>>

\* The client has gone: asyncio cancels the generator.
NoticeDisconnect(c) ==
  /\ conn[c] = "open" /\ source # c
  /\ Close(c)
  /\ UNCHANGED <<latest, queue, turnVars, tabVars, history>>

\* The connection breaks while the tab still listens.
Break(c) ==
  /\ conn[c] = "open" /\ source = c
  /\ Close(c)
  /\ UNCHANGED <<latest, queue, turnVars, tabVars, history>>

-----------------------------------------------------------------------------
(* send_message, in its worker thread.                                     *)

StartTurn(t) ==
  /\ turn[t] = "posted"
  /\ turn' = [turn EXCEPT ![t] = "running"]
  /\ entry' = [entry EXCEPT ![t] = registered]
  /\ UNCHANGED <<serverVars, pushed, tabVars, history>>

\* Fault: the dict is looked up again for every item.
PutInto(t, item) ==
  queue' = IF registered = None THEN queue
           ELSE [queue EXCEPT ![registered] = Append(@, item)]

\* call_soon_threadsafe(stage_queue.put_nowait, item): items of one thread
\* arrive in order; a queue nobody reads any more takes them too.
Put(t, item) ==
  queue' = IF entry[t] = None THEN queue
           ELSE [queue EXCEPT ![entry[t]] = Append(@, item)]

\* on_stage_complete or on_response_token.
Push(t) ==
  /\ turn[t] = "running" /\ pushed[t] < MaxEvents
  /\ pushed' = [pushed EXCEPT ![t] = @ + 1]
  /\ Put(t, Item(t, pushed[t] + 1))
  /\ UNCHANGED <<conn, latest, registered, turn, entry, tabVars, history>>

\* run_turn has returned: _push(None).
FinishTurn(t) ==
  /\ turn[t] = "running"
  /\ turn' = [turn EXCEPT ![t] = "finished"]
  /\ Put(t, Sentinel(t))
  /\ UNCHANGED <<conn, latest, registered, entry, pushed, tabVars, history>>

\* run_turn has raised: no sentinel.
RaiseTurn(t) ==
  /\ turn[t] = "running"
  /\ turn' = [turn EXCEPT ![t] = "raised"]
  /\ UNCHANGED <<serverVars, entry, pushed, tabVars, history>>

\* The messages and the state are written and the response is returned.
StoreTurn(t) ==
  /\ turn[t] = "finished"
  /\ turn' = [turn EXCEPT ![t] = "stored"]
  /\ UNCHANGED <<serverVars, entry, pushed, tabVars, history>>

RunTurn(t) == StartTurn(t) \/ Push(t) \/ FinishTurn(t) \/ RaiseTurn(t) \/ StoreTurn(t)
Stream(c) == OpenStream(c) \/ Deliver(c) \/ NoticeDisconnect(c)

Next ==
  \/ \E c \in Conns : Send(c) \/ Reconnect(c) \/ Stream(c) \/ Break(c)
  \/ \E t \in Turns : RunTurn(t)
  \/ ReceiveResponse \/ GiveUp

\* Threads and the event loop run on; a request that was sent arrives.
Fairness ==
  /\ \A t \in Turns : WF_vars(RunTurn(t))
  /\ \A c \in Conns : WF_vars(Stream(c))
  /\ WF_vars(ReceiveResponse)

SafetySpec == Init /\ [][Next]_vars
Spec == SafetySpec /\ Fairness

-----------------------------------------------------------------------------
(* Correctness.                                                            *)

Items == [turn : Turns, no : 0..MaxEvents]
ConnStates == {"unused", "requested", "open", "closed"}
TurnStates == {"idle", "posted", "running", "finished", "stored", "raised"}

TypeOK ==
  /\ conn \in [Conns -> ConnStates]
  /\ latest \in Conns \cup {None}
  /\ queue \in [Conns -> Seq(Items)]
  /\ registered \in Conns \cup {None}
  /\ turn \in [Turns -> TurnStates]
  /\ entry \in [Turns -> Conns \cup {None}]
  /\ pushed \in [Turns -> 0..MaxEvents]
  /\ tab \in 0..MaxTurns
  /\ sending \in BOOLEAN
  /\ source \in Conns \cup {None}
  /\ shown \in Seq(Items)
  /\ served \in [Conns -> Seq(Items)]
  /\ patient \in BOOLEAN

\* What has been put into a stream: the items its client was sent, then those
\* that wait.
Carried(c) == served[c] \o queue[c]

\* A stream shows each turn that pushes into it from its first event on,
\* nothing left out, repeated or out of order, whatever connections come and
\* go meanwhile: the queue is captured once, before the first event.  Number n
\* of a turn is preceded by its numbers below n, by n - 1 for one, and by
\* nothing else of that turn, its sentinel least of all.
NoGapInATurn ==
  \A c \in Conns : \A i \in DOMAIN Carried(c) :
    LET item == Carried(c)[i]
        earlier == {Carried(c)[j] : j \in 1..(i - 1)}
    IN  item.no # 0 =>
          /\ entry[item.turn] = c
          /\ item.no # 1 => Item(item.turn, item.no - 1) \in earlier
          /\ \A e \in earlier : e.turn = item.turn => e.no \in 1..(item.no - 1)

\* The dict holds the connection that was opened last, as long as that one is
\* open, and never one that is closed: an older stream that ends later does
\* not take the newer one's entry with it.
LatestIsRegistered ==
  registered = IF latest # None /\ conn[latest] = "open" THEN latest ELSE None

\* A tab that has waited for every response so far shows, while it waits for
\* one, only what that turn pushed, although the events of the turn before may
\* reach it late.
OwnTurnShown == patient => \A i \in DOMAIN shown : shown[i].turn = tab

\* Server and tab together: no stream has a gap, and none shows a stranger.
StreamShowsTurn == NoGapInATurn /\ OwnTurnShown

\* No stream is served for ever: it ends with the turn's sentinel or when the
\* tab, which always settles, has closed its EventSource.
StreamsEnd == \A c \in Conns : conn[c] = "open" ~> conn[c] = "closed"
=============================================================================
