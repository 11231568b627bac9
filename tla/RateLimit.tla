------------------------------- MODULE RateLimit -------------------------------
(***************************************************************************)
(* check_rate_limit (api/rate_limit.py) for one bucket and key: a call     *)
(* reads the monotonic clock, then takes the lock, drops the hits that     *)
(* have left the window and is refused or recorded.  Callers run in        *)
(* threads, and may wait for the lock in any order.                        *)
(***************************************************************************)
EXTENDS Naturals, Sequences, FiniteSets

CONSTANTS
  Callers,    \* calls of check_rate_limit
  Limit,      \* limit
  WindowTicks,    \* window_seconds
  LastTick    \* bound: clock

ASSUME LimiterAssumption == IsFiniteSet(Callers) /\ {Limit, WindowTicks, LastTick} \subseteq Nat

VARIABLES
  tick,       \* time.monotonic()
  hits,       \* the deque: time stamps
  caller,     \* caller[c]: progress and its own `now`
  late        \* history: calls another overtook between clock and lock

limiterVars == <<tick, hits, caller, late>>

LimiterInit ==
  /\ tick = 0 /\ hits = <<>> /\ late = {}
  /\ caller = [c \in Callers |-> [at |-> "away", now |-> 0]]

Tick ==
  /\ tick < LastTick /\ tick' = tick + 1
  /\ UNCHANGED <<hits, caller, late>>

ReadClock(c) ==
  /\ caller[c].at = "away"
  /\ caller' = [caller EXCEPT ![c] = [at |-> "waiting", now |-> tick]]
  /\ UNCHANGED <<tick, hits, late>>

\* Fault: a hit exactly as old as the window is dropped too.
DropEarly(q, now) ==
  LET gone == {i \in DOMAIN q : \A j \in 1..i : now >= q[j] + WindowTicks}
  IN SubSeq(q, 1 + Cardinality(gone), Len(q))

\* while hits and now - hits[0] > window: popleft
DropExpired(q, now) ==
  LET gone == {i \in DOMAIN q : \A j \in 1..i : now > q[j] + WindowTicks}
  IN SubSeq(q, 1 + Cardinality(gone), Len(q))

UnderLock(c) ==
  /\ caller[c].at = "waiting"
  /\ LET kept == DropExpired(hits, caller[c].now)
         admitted == Len(kept) < Limit
     IN /\ hits' = IF admitted THEN Append(kept, caller[c].now) ELSE kept
        /\ caller' = [caller EXCEPT ![c].at = IF admitted THEN "admitted" ELSE "refused"]
  /\ late' = late \cup {d \in Callers : caller[d].at = "waiting" /\ caller[d].now < caller[c].now}
  /\ UNCHANGED tick

LimiterNext == Tick \/ \E c \in Callers : ReadClock(c) \/ UnderLock(c)

LimiterSpec == LimiterInit /\ [][LimiterNext]_limiterVars

AdmittedIn(from, to) ==
  {c \in Callers : caller[c].at = "admitted" /\ caller[c].now \in from..to}
Back(t) == IF t > WindowTicks THEN t - WindowTicks ELSE 0

\* However the callers queue for the lock, the calls admitted with stamps in one
\* window exceed the limit by no more than those overtaken on the way to it.
BurstBounded ==
  \A t \in 0..LastTick :
    Cardinality(AdmittedIn(Back(t), t)) <= Limit + Cardinality(late \cap AdmittedIn(Back(t), t))

\* As long as nobody was overtaken, nobody is refused who has not seen `limit`
\* calls in the window behind him: the deque holds no hit too many.
RefusedOnlyAtLimit ==
  late = {} =>
    \A c \in Callers : caller[c].at = "refused" =>
      Cardinality(AdmittedIn(Back(caller[c].now), caller[c].now)) >= Limit

\* The window neither leaks nor sticks.
WindowKept == BurstBounded /\ RefusedOnlyAtLimit
=============================================================================
