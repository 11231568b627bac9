----------------------------- MODULE Transcript -----------------------------
(***************************************************************************)
(* What a Journey promises to whoever may open it: one conversation that   *)
(* starts empty, only ever grows while the Journey exists, in which an     *)
(* answer stands only after the question it answers, no question is        *)
(* posted twice and none is answered twice, and which, once the Journey    *)
(* is deleted, is gone for good.  Nothing here speaks of requests,         *)
(* database calls or background work: Journey.tla shows that the server    *)
(* implements this under every interleaving and restart.                   *)
(***************************************************************************)
EXTENDS Naturals, Sequences

CONSTANTS
  Sessions,  \* Journey ids (uuid4: never handed out twice)
  Requests   \* POST /sessions/{id}/messages calls

VARIABLES
  phase,     \* phase[s]: "absent", then "open", then "closed"
  log        \* log[s]: the conversation a reader of s is shown

vars == <<phase, log>>

Roles == {"user", "assistant"}
Entry == [role : Roles, req : Requests]

Entries(q) == {q[i] : i \in DOMAIN q}
Question(r) == [role |-> "user", req |-> r]
Answer(r) == [role |-> "assistant", req |-> r]

-----------------------------------------------------------------------------
Init ==
  /\ phase = [s \in Sessions |-> "absent"]
  /\ log = [s \in Sessions |-> <<>>]

Open(s) ==
  /\ phase[s] = "absent"
  /\ phase' = [phase EXCEPT ![s] = "open"]
  /\ UNCHANGED log

PostQuestion(s, r) ==
  /\ phase[s] = "open"
  /\ \A t \in Sessions : Question(r) \notin Entries(log[t])
  /\ log' = [log EXCEPT ![s] = Append(@, Question(r))]
  /\ UNCHANGED phase

PostAnswer(s, r) ==
  /\ phase[s] = "open"
  /\ Question(r) \in Entries(log[s])
  /\ Answer(r) \notin Entries(log[s])
  /\ log' = [log EXCEPT ![s] = Append(@, Answer(r))]
  /\ UNCHANGED phase

\* One delete closes one Journey; "Forget everything" closes several at once.
Close(S) ==
  /\ S # {}
  /\ \A s \in S : phase[s] = "open"
  /\ phase' = [s \in Sessions |-> IF s \in S THEN "closed" ELSE phase[s]]
  /\ log' = [s \in Sessions |-> IF s \in S THEN <<>> ELSE log[s]]

Next ==
  \/ \E s \in Sessions : Open(s)
  \/ \E s \in Sessions, r \in Requests : PostQuestion(s, r) \/ PostAnswer(s, r)
  \/ \E S \in SUBSET Sessions : Close(S)

Spec == Init /\ [][Next]_vars
=============================================================================
