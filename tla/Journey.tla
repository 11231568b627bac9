------------------------------- MODULE Journey -------------------------------
(***************************************************************************)
(* The Journey store (api/db.py) and the requests that work on it          *)
(* (api/server.py): create_session, the send_message handler, the Tier2    *)
(* background task it schedules, delete_session, reset_privacy_data and    *)
(* the claim a magic link makes.                                           *)
(*                                                                         *)
(* Every plain `def` route runs in a thread of its own and every db        *)
(* function opens its own SQLite connection, so a handler is a process     *)
(* and each of its database calls one atomic step; between two calls any   *)
(* other process may run.  The LLM call of a turn, and that of Tier2,      *)
(* sits between a read of the whole WorldState document and a write of     *)
(* the whole document.                                                     *)
(*                                                                         *)
(* Data.  A WorldState document is abstracted to the set of turns it has   *)
(* integrated and the set of turns its Tier2 understanding was computed    *)
(* from.  A request stands for its own message text and its own reply.     *)
(*                                                                         *)
(* A definition headed "Fault:" is a slip the code could have contained.   *)
(* It is no part of the specification; it stands before the definition it  *)
(* would replace, and each property below is violated by one of them.      *)
(***************************************************************************)
EXTENDS Naturals, Sequences, FiniteSets

CONSTANTS
  Sessions,   \* Journey ids, uuid4
  Requests,   \* POST /sessions/{id}/messages calls, each made once
  Users,      \* accounts
  Anons,      \* anonymous browser ids, uuid4
  AnonLimit,  \* ANONYMOUS_MESSAGE_LIMIT
  MaxCrashes  \* how many process restarts are considered

ASSUME IdentityAssumption == Users \cap Anons = {}
ASSUME StatusAssumption == (Users \cup Anons) \cap {"absent", "deleted"} = {}
ASSUME BoundAssumption == AnonLimit \in Nat /\ MaxCrashes \in Nat

VARIABLES
  owner,      \* owner[s]: the row's single owner column, or "absent"/"deleted"
  world,      \* world[s]: sessions.world_state_json
  debug,      \* debug[s]: the state inside sessions.debug_json
  messages,   \* messages[s]: rows of `messages` for s, ORDER BY id
  events,     \* events[s]: the requests that wrote `behavioral_events` for s
  pc,         \* pc[r]: how far request r (and its Tier2 task) has got
  sess,       \* sess[r]: the session in r's path
  who,        \* who[r]: the identity resolve_identity gave r
  copy,       \* copy[r]: the WorldState r holds in memory, empty once dead
  outcome,    \* outcome[r]: how r's run_turn ended
  deleting,   \* deleting[u]: what u's delete handlers, past their check, will delete
  resetting,  \* reset_all_data calls past their SELECT, with the ids selected
  crashes,    \* restarts so far
  claims,     \* history: claims[a] = accounts that claimed browser a's Journeys
  saved,      \* history: saved[s] = turns whose save_turn_result hit a row
  crossed     \* history: the turns saved while somebody else held a copy of
              \*   the Journey's document

dbVars == <<owner, world, debug, messages, events>>
reqVars == <<pc, sess, who, copy, outcome>>
adminVars == <<deleting, resetting, crashes>>
history == <<claims, saved, crossed>>
vars == <<dbVars, reqVars, adminVars, history>>

-----------------------------------------------------------------------------
Identities == Users \cup Anons

\* turns: integrated by update_state; seen: the turns Tier2 was computed from.
WorldState == [turns : SUBSET Requests, seen : SUBSET Requests]
EmptyWorld == [turns |-> {}, seen |-> {}]
NoDebug == [null |-> TRUE]   \* debug_json IS NULL

Roles == {"user", "assistant"}
Entry == [role : Roles, req : Requests]
Question(r) == [role |-> "user", req |-> r]
Answer(r) == [role |-> "assistant", req |-> r]
Entries(q) == {q[i] : i \in DOMAIN q}

\* interp: Interpretation failed, state unchanged.  stage: a later stage
\* failed, the turn is integrated but unanswered.  raised: an exception
\* run_turn does not catch.
Outcomes == {"answered", "stage", "interp", "raised"}

InFlight == {"owned", "admitted", "loaded", "ran", "asked", "saved", "recorded"}
Background == {"replied", "understanding"}
Finished == {"refused", "failed", "done", "lost"}
Stages == {"idle"} \cup InFlight \cup Background \cup Finished

Live(s) == owner[s] \in Identities

Goto(r, from, to) ==
  /\ pc[r] = from
  /\ pc' = [pc EXCEPT ![r] = to]

-----------------------------------------------------------------------------
Init ==
  /\ owner = [s \in Sessions |-> "absent"]
  /\ world = [s \in Sessions |-> EmptyWorld]
  /\ debug = [s \in Sessions |-> NoDebug]
  /\ messages = [s \in Sessions |-> <<>>]
  /\ events = [s \in Sessions |-> {}]
  /\ pc = [r \in Requests |-> "idle"]
  /\ sess \in [Requests -> Sessions]
  /\ who \in [Requests -> Identities]
  /\ copy = [r \in Requests |-> EmptyWorld]
  /\ outcome = [r \in Requests |-> "none"]
  /\ deleting = [u \in Users |-> {}]
  /\ resetting = {}
  /\ crashes = 0
  /\ claims = [a \in Anons |-> {}]
  /\ saved = [s \in Sessions |-> {}]
  /\ crossed = {}

-----------------------------------------------------------------------------
(* Journeys appear, change hands, and disappear.                           *)

CreateSession(s, i) ==
  /\ owner[s] = "absent"
  /\ owner' = [owner EXCEPT ![s] = i]
  /\ UNCHANGED <<world, debug, messages, events, reqVars, adminVars, history>>

\* Fault: an UPDATE without its WHERE anonymous_id.
ClaimEverything(a, u) ==
  /\ owner' = [s \in Sessions |-> IF Live(s) THEN u ELSE owner[s]]
  /\ claims' = [claims EXCEPT ![a] = @ \cup {u}]
  /\ UNCHANGED <<world, debug, messages, events, reqVars, adminVars, saved, crossed>>

\* claim_anonymous_sessions, run by /auth/verify: every row of the browser's
\* anonymous id, in one UPDATE.
Claim(a, u) ==
  /\ owner' = [s \in Sessions |-> IF owner[s] = a THEN u ELSE owner[s]]
  /\ claims' = [claims EXCEPT ![a] = @ \cup {u}]
  /\ UNCHANGED <<world, debug, messages, events, reqVars, adminVars, saved, crossed>>

\* Rows of S and everything delete_session / reset_all_data delete with them.
\* msgs: the sessions whose messages and events go, which for a reset are the
\* ones it selected earlier.
Forget(S, msgs) ==
  /\ owner' = [s \in Sessions |-> IF s \in S /\ Live(s) THEN "deleted" ELSE owner[s]]
  /\ world' = [s \in Sessions |-> IF s \in S THEN EmptyWorld ELSE world[s]]
  /\ debug' = [s \in Sessions |-> IF s \in S THEN NoDebug ELSE debug[s]]
  /\ messages' = [s \in Sessions |-> IF s \in msgs THEN <<>> ELSE messages[s]]
  /\ events' = [s \in Sessions |-> IF s \in msgs THEN {} ELSE events[s]]

\* DELETE /sessions/{id}: require_user and _require_owned_session ...
RequireOwnedForDelete(u, s) ==
  /\ owner[s] = u
  /\ deleting' = [deleting EXCEPT ![u] = @ \cup {s}]
  /\ UNCHANGED <<dbVars, reqVars, resetting, crashes, history>>

\* ... then, in one transaction, db.delete_session.
DeleteSession(u, s) ==
  /\ s \in deleting[u]
  /\ deleting' = [deleting EXCEPT ![u] = @ \ {s}]
  /\ Forget({s}, {s})
  /\ UNCHANGED <<reqVars, resetting, crashes, history>>

\* POST /privacy/reset: the SELECT of the account's session ids runs before
\* the first DELETE opens the transaction ...
SelectForReset(u) ==
  /\ resetting' = resetting \cup {[user |-> u, ids |-> {s \in Sessions : owner[s] = u}]}
  /\ UNCHANGED <<dbVars, reqVars, deleting, crashes, history>>

\* ... which deletes children by the selected ids but rows by user_id.
ResetAllData(p) ==
  /\ p \in resetting
  /\ resetting' = resetting \ {p}
  /\ Forget({s \in Sessions : owner[s] = p.user}, p.ids)
  /\ UNCHANGED <<reqVars, deleting, crashes, history>>

-----------------------------------------------------------------------------
(* The send_message handler, one action per database call.                 *)

\* Fault: existence is checked, ownership is not.
SomebodyOwns(r) == Live(sess[r])

\* Each session has one owner column set; a missing row matches nobody.
Owns(r) == owner[sess[r]] = who[r]

\* Session ids are unguessable, so a client only names one that was created.
RequireOwnedSession(r) ==
  /\ owner[sess[r]] # "absent"
  /\ IF Owns(r) THEN Goto(r, "idle", "owned") ELSE Goto(r, "idle", "refused")
  /\ UNCHANGED <<dbVars, sess, who, copy, outcome, adminVars, history>>

PriorUserMessages(s) == Cardinality({i \in DOMAIN messages[s] : messages[s][i].role = "user"})

\* Fault: off by one.
CapExceeded(r) == who[r] \in Anons /\ PriorUserMessages(sess[r]) > AnonLimit

CapReached(r) == who[r] \in Anons /\ PriorUserMessages(sess[r]) >= AnonLimit

\* The rate limiter may refuse (429) whoever calls too fast; an anonymous
\* caller is also refused (401) at the cap.
Admit(r) ==
  /\ \/ Goto(r, "owned", "refused")
     \/ ~CapReached(r) /\ Goto(r, "owned", "admitted")
  /\ UNCHANGED <<dbVars, sess, who, copy, outcome, adminVars, history>>

\* load_state raises KeyError when the row is gone: the request ends in a 500.
LoadState(r) ==
  /\ IF Live(sess[r])
       THEN /\ Goto(r, "admitted", "loaded")
            /\ copy' = [copy EXCEPT ![r] = world[sess[r]]]
       ELSE /\ Goto(r, "admitted", "failed")
            /\ UNCHANGED copy
  /\ UNCHANGED <<dbVars, sess, who, outcome, adminVars, history>>

\* Fault: a document rebuilt from the current message alone.
IntegrateAfresh(w, r, o) == IF o = "interp" THEN w ELSE [w EXCEPT !.turns = {r}]

\* What run_turn makes of the document it was given.
Integrate(w, r, o) == IF o = "interp" THEN w ELSE [w EXCEPT !.turns = @ \cup {r}]

RunTurn(r) ==
  \/ \E o \in {"answered", "stage", "interp"} :
        /\ Goto(r, "loaded", "ran")
        /\ outcome' = [outcome EXCEPT ![r] = o]
        /\ copy' = [copy EXCEPT ![r] = Integrate(@, r, o)]
        /\ UNCHANGED <<dbVars, sess, who, adminVars, history>>
  \/ /\ Goto(r, "loaded", "failed")
     /\ outcome' = [outcome EXCEPT ![r] = "raised"]
     /\ copy' = [copy EXCEPT ![r] = EmptyWorld]
     /\ UNCHANGED <<dbVars, sess, who, adminVars, history>>

\* Fault: only answered questions are kept.
AppendAnsweredOnly(r) ==
  /\ Goto(r, "ran", "asked")
  /\ messages' = IF outcome[r] = "answered"
                   THEN [messages EXCEPT ![sess[r]] = Append(@, Question(r))]
                   ELSE messages
  /\ UNCHANGED <<owner, world, debug, events, sess, who, copy, outcome, adminVars, history>>

\* No foreign key is enforced: the INSERT succeeds whether or not the row of
\* the session is still there.
AppendUserMessage(r) ==
  /\ Goto(r, "ran", "asked")
  /\ messages' = [messages EXCEPT ![sess[r]] = Append(@, Question(r))]
  /\ UNCHANGED <<owner, world, debug, events, sess, who, copy, outcome, adminVars, history>>

\* Another handler, or another turn's Tier2 task, has loaded the document of
\* r's Journey and has not written its copy back.
CopyHeldElsewhere(r) ==
  \E q \in Requests \ {r} :
    sess[q] = sess[r] /\ pc[q] \in {"loaded", "ran", "asked", "understanding"}

CrossedWith(r) == IF CopyHeldElsewhere(r) THEN crossed \cup {r} ELSE crossed

\* Faults: INSERT OR REPLACE instead of UPDATE; debug_json only written for a
\* turn that was answered.
UpsertTurnResult(r) ==
  /\ Goto(r, "asked", "saved")
  /\ owner' = [owner EXCEPT ![sess[r]] = who[r]]
  /\ world' = [world EXCEPT ![sess[r]] = copy[r]]
  /\ debug' = [debug EXCEPT ![sess[r]] = copy[r]]
  /\ saved' = [saved EXCEPT ![sess[r]] = @ \cup (copy[r].turns \cap {r})]
  /\ crossed' = CrossedWith(r)
  /\ copy' = [copy EXCEPT ![r] = EmptyWorld]
  /\ UNCHANGED <<messages, events, sess, who, outcome, adminVars, claims>>

SaveAnsweredDebug(r) ==
  /\ Goto(r, "asked", "saved")
  /\ IF Live(sess[r])
       THEN /\ world' = [world EXCEPT ![sess[r]] = copy[r]]
            /\ debug' = IF outcome[r] = "answered"
                          THEN [debug EXCEPT ![sess[r]] = copy[r]] ELSE debug
            /\ saved' = [saved EXCEPT ![sess[r]] = @ \cup (copy[r].turns \cap {r})]
            /\ crossed' = CrossedWith(r)
       ELSE UNCHANGED <<world, debug, saved, crossed>>
  /\ copy' = [copy EXCEPT ![r] = EmptyWorld]
  /\ UNCHANGED <<owner, messages, events, sess, who, outcome, adminVars, claims>>

\* An UPDATE of the whole row: nothing is written when the row is gone.
SaveTurnResult(r) ==
  /\ Goto(r, "asked", "saved")
  /\ IF Live(sess[r])
       THEN /\ world' = [world EXCEPT ![sess[r]] = copy[r]]
            /\ debug' = [debug EXCEPT ![sess[r]] = copy[r]]
            /\ saved' = [saved EXCEPT ![sess[r]] = @ \cup (copy[r].turns \cap {r})]
            /\ crossed' = CrossedWith(r)
       ELSE UNCHANGED <<world, debug, saved, crossed>>
  /\ copy' = [copy EXCEPT ![r] = EmptyWorld]
  /\ UNCHANGED <<owner, messages, events, sess, who, outcome, adminVars, claims>>

\* save_events writes nothing when the turn changed no status or when event
\* recording is switched off.
SaveEvents(r) ==
  /\ Goto(r, "saved", "recorded")
  /\ \/ /\ outcome[r] # "interp"
        /\ events' = [events EXCEPT ![sess[r]] = @ \cup {r}]
     \/ UNCHANGED events
  /\ UNCHANGED <<owner, world, debug, messages, sess, who, copy, outcome, adminVars, history>>

\* Fault: the reply is sent and never stored.
RespondOnly(r) ==
  /\ Goto(r, "recorded", "replied")
  /\ UNCHANGED <<dbVars, sess, who, copy, outcome, adminVars, history>>

\* Stores the reply, if there is one, and answers the client; the Tier2 task
\* is now due.
Respond(r) ==
  /\ Goto(r, "recorded", "replied")
  /\ messages' = IF outcome[r] = "answered"
                   THEN [messages EXCEPT ![sess[r]] = Append(@, Answer(r))]
                   ELSE messages
  /\ UNCHANGED <<owner, world, debug, events, sess, who, copy, outcome, adminVars, history>>

-----------------------------------------------------------------------------
(* _run_tier2_in_background, after the response was sent.                  *)

\* Fault: waits for a row that is gone.
LoadForTier2Waits(r) ==
  /\ Live(sess[r])
  /\ Goto(r, "replied", "understanding")
  /\ copy' = [copy EXCEPT ![r] = world[sess[r]]]
  /\ UNCHANGED <<dbVars, sess, who, outcome, adminVars, history>>

LoadForTier2(r) ==
  /\ IF Live(sess[r])
       THEN /\ Goto(r, "replied", "understanding")
            /\ copy' = [copy EXCEPT ![r] = world[sess[r]]]
       ELSE /\ Goto(r, "replied", "done")
            /\ UNCHANGED copy
  /\ UNCHANGED <<dbVars, sess, who, outcome, adminVars, history>>

\* Fault: only the understanding is written, into whatever document is there.
SaveUnderstandingOnly(r) ==
  /\ Goto(r, "understanding", "done")
  /\ \E seen \in {copy[r].turns, copy[r].seen} :
       world' = IF Live(sess[r]) THEN [world EXCEPT ![sess[r]].seen = seen] ELSE world
  /\ copy' = [copy EXCEPT ![r] = EmptyWorld]
  /\ UNCHANGED <<owner, debug, messages, events, sess, who, outcome, adminVars, history>>

\* update_tier2 recomputes from the whole document, or (not due, or the LLM
\* failed) returns it unchanged; the document is written back either way.
SaveTier2Result(r) ==
  /\ Goto(r, "understanding", "done")
  /\ \E seen \in {copy[r].turns, copy[r].seen} :
       world' = IF Live(sess[r])
                  THEN [world EXCEPT ![sess[r]] = [copy[r] EXCEPT !.seen = seen]]
                  ELSE world
  /\ copy' = [copy EXCEPT ![r] = EmptyWorld]
  /\ UNCHANGED <<owner, debug, messages, events, sess, who, outcome, adminVars, history>>

-----------------------------------------------------------------------------
\* The process stops and starts again: handlers and background tasks are gone,
\* the database file is not.
Crash ==
  /\ crashes < MaxCrashes
  /\ crashes' = crashes + 1
  /\ pc' = [r \in Requests |-> IF pc[r] \in InFlight \cup Background THEN "lost" ELSE pc[r]]
  /\ copy' = [r \in Requests |-> EmptyWorld]
  /\ deleting' = [u \in Users |-> {}]
  /\ resetting' = {}
  /\ UNCHANGED <<dbVars, sess, who, outcome, history>>

Turn(r) ==
  \/ Admit(r) \/ LoadState(r) \/ RunTurn(r) \/ AppendUserMessage(r)
  \/ SaveTurnResult(r) \/ SaveEvents(r) \/ Respond(r)

Tier2(r) == LoadForTier2(r) \/ SaveTier2Result(r)

Administer ==
  \/ \E s \in Sessions, i \in Identities : CreateSession(s, i)
  \/ \E a \in Anons, u \in Users : Claim(a, u)
  \/ \E u \in Users, s \in Sessions : RequireOwnedForDelete(u, s) \/ DeleteSession(u, s)
  \/ \E u \in Users : SelectForReset(u)
  \/ \E p \in resetting : ResetAllData(p)

Next ==
  \/ \E r \in Requests : RequireOwnedSession(r) \/ Turn(r) \/ Tier2(r)
  \/ Administer
  \/ Crash

\* A thread that was started runs on: the threadpool does not abandon a
\* handler, and BackgroundTasks runs once the response is sent.
Fairness ==
  /\ \A r \in Requests : WF_vars(Turn(r)) /\ WF_vars(Tier2(r))
  /\ \A u \in Users, s \in Sessions : WF_vars(DeleteSession(u, s))

SafetySpec == Init /\ [][Next]_vars
Spec == SafetySpec /\ Fairness

-----------------------------------------------------------------------------
(* Clients that hold back.                                                 *)

\* No two requests of one Journey are in these stages together.
OneAtATime(stages) ==
  \A p, q \in Requests :
    p # q /\ pc[p] \in stages /\ pc[q] \in stages => sess[p] # sess[q]

\* One tab that waits for the reply before it sends again (Journey.svelte
\* disables its Composer while `sending`).
SerialSpec == Init /\ [][Next /\ OneAtATime(InFlight)']_vars

\* One tab that also leaves the Journey alone until Tier2 has been stored.
Patient == OneAtATime(InFlight \cup Background)
PatientSafety == Init /\ [][Next /\ Patient']_vars
PatientSpec == PatientSafety /\ Fairness

-----------------------------------------------------------------------------
(* Correctness.                                                            *)

TypeOK ==
  /\ owner \in [Sessions -> Identities \cup {"absent", "deleted"}]
  /\ world \in [Sessions -> WorldState]
  /\ debug \in [Sessions -> WorldState \cup {NoDebug}]
  /\ messages \in [Sessions -> Seq(Entry)]
  /\ events \in [Sessions -> SUBSET Requests]
  /\ pc \in [Requests -> Stages]
  /\ sess \in [Requests -> Sessions]
  /\ who \in [Requests -> Identities]
  /\ copy \in [Requests -> WorldState]
  /\ outcome \in [Requests -> Outcomes \cup {"none"}]
  /\ deleting \in [Users -> SUBSET Sessions]
  /\ resetting \in SUBSET [user : Users, ids : SUBSET Sessions]
  /\ crashes \in Nat
  /\ claims \in [Anons -> SUBSET Users]
  /\ saved \in [Sessions -> SUBSET Requests]
  /\ crossed \in SUBSET Requests

\* r was sent by the present owner of s, or by the anonymous browser whose
\* Journeys that owner has claimed.
Authorised(r, s) ==
  /\ sess[r] = s
  /\ owner[s] = who[r] \/ (who[r] \in Anons /\ owner[s] \in claims[who[r]])

\* In a Journey that exists, every message comes from a request of its owner,
\* or of the browser its owner claimed it from: _require_owned_session runs
\* once, several seconds before the handler writes, and the Journey may be
\* claimed in between.
OnlyOwnersSpeak ==
  \A s \in Sessions : Live(s) =>
    \A i \in DOMAIN messages[s] : Authorised(messages[s][i].req, s)

\* A delete handler that passed its owner check never deletes a Journey that
\* has since become someone else's: no claim moves a row an account owns.
DeleteStillAuthorised ==
  \A u \in Users : \A s \in deleting[u] : owner[s] \in {u, "deleted"}

\* Wherever a handler is cut off, what it leaves behind is a prefix of: the
\* question, the turn's WorldState, its events, the answer.  So the stored
\* state of a Journey never holds a turn whose question is not in its
\* transcript, and no answer or event stands without its saved turn.
WriteOrder ==
  \A s \in Sessions : Live(s) =>
    \A r \in Requests :
      /\ r \in world[s].turns => Question(r) \in Entries(messages[s])
      /\ r \in events[s] => r \in saved[s]
      /\ Answer(r) \in Entries(messages[s]) => r \in saved[s]
      /\ r \in saved[s] => Question(r) \in Entries(messages[s])

\* Once the client has been answered, question, turn and answer are in the
\* database, and no later step but the Journey's deletion takes them out
\* again; a restart does not.  Question and answer stay whatever else runs.
\* The turn stays in the Journey's WorldState unless another handler or Tier2
\* task held a copy of that document when this one was written: such a copy
\* knows nothing of the turn and is written back whole.
ReplyIsDurable ==
  \A r \in Requests :
    pc[r] \in {"replied", "understanding", "done"} /\ Live(sess[r]) =>
      /\ Question(r) \in Entries(messages[sess[r]])
      /\ outcome[r] # "interp" => r \in crossed \/ r \in world[sess[r]].turns
      /\ outcome[r] = "answered" => Answer(r) \in Entries(messages[sess[r]])

\* The stored Tier2 understanding only ever speaks of turns the very document
\* that carries it has integrated, although it is computed from a copy read
\* seconds earlier: the copy is written back as a whole.
UnderstandingGrounded ==
  \A s \in Sessions : world[s].seen \subseteq world[s].turns

\* Every handler that passed its checks runs to an end, and so does the Tier2
\* task of every turn, whatever is deleted under them.
EveryRequestSettles ==
  \A r \in Requests : pc[r] \in InFlight \cup Background ~> pc[r] \in Finished

\* WorldState's principle "nothing is silently deleted": a turn that was saved
\* stays integrated as long as its Journey exists.
NothingSilentlyDeleted ==
  \A s \in Sessions : Live(s) => saved[s] \subseteq world[s].turns

\* delete_session "removes a Journey and everything that references it".
NothingReferencesDeleted ==
  \A s \in Sessions : owner[s] = "deleted" =>
    /\ messages[s] = <<>>
    /\ events[s] = {}

\* "exactly this many turns complete for free before the next attempt is
\* blocked": the questions anonymous callers get into one Journey.
AnonymousCap ==
  \A s \in Sessions :
    Cardinality({r \in Requests : who[r] \in Anons /\ Question(r) \in Entries(messages[s])})
      <= AnonLimit

\* The Clarity Brief (built from debug_json) and the WorldState the next turn
\* starts from (world_state_json) know the same turns.
BriefAgreesWithWorld ==
  \A s \in Sessions : debug[s] # NoDebug => debug[s].turns = world[s].turns

\* What a reader of Journey s is shown; a missing row is a 404.
Visible(s) == IF Live(s) THEN messages[s] ELSE <<>>

Conversation == INSTANCE Transcript WITH
  phase <- [s \in Sessions |-> IF Live(s) THEN "open"
                               ELSE IF owner[s] = "absent" THEN "absent" ELSE "closed"],
  log <- [s \in Sessions |-> Visible(s)]

\* The server implements the abstract Transcript: concurrent handlers,
\* deletes, resets, claims and restarts never make a Journey's conversation
\* do anything but grow by a new question, grow by the answer to a question
\* it holds, or vanish for good.
ConversationPromised == Conversation!Spec
=============================================================================
