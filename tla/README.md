# Confidant, specified

This directory is a TLA+ development of the Confidant server: the FastAPI
application in `src/src`, its SQLite store, the turn pipeline that calls
language models, the offline scripts, and the two screens of the web client
(`Journey.svelte`, `Settings.svelte`) that have concurrency of their own. Modules are translated from the Python and Svelte
source, handler by handler; `PROJECT.json` maps each definition to the lines it
stands for.

    tlc -workers 2 -config MCJourney_safety.cfg MCJourney.tla    # one run
    tlapm Journey_proofs.tla                                     # one proof module

## 1. The system

A *Journey* is one conversation. Its row in `sessions` holds an owner (an
account, or the anonymous id of a browser), a whole JSON document called the
WorldState, and the debug document of the last turn; its messages and
behavioural events are rows of their own. A *turn* is one
`POST /sessions/{id}/messages`.

| Part | Source | State | Operations | Talks to |
|---|---|---|---|---|
| Journey store, message handling | `api/server.py`, `api/db.py` | `sessions`, `messages`, `behavioral_events` | create, send, Tier2 in the background, delete, reset, claim | orchestrator (call), stage stream (queue), sign-in (owner column) |
| Turn orchestrator | `orchestrator/engine.py` | none between turns: takes a WorldState, returns a `TurnResult` | `run_turn` | the four stage engines, state builder, callbacks |
| Stage engines | `interpretation`, `judgment`, `planner`, `response` | none | one attempt: ask, parse, validate | providers |
| Providers | `llm/providers.py` | chain of models per component | `call_openrouter`, streamed or not | HTTP |
| State builder | `state/builder.py` | the items of a WorldState | `update_state`, resolutions, corrections | orchestrator |
| Understanding | `understanding/` | Tier1 and Tier2 statements inside the WorldState | recompute, gate, grounding filter | state builder's items, LLM |
| Clarity Brief | `executor/` | the previous brief per Journey | build, diff, render | debug document |
| Sign-in | `api/server.py`, `api/db.py`, `api/email.py` | `users`, `magic_links`, `auth_sessions`, cookies | request a link, verify it, log out | the owner column of `sessions` |
| Stage stream | `api/server.py`, `lib/api.js`, `Journey.svelte` | dict of queues, one per Journey | open, deliver, push, close, reconnect | send_message's thread |
| Rate limiter | `api/rate_limit.py` | deques of timestamps | check | send_message, request-link |
| Offline scripts | `scripts/run_*.py`, `learning`, `insight`, `pom` | derived tables per account | read an account, compute, replace its rows | the store, beside the server |
| Privacy controls | `/privacy/*`, reflections, feedback in `api/` | preferences, reflections, answers | opt out, delete, reset, reflect, export | the store, the scripts |
| Settings screen | `Settings.svelte`, `lib/api.js` | two switches | load, touch | privacy controls |
| Counselling modes, POM | `orchestrator/modes.py`, `pom/` | mode per Journey, profile per account | clauses per response, compute | orchestrator, scripts |
| Events, need state, patterns | `instrumentation/events.py`, `need_state`, `learning` | `behavioral_events` | diff, signal, count | orchestrator, Home |
| Usage | `instrumentation/usage.py` | trackers, `llm_usage_records` | record, summarise, store | providers, send_message |
| Schema | `db.init_db`, `scripts/backfill_*` | shape of every table | upgrade at startup, give ids | the store |
| Retrieval's rendering, evaluation, legacy `engine/`, other screens | | none, or display only | | |

**How it runs.** Every plain `def` route runs in a thread of the worker pool;
the stream is a coroutine on the event loop. Every function of `db.py` opens a
connection of its own and commits when it returns, so a handler is a sequence
of transactions with other handlers in between. Python's `sqlite3` opens a
transaction at the first INSERT, UPDATE or DELETE: a SELECT before it commits
by itself, so a function that reads and then writes is two steps, not one.
Foreign keys are not enforced. One machine, one process, which the host stops
when it is idle.

**Where it is hard.** A turn reads the whole WorldState, spends seconds in LLM
calls, and writes the whole document; Tier2 does the same once more after the
response; the offline scripts do the like for a whole account, beside the
server. Ownership and the anonymous cap are checked once, at the start.
Deletes, resets and claims run meanwhile. A turn fails at any of four stages,
each with a retry over a chain of models, and what is already integrated must
stand. Progress is pushed from a worker thread into a queue of the event loop
that connections replace and abandon. A sign-in is five transactions.

`PROJECT.json` lists each such place under `hazards`, with its line and the
properties that watch it, or the reason none does.

## 2. Modules

| Module | What it is |
|---|---|
| `Transcript` | abstract: what a Journey promises its readers |
| `Journey` | the store and every handler that works on it, one action per database call |
| `Journey_proofs` | its theorems about who may speak and delete |
| `JourneyStore_proofs` | its theorems about what stays in the store, the refinement of `Transcript`, and the patient client |
| `StagedTurn` | abstract: what `TurnResult` promises |
| `TurnPipeline` | `run_turn` with its attempts, model chains, streaming and failures |
| `TurnPipeline_proofs` | its theorems |
| `StageStream` | the progress stream: event loop, worker threads and browser tab |
| `StageStream_proofs` | its theorems |
| `SignIn` | mailed links, accounts, login sessions and the claim |
| `SignIn_proofs` | its theorems |
| `KnowledgeLedger` | abstract: what a WorldState promises about knowledge |
| `KnowledgeBuilder` | the items of a WorldState through `update_state`, resolutions and corrections |
| `KnowledgeBuilder_proofs` | its theorems |
| `AccountData` | what is derived about an account: scripts, turns, delete, reset, preferences, export |
| `AccountData_proofs` | its theorems |
| `Understanding` | Tier1 statements, Tier2's candidates, gate and grounding |
| `ClarityBrief` | the brief, its diff and the cursor, with several readers |
| `StreamText` | the response text extractor over every cutting of a text |
| `RateLimit` | the sliding window under concurrent callers |
| `Coaching` | modes, probes and callbacks of a response; what the POM rests on |
| `StageOutputs` | validators, repairs and filters between a model's answer and its use |
| `UsageLog` | trackers, their windows, sums and records |
| `Storage` | `init_db` over old shapes with crashes; the backfill |
| `Trajectory` | status changes, events, stagnation signals, need state, patterns, the card on Home |
| `People` | entities and feelings, rewritten in place |
| `PrivacyScreen` | the two privacy switches against the server |
| `Components_proofs` | lemmas about folds; the theorems of the eleven modules from `Understanding` to `PrivacyScreen` |
| `MCJourney`, `MCTurnPipeline`, `MCStageStream`, `MCSignIn`, `MCKnowledgeBuilder`, `MCAccountData` | instances for TLC |
| `MCComponents` | one instance of the eleven modules from `Understanding` to `PrivacyScreen` |

Definitions headed `Fault:` are not part of any specification. Each is a slip
the code could have contained (a dropped guard, an off-by-one, a missing
reset); put in the place of the definition after it, it makes the property
`PROJECT.json` names under `mutants` fail. That is how we know the properties
are about the code.

### Journey

A request is a process. `pc[r]` walks through the calls of `send_message`:
`RequireOwnedSession`, `Admit` (rate limit and anonymous cap), `LoadState`,
`RunTurn`, `AppendUserMessage`, `SaveTurnResult`, `SaveEvents`, `Respond`, then
`LoadForTier2` and `SaveTier2Result` of `_run_tier2_in_background`. `copy[r]` is
the WorldState the thread holds in memory. A WorldState is abstracted to the
set of turns integrated in it and the set of turns its Tier2 understanding was
computed from: enough to tell a lost turn, a stale document or an ungrounded
understanding from a correct one. `RunTurn` has the four ways `run_turn` ends
(TurnPipeline says how); it changes only memory.

`Forget` is what the two deleting functions have in common; `reset_all_data`
selects its session ids in one step and deletes in another, the children by the
selected ids and the rows by `user_id`, as the code does. A row that is gone
stays gone because ids are uuid4: `owner[s]` is `"absent"`, an identity, or
`"deleted"`. `Crash` throws away every thread and background task and keeps the
tables.

`claims`, `saved` and `crossed` are history variables; no action reads them.
`crossed` are the turns that were saved while somebody else held a copy of the
same document (`CopyHeldElsewhere`): the copy's holder may still write the turn
away, as `lost_turn` shows.

### TurnPipeline

The variables are the locals of `run_turn` and of one attempt: the stages
completed, the attempt (1 or 2), the model of the chain being asked, and whether
its text is being parsed. `AttemptFails` is `_with_bounded_retry`;
`ModelFails` walks the chain of `call_openrouter`. `StreamBreaks` and
`OutputNoObject` are the two ways an exception escapes (section 6). The
WorldState is a record of turn numbers: how many messages were integrated, and
at which the parts derived from them were last computed.

### StageStream

Connections and turns are numbered in the order the tab sends them. `Send` is
`handleSend`: the EventSource and the POST leave together and reach the server
in either order; `Reconnect` is the browser's own retry after a connection
ended. `OpenStream`, `Deliver`, `NoticeDisconnect`, `Close` are `stream_stages`
and its generator; `StartTurn` captures the queue, `Push`, `FinishTurn` (the
sentinel), `RaiseTurn` (no sentinel) and `StoreTurn` are the worker thread.

### SignIn

`/auth/verify` is a process: `ReadLink`, `BurnLink`, `FindUser`, `InsertUser`,
`ClaimJourneys`, `CreateAuthSession`, `Respond`. A browser stands for its
anonymous id, a call of `/auth/verify` for the ids it may mint. Links expire,
login sessions expire, browsers log out, the process restarts, and the response
may never reach the browser.

### KnowledgeBuilder

`items[k]` is the list of kind `k`; each pass through a loop of `update_state`,
`apply_judgment_resolutions` and `apply_knowledge_corrections` is an action,
`phase` says which loop runs, and what a loop is given is anything the schemas
admit. A text stands for the contents that are equal after
`strip().lower()`, and the constant `Overlap` for `_is_resolved_by`, which is
symmetric but not transitive: that is where the surprises are. `Hits` and
`Target` are the four searches of `_find_active_correction_target` in their
order; `keys` are the two sets of keys it is checked against. `aside` holds
what `_reconcile_unknowns` has taken out of the list and puts back at its end.
These functions are sequential: the hazards are long sequences of calls, not
interleavings.

### AccountData

A script is one process: `StartScript`, then per account the opt-out check, the
statements of its reader (`GetEventsForUser`, `SelectRecent`, `SelectEvidence`,
`SelectTexts`, `ReadWorlds`, `ReadReflections`, `ReadFeedback`), an LLM call in
between, and `Replace`, `ReplaceInsights` or `ReplacePOM`; it may be aborted
anywhere. A request is a process with a program counter of its own: a turn
(preference, derived rows, state, events), a delete, a reset (ids, then rows), a
reflection, an answer to the POM, the settings (two transactions), an export
(table by table). A derived row is the set of sources it was computed from,
which is what every property of it is about. `DeleteRows` leaves `reflections` as it
is, as `delete_session` does: what an account answered about a Journey
(`Reflected`) is still read by the next Personal Operating Model. `gone` counts
these answers as removed all the same. `gone`, `overtaken`, `stale` and `consent`
are history variables.

### The components of one call

`Understanding` takes any change of the items per turn that the state builder can
make (`Moves`: a goal may go to any status and come back, a decision only between
deferred and resolved, an answered unknown and a corrected fact stay as they are,
entities and feelings are renewed), or a turn that failed and changes nothing, and
then does what `update_tier2` does: gate, synthesis, grounding or failure. Its
task may also be lost with the process.
`ClarityBrief` steps each call of the endpoint through its database calls while
turns complete. `RateLimit` has a clock, the stamp, and the part under the lock.
`StreamText` feeds a text in deltas of any length. `Coaching` composes the
clause a response gets from the mode, the turn and the profile, and the profile
from what an LLM may answer and from how goals ended. `StageOutputs` takes one
answer per stage and applies validators, repairs and filters in the order of the
code, with the memory of questions from turn to turn. `UsageLog` runs handlers
with trackers of their own beside the runner that keeps one. `Storage` walks
through `init_db` statement by statement, because every DDL statement commits by
itself. Beside it, turns, background tasks and the backfill each load a document
(`held`) and write it back later; `overtaken` are the Journeys that were written
while another of them held a copy.
`Trajectory` is one turn in the order its parts touch status and
events, with what reads them afterwards; each item carries the trail of its
statuses as history, and the events of an item are the positions it has in the
table. `People` is `_merge_entities` and `_merge_emotional_signals`, with all that
was named, told and felt as histories. `PrivacyScreen` is the screen, its GET and its
POSTs, each with its two transactions on the server.

### How they compose

`Journey!RunTurn` is `TurnPipeline` seen from outside (its outcomes are
TurnPipeline's reports); `Journey!Claim` is `SignIn!ClaimJourneys` seen from
the store; `KnowledgeBuilder` is inside `TurnPipeline`'s two integrations;
`StageStream`'s turn steps are the pushes of the same
`send_message`. `Journey!SaveTier2Result` stores what `Understanding!Synthesise`
computes; `Journey!Admit` refuses where `RateLimit!UnderLock` does;
`AccountData`'s turn, delete and reset are Journey's, seen from the derived
tables, and its settings handler is what `PrivacyScreen!WriteLearning` and
`WritePrompt` reach; `StageOutputs` hands `KnowledgeBuilder`, `Trajectory` and
`People` what they merge. `ConversationPromised`, `ReportsAsPromised` and `NothingForgotten` are refinements:
the detailed module with a mapping to the abstract one is checked as a
PROPERTY.

## 3. Runs

| Run | Question | Bounds | Result |
|---|---|---|---|
| `journey_safety` | Do a cut-off handler, concurrent sends, deletes, resets, claims and restarts leave a consistent store, who may have spoken, and is the result still a Transcript? | 2 requests and 1 restart on 1 Journey of 1 account, or 1 request among 2 Journeys of 2 accounts; 1 browser | holds |
| `patient_client` | What does a client that waits for Tier2 get? Liveness of every handler. | 2 requests, 1 restart, fairness | holds |
| `lost_turn` | Does a client that waits only for its reply keep every turn? | 2 requests | violated (section 6) |
| `turn_pipeline` | Is the state accurate, the retry bounded, the stream of one draft, the memory of questions right, at every failure of every stage, and does a turn end? | 3 turns, chains 2,2,2,1, window 2 | holds |
| `stage_stream` | Does a listener see each turn without a gap, does a tab show only its own turn, does every stream end? | 3 connections, 2 turns, 2 events each | holds |
| `sign_in` | Accounts, logins and claims under racing clicks, expiry, logout and restarts | 2 browsers, 2 addresses, 2 links, 2 calls, 1 Journey | holds |
| `link_raced` | Is a link single-use? | 1 link, 2 calls | violated |
| `knowledge_builder` | Does the WorldState forget nothing, hold no text twice, and turn answers into facts, whatever is extracted and corrected? | 2 turns, 2 inputs per call, 3 texts of which two overlap | holds |
| `correction_reapplied` | Is a repeated correction a no-op? | 2 turns, 1 input per call | violated |
| `account_data` | Whose data do derived rows, turns and exports speak of, do removals and preferences hold against scripts under way? | 2 accounts, 2 Journeys; 2 requests beside 1 script run or 1 beside 2 | holds |
| `reflections_left` | Does deleting a Journey remove what was answered about it? | 1 account, 1 Journey, 3 requests | violated |
| `components` | The properties of the eleven modules from `Understanding` to `PrivacyScreen` | see below | holds |

**Why the bounds are enough.** In Journey two handlers are needed for every
conflict between read-modify-writes, and one Journey for two of them to meet;
two Journeys of two accounts add what one cannot show, a claim or a delete
reaching the wrong row (`Scope` keeps the two situations apart). `AnonLimit` is 1 so that the cap binds at the second request (10 in
the code); one restart can already fall between any two steps of either
request. In TurnPipeline, chains of two and one cover "another model left" and
"last model", window 2 with three turns covers a window that drops its oldest
entry (5 in the code). In StageStream three connections are a stream, its
replacement and a reconnect; two turns are a turn and its successor whose
events may be confused. In SignIn two of each are a race, and one Journey is
what is or is not left behind. In KnowledgeBuilder two inputs in one call are
two corrections that agree, or one that meets the keys another left stale; two
turns are a question and its answer, an item and its correction, a correction
and its repetition; two texts that overlap and one that does not decide every
match. In AccountData two accounts are one and another whose data it must not
see; two Journeys are what an insight needs, one of which may be removed while
the script has both in hand, and just fill the window of recent ones (30 in the
code); two requests are a pair
of handlers that meet; the second script run is the one that reads what the
first wrote. All accounts start alike in the prompt's preference (`ScopedInit`),
on or off.

`components` picks one module per behaviour (`focus`) and leaves the others at
their start: they share no variable. Its bounds: a goal, a fact and an entity over
5 turns with a window of 1 and a backstop of 2 (10 and 5 in the code): a goal's life
includes those of a decision and of an unknown, a synthesis needs two of the three,
and five turns are a synthesis, a change the gate overlooks and the backstop that
catches it, or a thread that closes, reopens and closes again; two tables of any
shape and one column; two Journeys, a backfill that is stopped between them, two
turns or tasks that cross each other and the script, and three ids, one for each of
two items of one Journey and one for the other, or for an item that gets another
when two writers cross; three looks at three briefs; every text of at most two symbols and the five with escapes, in
deltas of at most 5; four callers, a limit of 2, a window of one tick, five
ticks; 6 turns of a Journey, so that the rotation of five comes round; four
Interpretations, three Judgments, four Plans and replies, chosen so that each
validator fires and each is evaded, over 4 turns with a window of 2; two handlers
of two attempts beside a runner with four; four extracts in which a topic is paused, resumed,
deferred and resolved over 4 turns with a threshold of 2; four messages that
name, describe and describe anew over 6 turns; three POSTs over two openings of
the screen.

Symmetry is used where the permuted constants are interchangeable and the run
checks no liveness; `journey_safety` checks a refinement of `[][Next]_vars` form
only.

**Deadlock** is checked where a system could wait for itself: MC modules add
`Quiet`, a stutter that is allowed only where the system has nothing left to do,
and Journey can always claim or reset. It is not checked in the two runs of
AccountData and in `components`: there requests and script runs are finitely many and each turn
or text has an end, after which nothing more happens.

**Fairness.** `Journey!Fairness`: a thread that has started runs on, and
`BackgroundTasks` runs what was scheduled; a restart is not fair and neither is
any client. `TurnPipeline!Fairness`: each HTTP request ends, it has a timeout,
as does each read of a streamed body. `StageStream!Fairness`: threads and
coroutines run on, a request sent arrives and is answered, the tab's
`handleSend` settles (its `finally`).

## 4. Properties

`Journey`
: `WriteOrder`: whatever cuts a handler off, what it leaves is a prefix of
question, state, events, answer. `ReplyIsDurable`: once the client has its answer,
question and answer are in the transcript and stay, and the turn is in the stored
WorldState, except one in `crossed`. `OnlyOwnersSpeak`: every message of a Journey was sent by
its owner or by the browser the owner claimed it from, though ownership is
checked seconds before the write. `DeleteStillAuthorised`: the same for deletes.
`UnderstandingGrounded`: Tier2 never speaks of a turn the document it sits in
does not have. `ConversationPromised`: the store implements `Transcript`.
`EveryRequestSettles`: whatever is deleted under them, handlers and tasks end.
`AnonymousCap`, `NothingSilentlyDeleted`, `BriefAgreesWithWorld`: promises that
hold for a patient client only: `Patient` says that no two requests of one
Journey are between their ownership check and the end of their Tier2 task.
`PatientSafety` is the server under such clients, `PatientSpec` adds fairness.

`TurnPipeline`
: `StateAccurate`, `ReportsAsPromised`, `OneDraftStreamed`, `RetryBounded`,
`RemembersWhatWasSaid`, `TurnEnds`.

`StageStream`
: `StreamShowsTurn` (no gap in a turn, no stranger's turn in a tab),
`LatestIsRegistered`, `StreamsEnd`.

`SignIn`
: `SignedInAsInvited`: one account per address, and a login session belongs to
the account its burned link was mailed to. `ClaimsExactly`: signing in takes
over what the asking browser had, all of it, and nothing else.
`ReturnsOwnJourney`.

`KnowledgeBuilder`
: `AnsweredIsFact`: a resolved question is
a fact by the end of the call. `OnlyConsolidates`: corrections never add to what
is known. `NothingForgotten`: the lists implement `KnowledgeLedger`; what was
recorded stays on record, what was retired stays retired, and no text is in
force twice. `ReapplyIsNoOp` is
what a test says, and fails.

`AccountData`
: `OwnDataOnly`: each account's own, never another's. `ForgottenStaysForgotten`:
derived rows speak of what was removed only where they were computed before a
delete or written by a script visit the removal overtook, or where they come from
reflections, which a delete leaves. `LeavesNoRow` is what the docstrings say of a
delete, and fails. `ConsentRespected`: what needs a preference is done for who had
it at some moment since; a reflection needs the prompt, as the handler has it.
`ReflectedWithBoth` is what the data layer says of it: stated, not checked, since it
does not hold (section 6), and so is `EvidenceFloor`, what insight's docstring says. `EvidenceAccounted`:
`insight_sessions` agrees with the insight.

`components`
: `SynthesisStands` (Understanding): a synthesis rests on what was there, on no
thread that is closed (one that reopened included again) and on no detail that has
been gone for longer than the gate may overlook, unless the last turn's synthesis
was missed. `UpgradesKeepWhatIsThere` (Storage): a process that is up finds every table, and no
start costs a row (`SchemaStands`); an item's id stays, unless two writers of its
Journey crossed (`IdsStand`). `ToldSinceLastLook`
(ClarityBrief): "what changed" of a call no other crossed is what changed since
the brief last shown. `ValueAsStreamed` (StreamText): however the text is cut,
the value so far and nothing else is passed on. `WindowKept` (RateLimit): a burst
exceeds the limit by no more than the calls overtaken on the way to the lock,
and without overtaking nobody is refused early. `CoachesOnEvidence` (Coaching):
readings have evidence; nobody is asked what the endings have told; probes lie
three turns apart and concepts five. `AnswersMadeSafe` (StageOutputs): a flag never
stands beside an empty list, nothing is put in the person's mouth, a question
does not come back within the window. `EachCallAccounted` (UsageLog): a turn is
billed for its calls and for no other's.
`ToldAsItWent` (Trajectory): each event of an item is a step of its trail, in order,
and if recording is on and no crash lost any, there is one for each step; a pattern
counts no more than happened, what is called stalled has stalled, the need a turn
begins with agrees. `PeopleAsTold` (People): one record per person
with what was told last. `SwitchesKeep` (PrivacyScreen): who waits sees what is
stored, and no one whose requests did not mingle is left with a prompt nothing
learns from.

## 5. Proofs

For all values of the constants, by TLAPS:

| Theorem | Says | Argument |
|---|---|---|
| `Journey_proofs!TypeCorrect` | `SafetySpec => []TypeOK` | inductive; documents and messages through typing lemmas (`WorldStateTypes`, `EntryTypes`) |
| `Journey_proofs!OwnersSpeak` | `[]OnlyOwnersSpeak` | by `OwnerInv` |
| `Journey_proofs!DeleteAuthorised` | `[]DeleteStillAuthorised` | inductive with `TypeOK`: only anonymous rows change hands |
| `Journey_proofs!Grounded` | `[]UnderstandingGrounded` | with the same fact about every copy in memory |
| `JourneyStore_proofs!PrefixWritten`, `ReplyStays` | `[]WriteOrder`, `[]ReplyIsDurable` | `WriteInv`; for the stored turn `KeptUncrossed` |
| `JourneyStore_proofs!ConversationImplemented` | `SafetySpec => ConversationPromised` | `WriteInv`, `Spoken`, `Selected`; step by step |
| `JourneyStore_proofs!PatienceKeepsTurns`, `PatienceKeepsBrief` | `PatientSafety => []NothingSilentlyDeleted`, `[]BriefAgreesWithWorld` | `PatientInv` |
| `JourneyStore_proofs!PatienceKeepsCap` | `PatientSafety => []AnonymousCap` | `CapInv` |
| `TurnPipeline_proofs!TypeCorrect` | `[]TypeOK` | with `StageLeft`: an open report has a stage left |
| `TurnPipeline_proofs!Accurate` | `[]StateAccurate` | `Accounts`: what each field of `doc` says, by the stages done |
| `TurnPipeline_proofs!Bounded` | `[]RetryBounded` | `Budget`: calls of the present stage are bounded by attempt and model |
| `TurnPipeline_proofs!OneDraft` | `[]OneDraftStreamed` | `OneSource` and `Budget`: only attempt 1 streams, and the response has a chain of one model |
| `TurnPipeline_proofs!Remembers` | `[]RemembersWhatWasSaid` | `Remembered`: the same of the document and of the one a turn falls back to |
| `TurnPipeline_proofs!Promised` | `SafetySpec => ReportsAsPromised` | every step maps to a step of `StagedTurn` or a stutter |
| `StageStream_proofs!StreamTypes`, `LatestStays` | `[]TypeOK`, `[]LatestIsRegistered` | `LatestInv`: where the connection opened last can be |
| `StageStream_proofs!StreamStaysWhole` | `[]StreamShowsTurn` | `StreamInv`, `TabInv` |
| `SignIn_proofs!SignInTypes` | `[]TypeOK` | with `CallInv`: what a call has established so far |
| `SignIn_proofs!InvitedOnly` | `[]SignedInAsInvited` | `AccountInv`, `SessionInv` |
| `SignIn_proofs!ClaimedExactly` | `[]ClaimsExactly` | `ClaimInv`, and `BehindInv` from the reading of the link on |
| `SignIn_proofs!BackToOwn` | `[]ReturnsOwnJourney` | `ReplyInv`: what is an account's is never claimed away |
| `KnowledgeBuilder_proofs!LedgerImplemented` | `Spec => NothingForgotten` | `LedgerInv`; every step `Evolves` |
| `KnowledgeBuilder_proofs!AnsweredStaysFact` | `[]AnsweredIsFact` | `AnsweredInv` |
| `KnowledgeBuilder_proofs!CorrectionsConsolidate` | `Spec => OnlyConsolidates` | what a correction hits is active |
| `AccountData_proofs!AccountTypes`, `EachAccountsOwn`, `ConsentKept`, `EvidenceKept`, `ForgottenForGood` | `[]TypeOK`, `[]OwnDataOnly`, `[]ConsentRespected`, `[]EvidenceAccounted`, `[]ForgottenStaysForgotten` | one invariant, below |
| `Components_proofs!WindowStays` | `LimiterSpec => []WindowKept` | `LimiterInv` |
| `Components_proofs!BriefTellsChanges` | `BriefSpec => []ToldSinceLastLook` | `CursorInv` |
| `Components_proofs!SynthesisRests` | `UnderstandingSpec => []SynthesisStands` | `ItemsInv`, `GateInv` |
| `Components_proofs!UpgradesKeep` | `StorageSpec => []UpgradesKeepWhatIsThere` | `SchemaInv`, `ItemIdsInv` |
| `Components_proofs!CoachingByEvidence` | `CoachingSpec => CoachesOnEvidence` | `CoachingInv` |
| `Components_proofs!SwitchesAlwaysKeep` | `PrivacySpec => []SwitchesKeep` | `SensibleInv`, `FaithfulInv` |
| `Components_proofs!TurnsAccounted` | `UsageLogSpec => []EachCallAccounted` | `UsageInv`; sums by `SumIs`, `SumsAdd` |
| `Components_proofs!AnswersStaySafe` | `StageOutputsSpec => []AnswersMadeSafe` | `AskedInv`; the filter by `FilterKeeps` |
| `Components_proofs!TextStaysTrue` | `StreamTextSpec => []ValueAsStreamed` | `ReadInv`; the search by `SeekReads`, the loop by `ScanReads` |
| `Components_proofs!PeopleAlwaysAsTold` | `PeopleSpec => []PeopleAsTold` | `PeopleInv`; the merges by `FoldRuns` |
| `Components_proofs!ToldAlwaysAsItWent` | `TrajectorySpec => []ToldAsItWent` | `TrajectoryInv`; a stage by `StageMade` and `TaleStep` |

`OnlyOwnersSpeak` is not inductive: a handler past its check is about to write
for a caller who may have lost the Journey. `OwnerInv` adds
`ActingAuthorised` (every handler past its check is `Authorised`, which a claim
preserves because `claims` records it) and `AbsentUntouched` (a Journey not yet
created has no messages). `Bounded` assumes nothing but the constants'
assumptions; `OneDraft` assumes that the chain of the response has one model
(`_DEFAULT_COMPONENT_MODELS`), which its statement names.

`WriteOrder` speaks of rows, and what decides about a row is in a handler's
memory. `WriteInv` adds what each handler has stored by the point it has reached
(in a Journey that still exists: a delete may have come in between) and that no
copy in memory knows a turn whose question is not in the transcript, but for the
handler's own turn between `run_turn` and the append. A handler's step moves
that handler and its Journey's row only, which grows by what is its own
(`OnlyMoves`, `OwnRowGrows`), and deletes, resets,
claims and restarts take nothing from a Journey that exists after them. That a
turn nobody crossed stays in the WorldState is `KeptUncrossed`: it is in the
stored document and in every copy somebody holds, so whoever writes back writes
it too. The
refinement of `Transcript` needs that a handler speaks once in a Journey
(`Spoken`), and that what a reset has selected in its first transaction is still
its account's in the second (`Selected`). For the patient client, `PatientInv`
says that the copy of the only request under way knows every turn the store
does; `CapInv` that between the check of the cap and the append the anonymous
questions stay below it. That they are as many as `count_user_messages` counts
is a fact about cardinalities: distinct requests have distinct rows.

`StreamShowsTurn` looks at what tabs have got, so its invariant follows an event
from the push on. `Carried(c)` is what connection c has delivered and what waits
in its queue; `StreamInv` says that it is in order, that what is in it was pushed
by a turn that captured that queue (`Belongs`), and that all a turn has pushed is
in the stream whose queue it captured (`Whole`). `TabInv`: as long as the tab
gives up no request, the turns before the one it waits for are over, so whoever
pushes into its stream is that turn.

In KnowledgeBuilder every step `Evolves`: nothing leaves the record, what is in
force was, and at most one item comes, with an id of its own and a text that was
not in force. That is the ledger's step, and it preserves `LedgerInv` at once;
each action needs only to be shown to evolve. The new item of a correction is
where it could fail: `KeysInv` says that, until the corrections end, every active
text has its key, so that a text without one is in force nowhere. `AnsweredInv`
follows a resolved question to the facts or to the list still to be promoted.

The rate limiter compares a count of stamps with calls that overtook one
another. `LimiterInv` says that of the deque's stamps and of the calls admitted as
many lie within a window that ends no earlier than the last call that had the
lock, that the deque is in order while nobody was overtaken, and that those who
were not (`late`) keep to the limit by themselves. In Storage, the script is only started on a server
that is up, so the two never rebuild a table at once (`SchemaInv`); `ItemIdsInv`
says that, of a Journey no two writers have crossed, every copy somebody holds
carries the ids that were given. In Understanding, `ItemsInv` ties an item's status
to the turn since which it is out, and `GateInv` says that the threads a synthesis
rests on are in the signature it is stored with: a thread that closed changes the
signature of the pool, and one that came back may leave it as it was, but stands.

Lists are kept in order with cardinalities rather than by recursion: which entry
is the n-th of a set of positions is decided by how many lie before it
(`KnowledgeBuilder!Ordinal`, `RateLimit!DropExpired`, `Understanding!GroundedIn`),
which the lemmas `Ordinals`, `Picked` and `FirstIs` turn into the facts the
proofs use. TLC evaluates the same definitions.

In SignIn none of the properties is inductive: they speak of rows, and a row is
written by a call several steps after it read what justifies the row. `CallInv`
says for each stage of `/auth/verify` what stands behind it (a burned link, an
account of its address). The proof first shows what no step undoes (`Monotone`:
rows of `users`, what a link was mailed with, what a call has read) and that
variables of one call or link change only by that call's steps (`Moves`,
`TokenMoves`, `ReplyMoves`, `LinkMoves`, `JourneyMoves`, `UserMoves`, `Handed`);
every invariant then needs only the steps that touch it.

In AccountData, `OwnInv` and `ForgottenInv` carry each property over to what a
script visit has in hand (`got`) and what a handler has selected, `ConsentInv`
to the requests still under way, and `Progress` says which of these exist at
which program point. Nothing is assumed but that identities are distinct and the
bounds are numbers.

In PrivacyScreen, `SensibleInv` says that what is posted and half written is
never a prompt without learning, as long as no two requests mingled and none was
torn; `FaithfulInv` that for the patient what is stored is what the screen shows,
up to the request under way.

`UsageLog` sums over records and `StageOutputs` filters questions with the
community `FoldLeft`, which is a function of sets of positions, chosen by the
equation it satisfies. `Climb` proves by a least counterexample what holds of 0
and goes from each number to the next; with it `FoldExists` shows that such a
function exists whenever the steps stay in a set, so that the chosen one obeys
its equation, and a second climb along the positions says what the fold returns:
that a sum splits into its parts (`SumIs`, `SumsAdd`), that a question kept repeats
none that is seen (`FilterKeeps`). `UsageInv` says that a tracker holds what it
held when its turn began and then that turn's calls, and that no attempt succeeds
without a call; it needs of the attempts only that a success has content, which is
what the engines check before they validate. `AskedInv` says that the questions
remembered are the last of all that were proposed, so that what the filter looks
at is the window `QuestionsMoveOn` speaks of. The scores of the texts are the
definitions `Overlap` and `ReasonOverlap`; what a model answers is any record with
the fields of the schemas, except that the comment beside a flag is a text of its
own.

`TextStaysTrue` holds for every preamble and every body, those included in which the
marker, a colon or an unescaped quote occurs: what counts as the value is what the
whole text says (`TrueValue`). `Layout` states where a text has its marker, colon,
quote and end; `LayoutOf` and `ResponseHasValue` show that every response has them.
`ReadInv` is what the extractor has of the first `fed` symbols: before the value, a
tail long enough to see it begin (`Sought`); in it, the value so far and whether the
next symbol is escaped; after it, the whole value. `SeekReads` shows that a search in
the kept tail and the new delta finds the places of the whole text, and `ScanReads`,
by a climb along the symbols of a delta, that the loop passes on what is before the
end. The assumption is only that preambles and bodies are texts.

The last two theorems are about loops over what a model answers, with a helper per
step. `FoldRuns` turns a fold into a run of intermediate results, one per position,
as soon as each step stays in a set; a climb along that run then carries what is
true before a step to what is true after it. For `People` that is `Records` and
`FeltReadings`: what the lists are up to position p of all that was told and felt.
A record found is rewritten, one not found is appended, and either way the last
word on every attribute is the last position that told it (`LastWord`).
`PeopleInv` says so of the whole history, which each message extends.

For `Trajectory`, merges and updates leave a list `Touched`, and taking down its
history leaves it `Became`: no item goes, the new ones have a trail of one status,
an old one has its trail, with the new status at the end if it changed. The events
of a stage are one per item that changed and lead from the old status to the new
(`ChangedTells`): that the items of a list have distinct topics (`Apart`) is what
makes the item an event is about, and the counterpart `Diff` compares it with, the
right one. `Story` says that the events of each item are steps of its trail in order,
and if they are `whole`, all of them; a stage goes on with it (`StoryStep`), cutting
the end off leaves a story that is not whole (`StoryCut`), which is the state between
the two writes of a turn. `TrajectoryInv` has such a story of the stored state in the
records and of the running turn in the records and what it observed. That a pattern
counts no more than happened is an injection from its events into the steps of trails
(`CountedMoves`), and trails only grow (`Grown`). It needs of the extracts and verdicts
only that their lists are lists of topics and of status updates.

Only model-checked: the liveness properties (`EveryRequestSettles`, `TurnEnds`,
`StreamsEnd`), which are out of the prover's reach. Every safety property and every
refinement that a passing run checks is proved.

## 6. Where the code and its documentation disagree

Shown by a run:

* `lost_turn`: the Tier2 task writes back a document it read before its LLM
  call; a turn saved in between is gone from the WorldState
  (`server.py:471`, against `world_state.py:29`).
* `link_raced`: two clicks on one link both pass (`db.py:691`, against
  `db.py:686`).
* `reflections_left`: a delete leaves the Journey's `journey_reflections`, which feed
  the Personal Operating Model by account (`db.py:972`, against `server.py:324`
  and `db.py:956`). A reset removes them.
* `correction_reapplied`: a "superseded" correction that Judgment repeats hits
  its own replacement by word overlap, puts it out of force and, its key being
  still listed, appends nothing: the knowledge is in force nowhere
  (`builder.py:503`, against `tests/test_world_state_evolution.py:732`).

Seen while modelling; no run shows these:

* An insight whose evidence names one session twice passes the floor of two
  (`insight/engine.py:115`, against `insight/engine.py:18`); `AccountData!EvidenceFloor`
  states the promise.
* A reflection is stored with learning off, since only the prompt is checked
  (`server.py:362`, against "already checked both" in `db.py:1528`);
  `AccountData!ReflectedWithBoth` states the promise.
* The anonymous cap counts stored questions, so all requests sent while the last
  free turn runs complete (`server.py:510`, against `server.py:148`):
  `AnonymousCap` needs the patient client.
* The loser of a race to create one account answers 500 after its link was
  burned (`db.py:631`, against "Idempotent" in `db.py:627`).
* `/auth/verify` claims for the browser that asked for the link, not for the one
  that opens it; Journeys begun in the latter stay anonymous
  (`server.py:969` says "this browser's").
* Within one call of `apply_knowledge_corrections`, a correction that puts an
  item out of force and another whose new text is that item's leave the text
  in force nowhere: the keys are never taken back (`builder.py:503`, against
  line 505).
* The sentinel is pushed before the turn is stored (`server.py:607`), although
  `server.py:532` says at the very end, and not at all when the turn raises.
* JSON that is no object, or a stream that breaks, escapes `run_turn` as an
  exception (`interpretation/engine.py:271`, against `orchestrator/engine.py:127`
  and `llm/providers.py:127`). The turn's usage records are then never written.
  `TurnPipeline!NeverRaises` states the promise.
* A handler in flight stores messages for a Journey deleted under it
  (`server.py:609`, against `db.py:956`); `Journey!NothingReferencesDeleted`
  states the promise. `delete_session` also keeps insights whose only evidence
  it removes.
* "Forget everything actually forgets them" (`db.py:1749`): a script visit that a
  reset overtakes writes rows computed from what was forgotten.
* Two `clarity-brief` calls that cross may both tell one change, or move the
  cursor back. A failed turn overwrites `debug_json`, so that the brief answers
  404 again and Home loses its stagnation note, although `list_sessions` speaks
  of the last completed turn's. The note may be about a decision the same turn
  resolved.
* The Planner's questions are remembered even when Response failed and nobody
  was asked (`planner/engine.py:270`), and questions of one plan are not compared
  with each other. Only Interpretation rescales confidences out of range; the
  other stages refuse them.
* The content of a correction is neither an exact quote nor stripped of leaked
  ids (`judgment/engine.py:74`) and becomes a fact the brief lists.
* `usage.py:32` says a record is only made for a call that returned content; a
  streamed answer without any is recorded too (`providers.py:357`).
* `init_db` may run on every startup, but not in two processes that upgrade one
  old database at once. The backfill writes back what it read over a turn saved
  meanwhile, a turn loaded before the backfill saves other ids after it, and the
  script omits `emotional_signal_items`.
* A pattern says "{count} of your goals have moved" and counts transitions. A
  round trip of a status within one turn leaves no event but renews
  `last_updated`, as does an update to the same status: gaps may be under-, never
  over-stated.
* A call of the rate limiter that waits for the lock is recorded with its older
  stamp: a burst may exceed the limit by the number overtaken.
* The POM probe "permanently" stops (docstring of `modes.py`) but returns when
  the account opts out or a recomputation reads the dimension as unclear. The
  callback to an insight is lost when the first turn fails after Interpretation.
* `tier2_engine.py:225` counts duplicate ids like the insight engine does.
* `api.js:163` says Settings "always has both to send": a switch touched before
  the GET has answered, or after it failed, posts the default of the other, which
  turns learning back on; a failed POST is not rolled back on screen; two POSTs
  that mingle, or one torn between its transactions, may leave a prompt on with
  learning off.

## 7. Not modelled

Listed with its reason per component in `PROJECT.json`. In short: prompts,
wording and rendering (data no property is about), the second-person rewriting of
the brief among them; the ranking of retrieved context and insights, pure
functions whose result nothing stores; bookmarks and read-only listings; backoff
of a 429; assumptions, inferences and biases, which only grow; frontier prices
and printed reports; evaluation, calibrations and the legacy engine (not part of
the running system); deployment. The mail provider is a link that reaches
somebody.

## 8. Plan

Done: every component with state of its own, as section 2 lists, and the theorems
of section 5. What is left is proof: the compositions section 2 names, that
`TurnPipeline`'s reports are the outcomes of `Journey!RunTurn`, and
`SignIn!ClaimJourneys` its `Claim`.
