------------------------------ MODULE AccountData ------------------------------
(***************************************************************************)
(* What is derived about an account across its Journeys, and what the      *)
(* account may do about it: the three offline scripts (run_learning.py,    *)
(* run_insight_detection.py, run_pom_computation.py), the turn that reads  *)
(* what they wrote, and the handlers of api/server.py that opt out, delete,*)
(* forget, reflect, answer the Personal Operating Model and export.        *)
(*                                                                         *)
(* A script visits one account after another: it checks the opt-out, reads *)
(* the account's data in several statements, spends an LLM call, and       *)
(* replaces the account's rows.  It runs beside the server on the same     *)
(* database; each database call is one step.                               *)
(*                                                                         *)
(* Data.  A derived row is the set of sources its content came from: the   *)
(* Journeys, reflections and answers read for it.  Scripts are named       *)
(* after the table they replace.  A reflection or answer is named after    *)
(* the request that sent it.                                               *)
(*                                                                         *)
(* A definition headed "Fault:" is a slip the code could have contained;   *)
(* it stands before the definition it would replace.                       *)
(***************************************************************************)
EXTENDS Naturals, Sequences, FiniteSets, FiniteSetsExt

CONSTANTS
  Users,        \* accounts
  Sessions,     \* Journeys of signed-in accounts
  Requests,     \* API calls, each made once
  Kinds,        \* which handlers the requests may call
  Scripts,      \* which scripts are run
  MinEvents,    \* learning.engine.MIN_EVIDENCE
  MaxEvents,    \* bound: events stored per Journey
  RecentCap,    \* insight.schema.MAX_SESSIONS_FOR_INSIGHT
  MinSessions,  \* insight.schema.MIN_EVIDENCE_SESSIONS
  MaxRuns       \* bound: script runs

AllScripts == {"learned_patterns", "insights", "personal_operating_model"}
AllKinds == {"turn", "delete", "reset", "reflect", "feedback", "settings", "export"}

ASSUME KindAssumption == Kinds \subseteq AllKinds /\ Scripts \subseteq AllScripts
ASSUME NameAssumption ==
  /\ Users \cap {"absent", "nobody"} = {} /\ "none" \notin Sessions
  /\ "script" \notin Requests /\ Sessions \cap Requests = {}
ASSUME BoundAssumption ==
  {MinEvents, MaxEvents, RecentCap, MinSessions, MaxRuns} \subseteq Nat /\ MaxEvents > 0

VARIABLES
  owner,        \* owner[s]: the account that began Journey s, or "absent"
  live,         \* Journeys that have a row in `sessions`
  judged,       \* Journeys whose debug_json holds a Judgment
  events,       \* events[s]: behavioral_events rows of s
  derived,      \* derived[u][t]: sources of u's rows in table t, {} = no row
  links,        \* links[u]: insight_sessions of u's insight
  reflections,  \* reflections[u]: journey_reflections rows
  feedback,     \* feedback[u]: pom_field_feedback rows
  learning,     \* learning[u]: cross_session_learning_enabled
  prompt,       \* prompt[u]: reflection_prompt_enabled
  script,       \* the script running, or "none"
  step,         \* what it does next
  todo,         \* accounts it has yet to visit
  acct,         \* the account it visits
  got,          \* what it has read in this visit
  runs,         \* script runs so far
  call,         \* call[r]: the request's kind, user, Journey, progress
  seen,         \* seen[r]: what a turn was told, an export wrote, a reset selected
  consent,      \* history: <<actor, preference>> in force at some time since it began
  gone,         \* history: sources a delete or a reset was to remove
  overtaken,    \* history: a delete or reset of `acct` committed during the visit
  stale         \* history: stale[u]: tables computed before a delete, or by an
                \* overtaken visit

dbVars == <<owner, live, judged, events, derived, links, reflections, feedback>>
settingVars == <<learning, prompt>>
scriptVars == <<script, step, todo, acct, got, runs>>
callVars == <<call, seen>>
history == <<consent, gone, overtaken, stale>>
vars == <<dbVars, settingVars, scriptVars, callVars, history>>

-----------------------------------------------------------------------------
Sources == Sessions \cup Requests
Owned(u) == {s \in live : owner[s] = u}

NothingRead == [from |-> {}, rows |-> {}, recent |-> {}, texts |-> {}]
Idle == [kind |-> "none", user |-> "nobody", journey |-> "none", at |-> "idle", values |-> <<>>]

\* A visit is under way: the opt-out was checked, the rows are not yet written.
Visiting == step \notin {"stopped", "next"}

ScriptPoints ==
  {"stopped", "next", "read", "evidence", "texts", "reflections", "feedback", "events", "write"}
HandlerPoints ==
  {"idle", "called", "owned", "run", "saved", "selected", "allowed", "half", "children",
   "patterns", "pom", "answers", "done"} \cup AllScripts
Bodies == {<<>>} \cup (BOOLEAN \X BOOLEAN)
Rows == Sessions \X (1..MaxEvents)

TypeOK ==
  /\ owner \in [Sessions -> Users \cup {"absent"}]
  /\ live \subseteq Sessions /\ judged \subseteq live
  /\ events \in [Sessions -> 0..MaxEvents]
  /\ derived \in [Users -> [AllScripts -> SUBSET Sources]]
  /\ links \in [Users -> SUBSET Sessions]
  /\ reflections \in [Users -> SUBSET Requests]
  /\ feedback \in [Users -> SUBSET Requests]
  /\ learning \in [Users -> BOOLEAN] /\ prompt \in [Users -> BOOLEAN]
  /\ script \in AllScripts \cup {"none"} /\ step \in ScriptPoints /\ todo \subseteq Users
  /\ acct \in Users \cup {"nobody"} /\ runs \in 0..MaxRuns
  /\ got \in [from : SUBSET Sources, rows : SUBSET Rows,
              recent : SUBSET Sessions, texts : SUBSET Sessions]
  /\ call \in [Requests -> [kind : AllKinds \cup {"none"}, user : Users \cup {"nobody"},
                            journey : Sessions \cup {"none"}, at : HandlerPoints, values : Bodies]]
  /\ seen \in [Requests -> SUBSET Sources]
  /\ consent \subseteq (Requests \cup {"script"}) \X {"learning", "prompt"}
  /\ gone \subseteq Sources /\ overtaken \in BOOLEAN
  /\ stale \in [Users -> SUBSET AllScripts]

\* Accounts with some history and nothing computed yet, which may have switched
\* the reflection prompt on.
Init ==
  /\ owner \in [Sessions -> Users \cup {"absent"}]
  /\ live = {s \in Sessions : owner[s] # "absent"}
  /\ judged \in SUBSET live
  /\ events = [s \in Sessions |-> IF s \in judged THEN 1 ELSE 0]
  /\ derived = [u \in Users |-> [t \in AllScripts |-> {}]]
  /\ links = [u \in Users |-> {}]
  /\ reflections = [u \in Users |-> {}] /\ feedback = [u \in Users |-> {}]
  /\ learning = [u \in Users |-> TRUE] /\ prompt \in [Users -> BOOLEAN]
  /\ script = "none" /\ step = "stopped" /\ todo = {} /\ acct = "nobody"
  /\ got = NothingRead /\ runs = 0
  /\ call = [r \in Requests |-> Idle] /\ seen = [r \in Requests |-> {}]
  /\ consent = {} /\ gone = {} /\ overtaken = FALSE
  /\ stale = [u \in Users |-> {}]

-----------------------------------------------------------------------------
(* The scripts *)

\* Consent given now, or before, counts for every actor at work on u.
Consenting(u, on, pref) ==
  consent \cup (IF on THEN {<<a, pref>> : a \in {r \in Requests : call[r].user = u /\ call[r].at # "done"}
                                              \cup (IF Visiting /\ acct = u THEN {"script"} ELSE {})}
                ELSE {})

\* get_all_user_ids_with_sessions
Accounts == {u \in Users : Owned(u) # {}}

\* With no account the script returns at once.
StartScript(t) ==
  /\ script = "none" /\ runs < MaxRuns
  /\ runs' = runs + 1
  /\ IF Accounts = {}
     THEN UNCHANGED <<script, step, todo>>
     ELSE script' = t /\ step' = "next" /\ todo' = Accounts
  /\ UNCHANGED <<dbVars, settingVars, callVars, history, acct, got>>

\* Fault: the opt-out is not looked at.
VisitAnyway(u) ==
  /\ step = "next" /\ u \in todo
  /\ todo' = todo \ {u}
  /\ acct' = u /\ step' = "read"
  /\ consent' = {c \in consent : c[1] # "script"}
                  \cup (IF learning[u] THEN {<<"script", "learning">>} ELSE {})
  /\ UNCHANGED <<dbVars, settingVars, callVars, script, got, runs, gone, overtaken, stale>>

\* The loop over accounts: an account that has opted out is skipped.
Visit(u) ==
  /\ step = "next" /\ u \in todo
  /\ todo' = todo \ {u}
  /\ IF learning[u] THEN acct' = u /\ step' = "read" ELSE UNCHANGED <<acct, step>>
  /\ consent' = {c \in consent : c[1] # "script"}
                  \cup (IF learning[u] THEN {<<"script", "learning">>} ELSE {})
  /\ UNCHANGED <<dbVars, settingVars, callVars, script, got, runs, gone, overtaken, stale>>

ReadStep(from, to, sources) ==
  /\ step = from /\ step' = to
  /\ got' = [got EXCEPT !.from = @ \cup sources]
  /\ UNCHANGED <<dbVars, settingVars, callVars, history, script, todo, acct, runs>>

Eventful(u) == {s \in Owned(u) : events[s] > 0}
EventRows(journeys) == {row \in Rows : row[1] \in journeys /\ row[2] <= events[row[1]]}

\* Fault: the join with `sessions` and its WHERE s.user_id are forgotten.
GetAllEvents ==
  /\ step = "read" /\ script = "learned_patterns" /\ step' = "write"
  /\ LET all == {s \in Sessions : events[s] > 0}
     IN got' = [got EXCEPT !.from = all, !.rows = EventRows(all)]
  /\ UNCHANGED <<dbVars, settingVars, callVars, history, script, todo, acct, runs>>

\* run_learning: get_events_for_user.
GetEventsForUser ==
  /\ step = "read" /\ script = "learned_patterns" /\ step' = "write"
  /\ got' = [got EXCEPT !.from = Eventful(acct), !.rows = EventRows(Eventful(acct))]
  /\ UNCHANGED <<dbVars, settingVars, callVars, history, script, todo, acct, runs>>

\* ORDER BY updated_at DESC LIMIT cap.  Which of an account's Journeys were
\* updated last is left open.
Newest(u) == kSubset(Min({RecentCap, Cardinality(Owned(u))}), Owned(u))

\* get_session_texts_for_insights, its three SELECTs.
SelectRecent ==
  /\ step = "read" /\ script = "insights" /\ step' = "evidence"
  /\ \E ids \in Newest(acct) : got' = [got EXCEPT !.recent = ids]
  /\ UNCHANGED <<dbVars, settingVars, callVars, history, script, todo, acct, runs>>

SelectEvidence ==
  /\ step = "evidence" /\ step' = "texts"
  /\ got' = [got EXCEPT !.recent = @ \cup links[acct]]
  /\ UNCHANGED <<dbVars, settingVars, callVars, history, script, todo, acct, runs>>

SelectTexts ==
  /\ step = "texts" /\ step' = "write"
  /\ got' = [got EXCEPT !.texts = got.recent \cap Owned(acct) \cap judged]
  /\ UNCHANGED <<dbVars, settingVars, callVars, history, script, todo, acct, runs>>

\* get_aggregated_knowledge_for_pom, then get_events_for_user.
ReadWorlds ==
  /\ script = "personal_operating_model"
  /\ \E ids \in Newest(acct) : ReadStep("read", "reflections", ids)
ReadReflections == ReadStep("reflections", "feedback", reflections[acct])
ReadFeedback == ReadStep("feedback", "events", feedback[acct])
ReadEvents == ReadStep("events", "write", Eventful(acct))

\* Rows of table t for the visited account are replaced, in one transaction.
Replace(t, sources) ==
  /\ step = "write" /\ script = t /\ step' = "next"
  /\ derived' = [derived EXCEPT ![acct][t] = sources]
  /\ stale' = [stale EXCEPT ![acct] = IF overtaken THEN @ \cup {t} ELSE @ \ {t}]
  /\ acct' = "nobody" /\ got' = NothingRead /\ overtaken' = FALSE
  /\ UNCHANGED <<owner, live, judged, events, reflections, feedback, settingVars,
                 callVars, script, todo, runs, consent, gone>>

\* compute_behavioral_patterns counts the moves to one status of one kind.
ReplacePatterns ==
  /\ Replace("learned_patterns", IF Cardinality(got.rows) >= MinEvents THEN got.from ELSE {})
  /\ UNCHANGED links

\* The ids a model may cite for the one theme considered, in any order and
\* number up to the floor; none is "no theme found".
Citations == UNION {[1..n -> Sessions] : n \in 0..MinSessions}

\* _enforce_grounding: ids never sent are dropped, and the theme with them
\* when too few are left, counted with their repetitions.
EnforceGrounding(cited, known) ==
  LET real == {i \in DOMAIN cited : cited[i] \in known}
  IN IF Cardinality(real) < MinSessions THEN {} ELSE {cited[i] : i \in real}

\* run_insight_detection: too few Journeys are not sent to the model at all.
Detected ==
  IF Cardinality(got.texts) < MinSessions THEN {{}}
  ELSE {EnforceGrounding(cited, got.texts) : cited \in Citations}

\* Fault: the old evidence links are not deleted first.
ReplaceInsightsKeepLinks ==
  \E evidence \in Detected :
    /\ Replace("insights", evidence)
    /\ links' = [links EXCEPT ![acct] = @ \cup evidence]

ReplaceInsights ==
  \E evidence \in Detected :
    /\ Replace("insights", evidence)
    /\ links' = [links EXCEPT ![acct] = evidence]

ReplacePOM ==
  Replace("personal_operating_model", got.from) /\ UNCHANGED links

\* Every provider failed (InsightEngineError, POMEngineError), or the script was
\* stopped: the accounts not yet visited keep their old rows.
AbortScript ==
  /\ script # "none"
  /\ script' = "none" /\ step' = "stopped" /\ todo' = {} /\ acct' = "nobody"
  /\ got' = NothingRead /\ overtaken' = FALSE
  /\ UNCHANGED <<dbVars, settingVars, callVars, runs, consent, gone, stale>>

FinishScript == step = "next" /\ todo = {} /\ AbortScript

ScriptSteps ==
  \/ \E u \in Users : Visit(u)
  \/ GetEventsForUser \/ ReplacePatterns
  \/ SelectRecent \/ SelectEvidence \/ SelectTexts \/ ReplaceInsights
  \/ ReadWorlds \/ ReadReflections \/ ReadFeedback \/ ReadEvents \/ ReplacePOM
  \/ FinishScript

-----------------------------------------------------------------------------
(* The handlers *)

At(r, kind, at) == call[r].kind = kind /\ call[r].at = at
\* What a finished request asked for is forgotten, but not who asked, nor the
\* Journey a reflection is on: that is its row's session_id.
Goto(r, at) ==
  call' = [call EXCEPT ![r].at = at,
                       ![r].journey =
                         IF at = "done" /\ call[r].kind # "reflect" THEN "none" ELSE @,
                       ![r].values = IF at = "done" THEN <<>> ELSE @]
Tell(r, sources) == seen' = [seen EXCEPT ![r] = @ \cup sources]

Begin(r, u, kind, s, values) ==
  /\ call[r] = Idle /\ kind \in Kinds
  /\ call' = [call EXCEPT ![r] = [kind |-> kind, user |-> u, journey |-> s,
                                  at |-> "called", values |-> values]]
  /\ consent' = consent \cup {<<r, p>> : p \in (IF learning[u] THEN {"learning"} ELSE {})
                                               \cup (IF prompt[u] THEN {"prompt"} ELSE {})}
  /\ UNCHANGED <<dbVars, settingVars, scriptVars, seen, gone, overtaken, stale>>

\* A request reaches the server with its user and what its body says.
Request(r, u) ==
  \/ \E k \in {"reset", "feedback", "export"} : Begin(r, u, k, "none", <<>>)
  \/ \E k \in {"turn", "delete", "reflect"}, s \in Sessions : Begin(r, u, k, s, <<>>)
  \/ \E l, p \in BOOLEAN : Begin(r, u, "settings", "none", <<l, p>>)

\* create_session
CreateSession(s, u) ==
  /\ owner[s] = "absent"
  /\ owner' = [owner EXCEPT ![s] = u] /\ live' = live \cup {s}
  /\ UNCHANGED <<judged, events, derived, links, reflections, feedback,
                 settingVars, scriptVars, callVars, history>>

\* _require_owned_session, 404 otherwise.
RequireOwnedSession(r) ==
  /\ call[r].kind \in {"turn", "delete", "reflect"} /\ call[r].at = "called"
  /\ Goto(r, IF call[r].journey \in Owned(call[r].user) THEN "owned" ELSE "done")
  /\ UNCHANGED <<dbVars, settingVars, scriptVars, seen, history>>

\* send_message: a person who has opted out is met without what was derived.
GateLearning(r) ==
  /\ At(r, "turn", "owned")
  /\ Goto(r, IF learning[call[r].user] THEN "learned_patterns" ELSE "run")
  /\ UNCHANGED <<dbVars, settingVars, scriptVars, seen, history>>

ReadDerived(r, t, then) ==
  /\ At(r, "turn", t) /\ Goto(r, then)
  /\ Tell(r, derived[call[r].user][t])
  /\ UNCHANGED <<dbVars, settingVars, scriptVars, history>>

\* save_turn_result: an UPDATE, of nothing if the Journey is gone; with a
\* Judgment unless Interpretation or Judgment failed.
SaveTurnResult(r) ==
  /\ At(r, "turn", "run") /\ Goto(r, "saved")
  /\ judged' \in {(judged \cup {call[r].journey}) \cap live, judged \ {call[r].journey}}
  /\ UNCHANGED <<owner, live, events, derived, links, reflections, feedback,
                 settingVars, scriptVars, seen, history>>

\* save_events: an INSERT, whether or not the Journey is still there.
SaveEvents(r) ==
  /\ At(r, "turn", "saved") /\ Goto(r, "done")
  /\ LET s == call[r].journey
     IN events' = [events EXCEPT ![s] = IF @ < MaxEvents THEN @ + 1 ELSE @]
  /\ UNCHANGED <<owner, live, judged, derived, links, reflections, feedback,
                 settingVars, scriptVars, seen, history>>

\* The journey_reflections rows of u whose session_id is s.
Reflected(u, s) == {q \in reflections[u] : call[q].journey = s}

\* delete_session, one transaction.  What was derived from the Journey stays,
\* but for its rows in insight_sessions.  The reflections on the Journey were
\* to go with it, and stay.
DeleteRows(r) ==
  /\ At(r, "delete", "owned") /\ Goto(r, "done")
  /\ LET s == call[r].journey  u == call[r].user
     IN /\ links' = [v \in Users |-> links[v] \ {s}]
        /\ events' = [events EXCEPT ![s] = 0]
        /\ judged' = judged \ {s} /\ live' = live \ {s}
        /\ gone' = gone \cup {s} \cup Reflected(u, s)
        /\ stale' = [stale EXCEPT ![u] = @ \cup {t \in AllScripts : s \in derived[u][t]}]
        /\ overtaken' = (overtaken \/ (Visiting /\ acct = u))
  /\ UNCHANGED <<owner, derived, reflections, feedback, settingVars, scriptVars, seen, consent>>

\* reset_all_data: the ids are selected before the first DELETE opens the
\* transaction, ...
SelectIds(r) ==
  /\ At(r, "reset", "called") /\ Goto(r, "selected")
  /\ Tell(r, Owned(call[r].user))
  /\ UNCHANGED <<dbVars, settingVars, scriptVars, history>>

\* Fault: the tables an offline script fills are left.
ResetKeepsDerived(r) ==
  /\ At(r, "reset", "selected") /\ Goto(r, "done")
  /\ LET u == call[r].user
     IN /\ events' = [s \in Sessions |-> IF s \in seen[r] THEN 0 ELSE events[s]]
        /\ links' = [v \in Users |-> links[v] \ seen[r]]
        /\ live' = live \ Owned(u) /\ judged' = judged \ Owned(u)
        /\ reflections' = [reflections EXCEPT ![u] = {}]
        /\ feedback' = [feedback EXCEPT ![u] = {}]
        /\ gone' = gone \cup Owned(u) \cup reflections[u] \cup feedback[u]
        /\ stale' = [stale EXCEPT ![u] = {}]
        /\ overtaken' = (overtaken \/ (Visiting /\ acct = u))
  /\ UNCHANGED <<owner, derived, settingVars, scriptVars, seen, consent>>

\* ... and what hangs on a Journey goes by those ids, the rest by the account.
\* The settings stay.
ResetAll(r) ==
  /\ At(r, "reset", "selected") /\ Goto(r, "done")
  /\ LET u == call[r].user
     IN /\ events' = [s \in Sessions |-> IF s \in seen[r] THEN 0 ELSE events[s]]
        /\ links' = [[v \in Users |-> links[v] \ seen[r]] EXCEPT ![u] = {}]
        /\ live' = live \ Owned(u) /\ judged' = judged \ Owned(u)
        /\ derived' = [derived EXCEPT ![u] = [t \in AllScripts |-> {}]]
        /\ reflections' = [reflections EXCEPT ![u] = {}]
        /\ feedback' = [feedback EXCEPT ![u] = {}]
        /\ gone' = gone \cup Owned(u) \cup reflections[u] \cup feedback[u]
        /\ stale' = [stale EXCEPT ![u] = {}]
        /\ overtaken' = (overtaken \/ (Visiting /\ acct = u))
  /\ UNCHANGED <<owner, settingVars, scriptVars, seen, consent>>

\* submit_journey_reflection: 403 unless the account has the prompt on.
CheckPrompt(r) ==
  /\ At(r, "reflect", "owned")
  /\ Goto(r, IF prompt[call[r].user] THEN "allowed" ELSE "done")
  /\ UNCHANGED <<dbVars, settingVars, scriptVars, seen, history>>

SaveReflection(r) ==
  /\ At(r, "reflect", "allowed") /\ Goto(r, "done")
  /\ reflections' = [reflections EXCEPT ![call[r].user] = @ \cup {r}]
  /\ UNCHANGED <<owner, live, judged, events, derived, links, feedback,
                 settingVars, scriptVars, seen, history>>

\* submit_pom_feedback
SaveFeedback(r) ==
  /\ At(r, "feedback", "called") /\ Goto(r, "done")
  /\ feedback' = [feedback EXCEPT ![call[r].user] = @ \cup {r}]
  /\ UNCHANGED <<owner, live, judged, events, derived, links, reflections,
                 settingVars, scriptVars, seen, history>>

\* set_privacy_settings: two preferences, two transactions.
SaveLearning(r) ==
  /\ At(r, "settings", "called") /\ Goto(r, "half")
  /\ LET u == call[r].user  on == call[r].values[1]
     IN /\ learning' = [learning EXCEPT ![u] = on]
        /\ consent' = Consenting(u, on, "learning")
  /\ UNCHANGED <<dbVars, prompt, scriptVars, seen, gone, overtaken, stale>>

SavePrompt(r) ==
  /\ At(r, "settings", "half") /\ Goto(r, "done")
  /\ LET u == call[r].user  on == call[r].values[2]
     IN /\ prompt' = [prompt EXCEPT ![u] = on]
        /\ consent' = Consenting(u, on, "prompt")
  /\ UNCHANGED <<dbVars, learning, scriptVars, seen, gone, overtaken, stale>>

\* export_all_data: one SELECT after another, outside any transaction.
ExportStep(r, at, then, sources) ==
  /\ At(r, "export", at) /\ Goto(r, then)
  /\ Tell(r, sources)
  /\ UNCHANGED <<dbVars, settingVars, scriptVars, history>>

ExportSteps(r) ==
  LET u == call[r].user
  IN \/ ExportStep(r, "called", "children", Owned(u))
     \/ ExportStep(r, "children", "insights", {s \in seen[r] : events[s] > 0})
     \/ ExportStep(r, "insights", "patterns", derived[u]["insights"])
     \/ ExportStep(r, "patterns", "pom", derived[u]["learned_patterns"])
     \/ ExportStep(r, "pom", "answers", derived[u]["personal_operating_model"])
     \/ ExportStep(r, "answers", "done", reflections[u] \cup feedback[u])

Handler(r) ==
  \/ RequireOwnedSession(r)
  \/ GateLearning(r)
  \/ ReadDerived(r, "learned_patterns", "insights")
  \/ ReadDerived(r, "insights", "personal_operating_model")
  \/ ReadDerived(r, "personal_operating_model", "run")
  \/ SaveTurnResult(r) \/ SaveEvents(r)
  \/ DeleteRows(r) \/ SelectIds(r) \/ ResetAll(r)
  \/ CheckPrompt(r) \/ SaveReflection(r) \/ SaveFeedback(r)
  \/ SaveLearning(r) \/ SavePrompt(r)
  \/ ExportSteps(r)

Next ==
  \/ \E t \in Scripts : StartScript(t)
  \/ ScriptSteps \/ AbortScript
  \/ \E r \in Requests, u \in Users : Request(r, u)
  \/ \E s \in Sessions, u \in Users : CreateSession(s, u)
  \/ \E r \in Requests : Handler(r)

Spec == Init /\ [][Next]_vars

-----------------------------------------------------------------------------
(* Properties *)

Mine(u) == {s \in Sessions : owner[s] = u} \cup {r \in Requests : call[r].user = u}

\* What is stored about an account, what its turns are told and what its export
\* writes come from its own Journeys and answers only: "each account's own,
\* never another's", across scripts that loop over every account.
OwnDataOnly ==
  /\ \A u \in Users, t \in AllScripts : derived[u][t] \subseteq Mine(u)
  /\ \A r \in Requests : seen[r] \subseteq Mine(call[r].user)

\* "Forget everything" and "delete this Journey": derived rows speak of what was
\* removed only where they were computed before a delete, or written by a visit
\* of a script that the removal overtook.  What a delete was to remove and left
\* in its table, the reflections on the Journey, is not meant: see LeavesNoRow.
ForgottenStaysForgotten ==
  \A u \in Users, t \in AllScripts :
    (derived[u][t] \ reflections[u]) \cap gone # {} => t \in stale[u]

\* "removes a Journey and every row that references it": an answer that was in
\* the database when its Journey was deleted, or its account reset, is not in it
\* afterwards, where every later Personal Operating Model would be made from it.
LeavesNoRow ==
  \A u \in Users : (reflections[u] \cup feedback[u]) \cap gone = {}

\* The opt-out on the read path, the opt-out on the write path and the opt-in of
\* the reflections, each while the two preferences change under way: what needs
\* a preference is done only for somebody who had it at some moment since the
\* request, or the visit, began.  A reflection needs the prompt only, as the
\* handler has it; the data layer thinks otherwise, see ReflectedWithBoth.
ConsentRespected ==
  /\ Visiting => <<"script", "learning">> \in consent
  /\ \A r \in Requests :
       /\ call[r].kind = "turn" /\ seen[r] # {} => <<r, "learning">> \in consent
       /\ \A u \in Users : r \in reflections[u] => <<r, "prompt">> \in consent

\* save_journey_reflection: "the caller already checked both before accepting
\* the submission".  A stored reflection comes from somebody who had, since the
\* request began, the prompt on and cross-session learning on.
ReflectedWithBoth ==
  \A u \in Users : \A r \in reflections[u] :
    {<<r, "prompt">>, <<r, "learning">>} \subseteq consent

\* insight_sessions, from which GET /sessions flags Journeys, agrees with the
\* insight: every Journey linked to is evidence of it, and evidence is unlinked
\* only by the Journey's deletion.
EvidenceAccounted ==
  \A u \in Users :
    /\ links[u] \subseteq derived[u]["insights"]
    /\ derived[u]["insights"] \subseteq links[u] \cup gone

\* The module doc of insight/engine.py: "a hallucinated or duplicated id must
\* not let a genuinely under-evidenced theme slip through".
EvidenceFloor ==
  \A u \in Users :
    derived[u]["insights"] # {} => Cardinality(derived[u]["insights"]) >= MinSessions
=============================================================================
