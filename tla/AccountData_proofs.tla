-------------------------- MODULE AccountData_proofs --------------------------
(***************************************************************************)
(* The account's data for any number of accounts, Journeys, requests and   *)
(* script runs.  The steps are grouped by what they do to the state: a     *)
(* visit reads, a visit writes, a handler moves on, a handler is told      *)
(* something; each group has a lemma, and the invariants are proved from   *)
(* the lemmas.                                                             *)
(***************************************************************************)
EXTENDS AccountData, TLAPS

CallType == [kind : AllKinds \cup {"none"}, user : Users \cup {"nobody"},
             journey : Sessions \cup {"none"}, at : HandlerPoints, values : Bodies]

\* Where requests and visits are, and what they hold there.
Progress ==
  /\ \A r \in Requests : \/ call[r] = Idle /\ seen[r] = {}
                         \/ call[r].user \in Users /\ call[r].at # "idle"
  /\ \A r \in Requests : call[r].at = "owned" =>
       call[r].journey \in Sessions /\ owner[call[r].journey] = call[r].user
  /\ \A r \in Requests : call[r].kind = "settings" /\ call[r].at \in {"called", "half"} =>
       call[r].values \in BOOLEAN \X BOOLEAN
  /\ Visiting => acct \in Users
  /\ ~Visiting => got = NothingRead /\ ~overtaken
  /\ script = "none" => step = "stopped"
  /\ \A s \in live : owner[s] \in Users

\* OwnDataOnly, with what a visit has in hand and with the answers it reads.
OwnInv ==
  /\ \A u \in Users, t \in AllScripts : derived[u][t] \subseteq Mine(u)
  /\ \A r \in Requests : seen[r] \subseteq Mine(call[r].user)
  /\ Visiting => got.from \subseteq Mine(acct) /\ got.texts \subseteq Mine(acct)
  /\ \A u \in Users : reflections[u] \subseteq Mine(u) /\ feedback[u] \subseteq Mine(u)

\* ConsentRespected, with the consent that unfinished requests hold.
ConsentInv ==
  /\ Visiting => <<"script", "learning">> \in consent
  /\ \A r \in Requests : call[r].user \in Users /\ call[r].at # "done" =>
       /\ learning[call[r].user] => <<r, "learning">> \in consent
       /\ prompt[call[r].user] => <<r, "prompt">> \in consent
  /\ \A r \in Requests : call[r].kind = "turn" /\ (call[r].at \in AllScripts \/ seen[r] # {}) =>
       <<r, "learning">> \in consent
  /\ \A r \in Requests : call[r].at = "allowed" => <<r, "prompt">> \in consent
  /\ \A r \in Requests, u \in Users : r \in reflections[u] => <<r, "prompt">> \in consent

\* ForgottenStaysForgotten, with what a visit has in hand.
ForgottenInv ==
  /\ ForgottenStaysForgotten
  /\ Visiting /\ ~overtaken => ((got.from \cup got.texts) \ reflections[acct]) \cap gone = {}
  /\ live \cap gone = {}
  /\ \A u \in Users : feedback[u] \cap gone = {}
  /\ \A s \in gone \cap Sessions : owner[s] \in Users
  /\ \A r \in gone \cap Requests : call[r].at = "done"
  /\ \A u \in Users : /\ \A r \in reflections[u] : At(r, "reflect", "done")
                     /\ \A r \in feedback[u] : At(r, "feedback", "done")

-----------------------------------------------------------------------------
(* Groups of steps *)

Reads ==
  \/ GetEventsForUser \/ SelectRecent \/ SelectEvidence \/ SelectTexts
  \/ ReadWorlds \/ ReadReflections \/ ReadFeedback \/ ReadEvents

Writes == ReplacePatterns \/ ReplaceInsights \/ ReplacePOM

\* Handler steps that change nothing but where the request is.
Moves(r) == RequireOwnedSession(r) \/ GateLearning(r) \/ CheckPrompt(r)

\* Handler steps that add to what the request has been told.
Tells(r) ==
  \/ ReadDerived(r, "learned_patterns", "insights")
  \/ ReadDerived(r, "insights", "personal_operating_model")
  \/ ReadDerived(r, "personal_operating_model", "run")
  \/ SelectIds(r) \/ ExportSteps(r)

LEMMA GotoFacts ==
  ASSUME TypeOK, NEW r \in Requests, NEW at \in HandlerPoints, Goto(r, at)
  PROVE  /\ call' \in [Requests -> CallType]
         /\ call'[r].at = at /\ call'[r].kind = call[r].kind /\ call'[r].user = call[r].user
         /\ at # "done" => call'[r] = [call[r] EXCEPT !.at = at]
         /\ \A q \in Requests \ {r} : call'[q] = call[q]
<1>1. call \in [Requests -> CallType] BY DEF TypeOK, CallType
<1>2. <<>> \in Bodies BY DEF Bodies
<1>3. "none" \in Sessions \cup {"none"} OBVIOUS
<1>4. CASE at = "done"
  <2>1. PICK s \in Sessions \cup {"none"} :
          call' = [call EXCEPT ![r] = [call[r] EXCEPT !.at = at, !.journey = s, !.values = <<>>]]
    <3>1. CASE call[r].kind = "reflect"
      <4>1. call[r].journey \in Sessions \cup {"none"} BY <1>1 DEF CallType
      <4>2. call' = [call EXCEPT ![r] = [call[r] EXCEPT !.at = at, !.journey = call[r].journey, !.values = <<>>]]
        BY <1>1, <1>4, <3>1 DEF Goto, CallType
      <4> QED BY <4>1, <4>2
    <3>2. CASE call[r].kind # "reflect"
      <4>1. call' = [call EXCEPT ![r] = [call[r] EXCEPT !.at = at, !.journey = "none", !.values = <<>>]]
        BY <1>1, <1>4, <3>2 DEF Goto
      <4> QED BY <1>3, <4>1
    <3> QED BY <3>1, <3>2
  <2>2. [call[r] EXCEPT !.at = at, !.journey = s, !.values = <<>>] \in CallType
    BY <1>1, <1>2 DEF CallType
  <2> QED BY <1>1, <1>4, <2>1, <2>2 DEF CallType
<1>5. CASE at # "done"
  <2>1. call' = [call EXCEPT ![r] = [call[r] EXCEPT !.at = at]]
    BY <1>1, <1>5 DEF Goto, CallType
  <2>2. [call[r] EXCEPT !.at = at] \in CallType
    BY <1>1 DEF CallType
  <2> QED BY <1>1, <1>5, <2>1, <2>2 DEF CallType
<1> QED BY <1>4, <1>5

\* A read of a script: what it adds is the account's own, and still there.
LEMMA ReadFacts ==
  ASSUME TypeOK, Progress, Reads
  PROVE  /\ Visiting /\ Visiting' /\ step' \in ScriptPoints
         /\ got' \in [from : SUBSET Sources, rows : SUBSET Rows,
                      recent : SUBSET Sessions, texts : SUBSET Sessions]
         /\ got'.from \subseteq got.from \cup Owned(acct) \cup reflections[acct] \cup feedback[acct]
         /\ got'.texts \subseteq got.texts \cup Owned(acct)
         /\ UNCHANGED <<dbVars, settingVars, callVars, history, script, todo, acct, runs>>
<1> DEFINE GotType == [from : SUBSET Sources, rows : SUBSET Rows,
                       recent : SUBSET Sessions, texts : SUBSET Sessions]
           Fine == /\ got' \in GotType
                   /\ got'.from \subseteq got.from \cup Owned(acct) \cup reflections[acct] \cup feedback[acct]
                   /\ got'.texts \subseteq got.texts \cup Owned(acct)
<1>1. got \in GotType BY DEF TypeOK
<1>2. UNCHANGED <<dbVars, settingVars, callVars, history, script, todo, acct, runs>>
  BY DEF Reads, GetEventsForUser, SelectRecent, SelectEvidence, SelectTexts, ReadWorlds,
         ReadReflections, ReadFeedback, ReadEvents, ReadStep
<1>3. step \in {"read", "evidence", "texts", "reflections", "feedback", "events"}
  BY DEF Reads, GetEventsForUser, SelectRecent, SelectEvidence, SelectTexts, ReadWorlds,
         ReadReflections, ReadFeedback, ReadEvents, ReadStep
<1>4. step' \in {"evidence", "texts", "reflections", "feedback", "events", "write"}
  BY DEF Reads, GetEventsForUser, SelectRecent, SelectEvidence, SelectTexts, ReadWorlds,
         ReadReflections, ReadFeedback, ReadEvents, ReadStep
<1>5. Visiting /\ Visiting' /\ step' \in ScriptPoints /\ acct \in Users
  BY <1>3, <1>4 DEF Visiting, ScriptPoints, Progress
<1>6. /\ Owned(acct) \subseteq Sessions /\ Owned(acct) \subseteq Sources
      /\ reflections[acct] \subseteq Sources /\ feedback[acct] \subseteq Sources
      /\ links[acct] \subseteq Sessions
  BY <1>5 DEF TypeOK, Owned, Sources
<1>7. Fine
  <2>1. ASSUME GetEventsForUser PROVE Fine
    <3>1. got' = [got EXCEPT !.from = Eventful(acct), !.rows = EventRows(Eventful(acct))]
      BY <2>1 DEF GetEventsForUser
    <3>2. Eventful(acct) \subseteq Owned(acct) /\ EventRows(Eventful(acct)) \subseteq Rows
      BY DEF Eventful, EventRows
    <3> QED BY <1>1, <1>6, <3>1, <3>2
  <2>2. ASSUME SelectRecent PROVE Fine
    <3>1. PICK ids \in Newest(acct) : got' = [got EXCEPT !.recent = ids]
      BY <2>2 DEF SelectRecent
    <3>2. ids \subseteq Sessions BY <1>6, <3>1 DEF Newest, kSubset
    <3> QED BY <1>1, <3>1, <3>2
  <2>3. ASSUME SelectEvidence PROVE Fine
    <3>1. got' = [got EXCEPT !.recent = got.recent \cup links[acct]] BY <1>1, <2>3 DEF SelectEvidence
    <3> QED BY <1>1, <1>6, <3>1
  <2>4. ASSUME SelectTexts PROVE Fine
    <3>1. got' = [got EXCEPT !.texts = got.recent \cap Owned(acct) \cap judged]
      BY <2>4 DEF SelectTexts
    <3> QED BY <1>1, <1>6, <3>1
  <2>5. ASSUME NEW from, NEW to, NEW sources, ReadStep(from, to, sources),
               sources \subseteq Owned(acct) \cup reflections[acct] \cup feedback[acct]
        PROVE  Fine
    <3>1. got' = [got EXCEPT !.from = got.from \cup sources] BY <1>1, <2>5 DEF ReadStep
    <3> QED BY <1>1, <1>6, <2>5, <3>1
  <2>6. ASSUME ReadWorlds PROVE Fine
    <3>1. PICK ids \in Newest(acct) : ReadStep("read", "reflections", ids)
      BY <2>6 DEF ReadWorlds
    <3>2. ids \subseteq Owned(acct) BY <3>1 DEF Newest, kSubset
    <3> QED BY <2>5, <3>1, <3>2
  <2>7. ASSUME ReadReflections PROVE Fine BY <2>5, <2>7 DEF ReadReflections
  <2>8. ASSUME ReadFeedback PROVE Fine BY <2>5, <2>8 DEF ReadFeedback
  <2>9. ASSUME ReadEvents PROVE Fine
    <3>1. Eventful(acct) \subseteq Owned(acct) BY DEF Eventful
    <3> QED BY <2>5, <2>9, <3>1 DEF ReadEvents
  <2> QED BY <2>1, <2>2, <2>3, <2>4, <2>6, <2>7, <2>8, <2>9 DEF Reads
<1> QED BY <1>2, <1>5, <1>7

\* The grounding keeps only ids that were sent.
LEMMA Grounded ==
  ASSUME TypeOK, NEW evidence \in Detected
  PROVE  evidence \subseteq got.texts
<1>1. CASE Cardinality(got.texts) < MinSessions BY <1>1 DEF Detected
<1>2. CASE ~(Cardinality(got.texts) < MinSessions)
  <2>1. PICK cited \in Citations : evidence = EnforceGrounding(cited, got.texts)
    BY <1>2 DEF Detected
  <2> QED BY <2>1 DEF EnforceGrounding
<1> QED BY <1>1, <1>2

\* The end of a visit: one table of the account is replaced, with what was read.
LEMMA WriteFacts ==
  ASSUME TypeOK, Progress, Writes
  PROVE  /\ Visiting /\ acct \in Users
         /\ \E t \in AllScripts, sources \in SUBSET Sources :
              /\ Replace(t, sources) /\ sources \subseteq got.from \cup got.texts
              /\ IF t = "insights" THEN /\ sources \in SUBSET Sessions
                                       /\ links' = [links EXCEPT ![acct] = sources]
                                  ELSE links' = links
<1>1. got.from \subseteq Sources /\ got.texts \subseteq Sessions /\ got.texts \subseteq Sources
  BY DEF TypeOK, Sources
<1>2. step = "write"
  BY DEF Writes, ReplacePatterns, ReplaceInsights, ReplacePOM, Replace
<1>3. Visiting /\ acct \in Users BY <1>2 DEF Visiting, Progress
<1>4. ASSUME ReplacePatterns
      PROVE  \E sources \in SUBSET Sources : /\ Replace("learned_patterns", sources)
                                            /\ sources \subseteq got.from /\ links' = links
  BY <1>1, <1>4 DEF ReplacePatterns
<1>5. ASSUME ReplaceInsights
      PROVE  \E sources \in SUBSET Sessions : /\ Replace("insights", sources)
                                             /\ sources \subseteq got.texts
                                             /\ links' = [links EXCEPT ![acct] = sources]
  BY <1>1, <1>5, Grounded DEF ReplaceInsights
<1>6. ASSUME ReplacePOM
      PROVE  Replace("personal_operating_model", got.from) /\ links' = links
  BY <1>6 DEF ReplacePOM
<1>7. {"learned_patterns", "insights", "personal_operating_model"} = AllScripts BY DEF AllScripts
<1>8. CASE ReplacePatterns BY <1>1, <1>3, <1>4, <1>7, <1>8
<1>9. CASE ReplaceInsights
  <2>1. PICK sources \in SUBSET Sessions : /\ Replace("insights", sources)
                                           /\ sources \subseteq got.texts
                                           /\ links' = [links EXCEPT ![acct] = sources]
    BY <1>5, <1>9
  <2>2. sources \in SUBSET Sources BY DEF Sources
  <2> QED BY <1>3, <1>7, <2>1, <2>2
<1>10. CASE ReplacePOM BY <1>1, <1>3, <1>6, <1>7, <1>10
<1> QED BY <1>8, <1>9, <1>10 DEF Writes

-----------------------------------------------------------------------------
(* Types, and where requests and visits are *)

\* Every step belongs to one of the groups.
LEMMA Groups ==
  ASSUME [Next]_vars
  PROVE  \/ UNCHANGED vars
         \/ \E t \in Scripts : StartScript(t)
         \/ \E u \in Users : Visit(u)
         \/ Reads \/ Writes \/ AbortScript
         \/ \E r \in Requests, u \in Users, kind \in AllKinds,
               s \in Sessions \cup {"none"}, values \in Bodies :
              /\ kind = "settings" => values \in BOOLEAN \X BOOLEAN
              /\ Begin(r, u, kind, s, values)
         \/ \E s \in Sessions, u \in Users : CreateSession(s, u)
         \/ \E r \in Requests :
              \/ Moves(r) \/ Tells(r) \/ SaveTurnResult(r) \/ SaveEvents(r)
              \/ DeleteRows(r) \/ ResetAll(r) \/ SaveReflection(r) \/ SaveFeedback(r)
              \/ SaveLearning(r) \/ SavePrompt(r)
<1>1. ASSUME NEW r \in Requests, NEW u \in Users, Request(r, u)
      PROVE  \E kind \in AllKinds, s \in Sessions \cup {"none"}, values \in Bodies :
               /\ kind = "settings" => values \in BOOLEAN \X BOOLEAN
               /\ Begin(r, u, kind, s, values)
  BY <1>1 DEF Request, AllKinds, Bodies
<1>2. ASSUME ScriptSteps
      PROVE  (\E u \in Users : Visit(u)) \/ Reads \/ Writes \/ AbortScript
  BY <1>2 DEF ScriptSteps, Reads, Writes, FinishScript
<1>3. ASSUME NEW r \in Requests, Handler(r)
      PROVE  \/ Moves(r) \/ Tells(r) \/ SaveTurnResult(r) \/ SaveEvents(r)
             \/ DeleteRows(r) \/ ResetAll(r) \/ SaveReflection(r) \/ SaveFeedback(r)
             \/ SaveLearning(r) \/ SavePrompt(r)
  BY <1>3 DEF Handler, Moves, Tells
<1> QED BY <1>1, <1>2, <1>3 DEF Next

LEMMA MoveFacts ==
  ASSUME TypeOK, NEW r \in Requests, Moves(r)
  PROVE  /\ UNCHANGED <<dbVars, settingVars, scriptVars, seen, history>>
         /\ call[r].at \in {"called", "owned"}
         /\ \E at \in HandlerPoints \ {"idle", "half", "called"} : Goto(r, at)
         /\ call'[r].at = "owned" => call[r].journey \in Owned(call[r].user)
         /\ call'[r].at \in AllScripts => learning[call[r].user]
         /\ call'[r].at = "allowed" => prompt[call[r].user]
<1> DEFINE Later == HandlerPoints \ {"idle", "half", "called"}
<1>1. {"owned", "done", "learned_patterns", "run", "allowed"} \subseteq Later
  BY DEF HandlerPoints, AllScripts
<1>2. CASE RequireOwnedSession(r)
  <2>1. Goto(r, IF call[r].journey \in Owned(call[r].user) THEN "owned" ELSE "done")
    BY <1>2 DEF RequireOwnedSession
  <2>2. PICK at \in {"owned", "done"} :
          Goto(r, at) /\ (at = "owned" <=> call[r].journey \in Owned(call[r].user))
    BY <2>1
  <2>3. at \in Later /\ call'[r].at = at BY <1>1, <2>2, GotoFacts
  <2> QED BY <1>2, <2>2, <2>3 DEF RequireOwnedSession, AllScripts
<1>3. CASE GateLearning(r)
  <2>1. Goto(r, IF learning[call[r].user] THEN "learned_patterns" ELSE "run")
    BY <1>3 DEF GateLearning
  <2>2. PICK at \in {"learned_patterns", "run"} :
          Goto(r, at) /\ (at = "learned_patterns" <=> learning[call[r].user])
    BY <2>1
  <2>3. at \in Later /\ call'[r].at = at BY <1>1, <2>2, GotoFacts
  <2> QED BY <1>3, <2>2, <2>3 DEF GateLearning, At, AllScripts
<1>4. CASE CheckPrompt(r)
  <2>1. Goto(r, IF prompt[call[r].user] THEN "allowed" ELSE "done")
    BY <1>4 DEF CheckPrompt
  <2>2. PICK at \in {"allowed", "done"} :
          Goto(r, at) /\ (at = "allowed" <=> prompt[call[r].user])
    BY <2>1
  <2>3. at \in Later /\ call'[r].at = at BY <1>1, <2>2, GotoFacts
  <2> QED BY <1>4, <2>2, <2>3 DEF CheckPrompt, At, AllScripts
<1> QED BY <1>2, <1>3, <1>4 DEF Moves

\* What a request is told is derived for its user, or is its user's.
LEMMA TellFacts ==
  ASSUME TypeOK, Progress, NEW r \in Requests, Tells(r)
  PROVE  /\ UNCHANGED <<dbVars, settingVars, scriptVars, history>>
         /\ call[r].at \notin {"idle", "done", "allowed"} /\ call[r].user \in Users
         /\ call[r].kind = "turn" => call[r].at \in AllScripts
         /\ \E at \in HandlerPoints \ {"idle", "owned", "half", "called", "allowed"} : Goto(r, at)
         /\ \E sources \in SUBSET Sources :
              /\ seen' = [seen EXCEPT ![r] = seen[r] \cup sources]
              /\ sources \subseteq (UNION {derived[call[r].user][t] : t \in AllScripts}) \cup seen[r]
                                  \cup Owned(call[r].user) \cup reflections[call[r].user]
                                  \cup feedback[call[r].user]
<1> DEFINE u == call[r].user
           Told == (UNION {derived[u][t] : t \in AllScripts}) \cup seen[r]
                     \cup Owned(u) \cup reflections[u] \cup feedback[u]
           Later == HandlerPoints \ {"idle", "owned", "half", "called", "allowed"}
           Moved == \E at \in Later : Goto(r, at)
           Heard == \E sources \in SUBSET Sources :
                      /\ seen' = [seen EXCEPT ![r] = seen[r] \cup sources]
                      /\ sources \subseteq Told
           Same == UNCHANGED <<dbVars, settingVars, scriptVars, history>>
           From == /\ call[r].at \notin {"idle", "done", "allowed"}
                   /\ call[r].kind = "turn" => call[r].at \in AllScripts
<1>1. call[r].at # "idle" => u \in Users
  BY DEF Progress, Idle
<1>2. u \in Users =>
        /\ \A t \in AllScripts : derived[u][t] \in SUBSET Sources
        /\ seen[r] \in SUBSET Sources /\ Owned(u) \in SUBSET Sources
        /\ reflections[u] \in SUBSET Sources /\ feedback[u] \in SUBSET Sources
  BY DEF TypeOK, Owned, Sources
<1>3. /\ \A t \in AllScripts : derived[u][t] \subseteq Told
      /\ Owned(u) \subseteq Told /\ reflections[u] \cup feedback[u] \subseteq Told
      /\ {s \in seen[r] : events[s] > 0} \subseteq Told
  <2>1. \A t \in AllScripts : derived[u][t] \subseteq UNION {derived[u][v] : v \in AllScripts} OBVIOUS
  <2>2. \A t \in AllScripts : derived[u][t] \subseteq Told BY <2>1
  <2>3. Owned(u) \subseteq Told /\ reflections[u] \cup feedback[u] \subseteq Told /\ seen[r] \subseteq Told
    OBVIOUS
  <2>4. {s \in seen[r] : events[s] > 0} \subseteq seen[r] OBVIOUS
  <2> QED BY <2>2, <2>3, <2>4
<1>4. ASSUME NEW sources, Tell(r, sources), sources \subseteq Told, sources \in SUBSET Sources
      PROVE  Heard
  BY <1>4 DEF Tell, TypeOK
<1> HIDE DEF Told
<1>5. ASSUME NEW t \in AllScripts, NEW then \in {"insights", "personal_operating_model", "run"},
             ReadDerived(r, t, then)
      PROVE  From /\ Same /\ Moved /\ Heard
  <2>1. From BY <1>5 DEF ReadDerived, At, AllScripts
  <2>2. derived[u][t] \in SUBSET Sources BY <1>1, <1>2, <2>1
  <2>3. Tell(r, derived[u][t]) BY <1>5 DEF ReadDerived
  <2>4. Heard BY <1>3, <1>4, <2>2, <2>3
  <2>5. then \in Later BY DEF HandlerPoints, AllScripts
  <2>6. Same /\ Moved BY <1>5, <2>5 DEF ReadDerived
  <2> QED BY <2>1, <2>4, <2>6
<1>6. ASSUME SelectIds(r)
      PROVE  From /\ Same /\ Moved /\ Heard
  <2>1. From BY <1>6 DEF SelectIds, At
  <2>2. Tell(r, Owned(u)) BY <1>6 DEF SelectIds
  <2>3. Heard BY <1>1, <1>2, <1>3, <1>4, <2>1, <2>2
  <2>4. "selected" \in Later BY DEF HandlerPoints
  <2>5. Same /\ Moved BY <1>6, <2>4 DEF SelectIds
  <2> QED BY <2>1, <2>3, <2>5
<1>7. ASSUME NEW at \in {"called", "children", "insights", "patterns", "pom", "answers"},
             NEW then \in {"children", "insights", "patterns", "pom", "answers", "done"},
             NEW sources, ExportStep(r, at, then, sources), sources \subseteq Told,
             u \in Users => sources \in SUBSET Sources
      PROVE  From /\ Same /\ Moved /\ Heard
  <2>1. From BY <1>7 DEF ExportStep, At
  <2>2. Tell(r, sources) BY <1>7 DEF ExportStep
  <2>3. Heard BY <1>1, <1>4, <1>7, <2>1, <2>2
  <2>4. then \in Later BY DEF HandlerPoints, AllScripts
  <2>5. Same /\ Moved BY <1>7, <2>4 DEF ExportStep
  <2> QED BY <2>1, <2>3, <2>5
<1> HIDE DEF From, Same, Moved, Heard
<1>8. ASSUME ExportSteps(r)
      PROVE  From /\ Same /\ Moved /\ Heard
  <2>1. {"learned_patterns", "insights", "personal_operating_model"} \subseteq AllScripts BY DEF AllScripts
  <2>2. CASE ExportStep(r, "called", "children", Owned(u)) BY <1>2, <1>3, <1>7, <2>2
  <2>3. CASE ExportStep(r, "children", "insights", {s \in seen[r] : events[s] > 0})
    <3>1. u \in Users => {s \in seen[r] : events[s] > 0} \in SUBSET Sources BY <1>2
    <3> QED BY <1>3, <1>7, <2>3, <3>1
  <2>4. CASE ExportStep(r, "insights", "patterns", derived[u]["insights"])
    BY <1>2, <1>3, <1>7, <2>1, <2>4
  <2>5. CASE ExportStep(r, "patterns", "pom", derived[u]["learned_patterns"])
    BY <1>2, <1>3, <1>7, <2>1, <2>5
  <2>6. CASE ExportStep(r, "pom", "answers", derived[u]["personal_operating_model"])
    BY <1>2, <1>3, <1>7, <2>1, <2>6
  <2>7. CASE ExportStep(r, "answers", "done", reflections[u] \cup feedback[u])
    <3>1. u \in Users => reflections[u] \cup feedback[u] \in SUBSET Sources BY <1>2
    <3> QED BY <1>3, <1>7, <2>7, <3>1
  <2> QED BY <1>8, <2>2, <2>3, <2>4, <2>5, <2>6, <2>7 DEF ExportSteps
<1>9. From /\ Same /\ Moved /\ Heard
  <2>1. {"learned_patterns", "insights", "personal_operating_model"} \subseteq AllScripts BY DEF AllScripts
  <2> QED BY <1>5, <1>6, <1>8, <2>1 DEF Tells
<1> QED BY <1>1, <1>9 DEF From, Same, Moved, Heard, Told

LEMMA TypeInit ==
  ASSUME Init PROVE TypeOK
<1>1. owner \in [Sessions -> Users \cup {"absent"}] /\ live \subseteq Sessions /\ judged \subseteq live
  BY DEF Init
<1>2. <<>> \in Bodies /\ "idle" \in HandlerPoints /\ "stopped" \in ScriptPoints
  BY DEF Bodies, HandlerPoints, ScriptPoints
<1>3. Idle \in CallType BY <1>2 DEF Idle, CallType
<1>4. call \in [Requests -> CallType] BY <1>3 DEF Init
<1>5. events \in [Sessions -> 0..MaxEvents]
  BY BoundAssumption DEF Init
<1>6. /\ derived \in [Users -> [AllScripts -> SUBSET Sources]] /\ links \in [Users -> SUBSET Sessions]
      /\ reflections \in [Users -> SUBSET Requests] /\ feedback \in [Users -> SUBSET Requests]
      /\ learning \in [Users -> BOOLEAN] /\ prompt \in [Users -> BOOLEAN]
      /\ seen \in [Requests -> SUBSET Sources] /\ stale \in [Users -> SUBSET AllScripts]
  BY DEF Init
<1>7. got \in [from : SUBSET Sources, rows : SUBSET Rows,
               recent : SUBSET Sessions, texts : SUBSET Sessions]
  BY DEF Init, NothingRead
<1>8. runs \in 0..MaxRuns BY BoundAssumption DEF Init
<1>9. /\ script \in AllScripts \cup {"none"} /\ step \in ScriptPoints /\ todo \subseteq Users
      /\ acct \in Users \cup {"nobody"} /\ overtaken \in BOOLEAN
      /\ consent \subseteq (Requests \cup {"script"}) \X {"learning", "prompt"} /\ gone \subseteq Sources
  BY <1>2 DEF Init
<1> QED BY <1>1, <1>4, <1>5, <1>6, <1>7, <1>8, <1>9 DEF TypeOK, CallType

LEMMA TypeStep ==
  ASSUME TypeOK, Progress, [Next]_vars PROVE TypeOK'
<1> USE DEF dbVars, settingVars, scriptVars, callVars, history
<1> DEFINE GotType == [from : SUBSET Sources, rows : SUBSET Rows,
                       recent : SUBSET Sessions, texts : SUBSET Sessions]
           Actors == (Requests \cup {"script"}) \X {"learning", "prompt"}
<1>1. CASE UNCHANGED vars BY <1>1 DEF TypeOK, vars
<1>2. ASSUME NEW t \in Scripts, StartScript(t) PROVE TypeOK'
  <2>1. t \in AllScripts BY KindAssumption
  <2>2. runs' \in 0..MaxRuns BY <1>2, BoundAssumption DEF StartScript, TypeOK
  <2>3. script' \in AllScripts \cup {"none"} /\ step' \in ScriptPoints /\ todo' \subseteq Users
    BY <1>2, <2>1 DEF StartScript, TypeOK, ScriptPoints, Accounts
  <2> QED BY <1>2, <2>2, <2>3 DEF StartScript, TypeOK
<1>3. ASSUME NEW u \in Users, Visit(u) PROVE TypeOK'
  <2>1. consent' \subseteq Actors BY <1>3 DEF Visit, TypeOK
  <2>2. acct' \in Users \cup {"nobody"} /\ step' \in ScriptPoints /\ todo' \subseteq Users
    BY <1>3 DEF Visit, TypeOK, ScriptPoints
  <2> QED BY <1>3, <2>1, <2>2 DEF Visit, TypeOK
<1>4. CASE Reads
  BY <1>4, ReadFacts DEF TypeOK
<1>5. CASE Writes
  <2>1. PICK t \in AllScripts, sources \in SUBSET Sources :
          /\ Replace(t, sources) /\ sources \subseteq got.from \cup got.texts
          /\ IF t = "insights" THEN /\ sources \in SUBSET Sessions
                                   /\ links' = [links EXCEPT ![acct] = sources]
                              ELSE links' = links
    BY <1>5, WriteFacts
  <2>2. derived' \in [Users -> [AllScripts -> SUBSET Sources]]
    BY <1>5, <2>1, WriteFacts DEF Replace, TypeOK
  <2>3. stale' \in [Users -> SUBSET AllScripts] BY <2>1 DEF Replace, TypeOK
  <2>4. links' \in [Users -> SUBSET Sessions] BY <2>1 DEF TypeOK
  <2>5. got' \in GotType BY <2>1 DEF Replace, NothingRead
  <2>6. step' \in ScriptPoints BY <2>1 DEF Replace, ScriptPoints
  <2> QED BY <2>1, <2>2, <2>3, <2>4, <2>5, <2>6 DEF Replace, TypeOK
<1>6. CASE AbortScript
  <2>1. got' \in GotType BY <1>6 DEF AbortScript, NothingRead
  <2> QED BY <1>6, <2>1 DEF AbortScript, TypeOK, ScriptPoints
<1>7. ASSUME NEW r \in Requests, NEW u \in Users, NEW kind \in AllKinds,
             NEW s \in Sessions \cup {"none"}, NEW values \in Bodies, Begin(r, u, kind, s, values)
      PROVE  TypeOK'
  <2>1. call' \in [Requests -> CallType] BY <1>7 DEF Begin, TypeOK, CallType, HandlerPoints
  <2>2. consent' \subseteq Actors BY <1>7 DEF Begin, TypeOK
  <2> QED BY <1>7, <2>1, <2>2 DEF Begin, TypeOK, CallType
<1>8. ASSUME NEW s \in Sessions, NEW u \in Users, CreateSession(s, u) PROVE TypeOK'
  BY <1>8 DEF CreateSession, TypeOK
<1>9. ASSUME NEW r \in Requests PROVE (Moves(r) \/ Tells(r)) => TypeOK'
  <2>1. CASE Moves(r)
    <3>1. PICK then \in HandlerPoints : Goto(r, then) BY <2>1, MoveFacts
    <3>2. call' \in [Requests -> CallType] BY <3>1, GotoFacts
    <3> QED BY <2>1, <3>2, MoveFacts DEF TypeOK, CallType
  <2>2. CASE Tells(r)
    <3>1. PICK then \in HandlerPoints : Goto(r, then) BY <2>2, TellFacts
    <3>3. call' \in [Requests -> CallType] BY <3>1, GotoFacts
    <3>2. PICK sources \in SUBSET Sources : seen' = [seen EXCEPT ![r] = seen[r] \cup sources]
      BY <2>2, TellFacts
    <3>4. seen' \in [Requests -> SUBSET Sources] BY <3>2 DEF TypeOK
    <3> QED BY <2>2, <3>3, <3>4, TellFacts DEF TypeOK, CallType
  <2> QED BY <2>1, <2>2
<1>10. ASSUME NEW r \in Requests, NEW u \in Users \cup {"nobody"}, NEW on \in BOOLEAN,
              NEW pref \in {"learning", "prompt"}
       PROVE  Consenting(u, on, pref) \subseteq Actors
  BY DEF Consenting, TypeOK
<1>11. ASSUME NEW r \in Requests, SaveTurnResult(r) PROVE TypeOK'
  <2>1. call' \in [Requests -> CallType]
    BY <1>11, GotoFacts DEF SaveTurnResult, HandlerPoints
  <2>2. judged' \subseteq live BY <1>11 DEF SaveTurnResult, TypeOK
  <2> QED BY <1>11, <2>1, <2>2 DEF SaveTurnResult, TypeOK, CallType
<1>12. ASSUME NEW r \in Requests, SaveEvents(r) PROVE TypeOK'
  <2>1. call' \in [Requests -> CallType]
    BY <1>12, GotoFacts DEF SaveEvents, HandlerPoints
  <2>2. events' \in [Sessions -> 0..MaxEvents]
    <3>1. \A n \in 0..MaxEvents : (IF n < MaxEvents THEN n + 1 ELSE n) \in 0..MaxEvents
      BY BoundAssumption
    <3>2. events \in [Sessions -> 0..MaxEvents] BY DEF TypeOK
    <3>3. events' = [events EXCEPT ![call[r].journey] =
                       IF events[call[r].journey] < MaxEvents THEN events[call[r].journey] + 1
                                                              ELSE events[call[r].journey]]
      BY <1>12 DEF SaveEvents
    <3> QED BY <3>1, <3>2, <3>3
  <2> QED BY <1>12, <2>1, <2>2 DEF SaveEvents, TypeOK, CallType
<1>13. ASSUME NEW r \in Requests, DeleteRows(r) PROVE TypeOK'
  <2>1. call' \in [Requests -> CallType]
    BY <1>13, GotoFacts DEF DeleteRows, HandlerPoints
  <2>2. call[r].journey \in Sessions BY <1>13 DEF DeleteRows, At, Progress
  <2>3. /\ links' \in [Users -> SUBSET Sessions] /\ events' \in [Sessions -> 0..MaxEvents]
        /\ judged' \subseteq live' /\ live' \subseteq Sessions
    BY <1>13, <2>2, BoundAssumption DEF DeleteRows, TypeOK, Sources
  <2>6. gone' \subseteq Sources
    <3>1. call[r].user \in Users BY <1>13 DEF DeleteRows, At, Progress, Idle
    <3>2. Reflected(call[r].user, call[r].journey) \subseteq Requests BY <3>1 DEF Reflected, TypeOK
    <3> QED BY <1>13, <2>2, <3>2 DEF DeleteRows, TypeOK, Sources
  <2>4. stale' \in [Users -> SUBSET AllScripts]
    BY <1>13 DEF DeleteRows, TypeOK
  <2>5. overtaken' \in BOOLEAN BY <1>13 DEF DeleteRows
  <2> QED BY <1>13, <2>1, <2>3, <2>4, <2>5, <2>6 DEF DeleteRows, TypeOK, CallType
<1>14. ASSUME NEW r \in Requests, ResetAll(r) PROVE TypeOK'
  <2>1. call' \in [Requests -> CallType]
    BY <1>14, GotoFacts DEF ResetAll, HandlerPoints
  <2>2. call[r].user \in Users BY <1>14 DEF ResetAll, At, Progress, Idle
  <2>3. /\ links' \in [Users -> SUBSET Sessions]
        /\ judged' \subseteq live' /\ live' \subseteq Sessions
    BY <1>14 DEF ResetAll, TypeOK
  <2>7. events' \in [Sessions -> 0..MaxEvents]
    BY <1>14, BoundAssumption DEF ResetAll, TypeOK
  <2>4. gone' \subseteq Sources
    BY <1>14, <2>2 DEF ResetAll, TypeOK, Sources, Owned
  <2>5. /\ stale' \in [Users -> SUBSET AllScripts]
        /\ derived' \in [Users -> [AllScripts -> SUBSET Sources]]
        /\ reflections' \in [Users -> SUBSET Requests] /\ feedback' \in [Users -> SUBSET Requests]
    BY <1>14 DEF ResetAll, TypeOK
  <2>6. overtaken' \in BOOLEAN BY <1>14 DEF ResetAll
  <2> QED BY <1>14, <2>1, <2>3, <2>4, <2>5, <2>6, <2>7 DEF ResetAll, TypeOK, CallType
<1>15. ASSUME NEW r \in Requests, SaveReflection(r) \/ SaveFeedback(r) PROVE TypeOK'
  <2>1. call' \in [Requests -> CallType]
    BY <1>15, GotoFacts DEF SaveReflection, SaveFeedback, HandlerPoints
  <2>2. ASSUME SaveReflection(r)
        PROVE  reflections' \in [Users -> SUBSET Requests] /\ feedback' \in [Users -> SUBSET Requests]
    BY <2>2 DEF SaveReflection, TypeOK
  <2>3. ASSUME SaveFeedback(r)
        PROVE  reflections' \in [Users -> SUBSET Requests] /\ feedback' \in [Users -> SUBSET Requests]
    BY <2>3 DEF SaveFeedback, TypeOK
  <2> QED BY <1>15, <2>1, <2>2, <2>3 DEF SaveReflection, SaveFeedback, TypeOK, CallType
<1>16. ASSUME NEW r \in Requests, SaveLearning(r) PROVE TypeOK'
  <2>1. call' \in [Requests -> CallType]
    BY <1>16, GotoFacts DEF SaveLearning, HandlerPoints
  <2>2. call[r].values[1] \in BOOLEAN BY <1>16 DEF SaveLearning, At, Progress
  <2>3. learning' \in [Users -> BOOLEAN] BY <1>16, <2>2 DEF SaveLearning, TypeOK
  <2>4. consent' \subseteq Actors BY <1>10, <1>16, <2>2 DEF SaveLearning, TypeOK
  <2> QED BY <1>16, <2>1, <2>3, <2>4 DEF SaveLearning, TypeOK, CallType
<1>17. ASSUME NEW r \in Requests, SavePrompt(r) PROVE TypeOK'
  <2>1. call' \in [Requests -> CallType]
    BY <1>17, GotoFacts DEF SavePrompt, HandlerPoints
  <2>2. call[r].values[2] \in BOOLEAN BY <1>17 DEF SavePrompt, At, Progress
  <2>3. prompt' \in [Users -> BOOLEAN] BY <1>17, <2>2 DEF SavePrompt, TypeOK
  <2>4. consent' \subseteq Actors BY <1>10, <1>17, <2>2 DEF SavePrompt, TypeOK
  <2> QED BY <1>17, <2>1, <2>3, <2>4 DEF SavePrompt, TypeOK, CallType
<1> QED BY <1>1, <1>2, <1>3, <1>4, <1>5, <1>6, <1>7, <1>8, <1>9, <1>11, <1>12, <1>13, <1>14,
           <1>15, <1>16, <1>17, Groups

\* The call of a handler step, whichever it is.
LEMMA HandlerGoes ==
  ASSUME TypeOK, Progress, NEW r \in Requests,
         \/ Moves(r) \/ Tells(r) \/ SaveTurnResult(r) \/ SaveEvents(r)
         \/ DeleteRows(r) \/ ResetAll(r) \/ SaveReflection(r) \/ SaveFeedback(r)
         \/ SaveLearning(r) \/ SavePrompt(r)
  PROVE  /\ call[r].user \in Users /\ call[r].at \notin {"idle", "done"}
         /\ \A q \in Requests : call'[q].kind = call[q].kind /\ call'[q].user = call[q].user
         /\ \A q \in Requests \ {r} : call'[q] = call[q]
         /\ call'[r].at # "idle"
         /\ call'[r].at = "half" => call'[r] = [call[r] EXCEPT !.at = "half"] /\ call[r].at = "called"
         /\ call'[r].at # "called"
         /\ call'[r].at = "owned" => /\ Moves(r) /\ call'[r].journey = call[r].journey
         /\ call'[r].at = "allowed" => Moves(r)
         /\ UNCHANGED <<owner, scriptVars>>
<1>1. call[r].at \notin {"idle", "done"}
  <2>1. CASE Moves(r) BY <2>1, MoveFacts
  <2>2. CASE Tells(r) BY <2>2, TellFacts
  <2> QED BY <2>1, <2>2 DEF SaveTurnResult, SaveEvents, DeleteRows, ResetAll, SaveReflection,
             SaveFeedback, SaveLearning, SavePrompt, At
<1>2. UNCHANGED <<owner, scriptVars>>
  <2>1. CASE Moves(r) BY <2>1, MoveFacts DEF dbVars
  <2>2. CASE Tells(r) BY <2>2, TellFacts DEF dbVars
  <2> QED BY <2>1, <2>2 DEF SaveTurnResult, SaveEvents, DeleteRows, ResetAll, SaveReflection,
             SaveFeedback, SaveLearning, SavePrompt, dbVars
<1>3. call[r].user \in Users BY <1>1 DEF Progress, Idle
<1>4. \E at \in HandlerPoints \ {"idle", "called"} :
        /\ Goto(r, at)
        /\ at \in {"owned", "allowed"} => Moves(r)
        /\ at = "half" => call[r].at = "called"
  <2>1. {"half", "done", "saved"} \subseteq HandlerPoints BY DEF HandlerPoints
  <2>2. CASE Moves(r)
    <3>1. PICK at \in HandlerPoints \ {"idle", "half", "called"} : Goto(r, at) BY <2>2, MoveFacts
    <3> QED BY <2>2, <3>1
  <2>3. CASE Tells(r)
    <3>1. PICK at \in HandlerPoints \ {"idle", "owned", "half", "called", "allowed"} : Goto(r, at)
      BY <2>3, TellFacts
    <3> QED BY <3>1
  <2>4. CASE SaveLearning(r) BY <2>1, <2>4 DEF SaveLearning, At
  <2>5. CASE SaveTurnResult(r) BY <2>1, <2>5 DEF SaveTurnResult
  <2>6. CASE \/ SaveEvents(r) \/ DeleteRows(r) \/ ResetAll(r) \/ SaveReflection(r)
             \/ SaveFeedback(r) \/ SavePrompt(r)
    <3>1. Goto(r, "done")
      BY <2>6 DEF SaveEvents, DeleteRows, ResetAll, SaveReflection, SaveFeedback, SavePrompt
    <3> QED BY <2>1, <3>1
  <2> QED BY <2>2, <2>3, <2>4, <2>5, <2>6
<1>5. PICK at \in HandlerPoints \ {"idle", "called"} :
        /\ Goto(r, at)
        /\ at \in {"owned", "allowed"} => Moves(r)
        /\ at = "half" => call[r].at = "called"
  BY <1>4
<1>6. /\ call'[r].at = at /\ call'[r].kind = call[r].kind /\ call'[r].user = call[r].user
      /\ at # "done" => call'[r] = [call[r] EXCEPT !.at = at]
      /\ \A q \in Requests \ {r} : call'[q] = call[q]
  <2>1. at \in HandlerPoints /\ Goto(r, at) BY <1>5
  <2> QED BY <2>1, GotoFacts
<1>7. at = "owned" => call'[r].journey = call[r].journey
  BY <1>6 DEF TypeOK
<1>8. \A q \in Requests : call'[q].kind = call[q].kind /\ call'[q].user = call[q].user
  BY <1>6
<1>9. call'[r].at \in {"owned", "allowed"} => Moves(r) BY <1>5, <1>6
<1>10. call'[r].at = "half" => call'[r] = [call[r] EXCEPT !.at = "half"] /\ call[r].at = "called"
  BY <1>5, <1>6
<1>11. call'[r].at \notin {"idle", "called"} BY <1>5, <1>6
<1> QED BY <1>1, <1>2, <1>3, <1>6, <1>7, <1>8, <1>9, <1>10, <1>11

\* An account's Journeys and requests stay its own.
LEMMA MineGrows ==
  ASSUME TypeOK, Progress, [Next]_vars
  PROVE  /\ \A u \in Users : Mine(u) \subseteq Mine(u)'
         /\ \A s \in Sessions : owner[s] \in Users => owner'[s] = owner[s]
         /\ \A r \in Requests : call[r].user \in Users => call'[r].user = call[r].user
<1> DEFINE Kept == /\ \A s \in Sessions : owner[s] \in Users => owner'[s] = owner[s]
                   /\ \A r \in Requests : call[r].user \in Users => call'[r].user = call[r].user
<1>2. ASSUME UNCHANGED vars PROVE Kept
  <2>1. owner' = owner /\ call' = call BY <1>2 DEF vars, dbVars, callVars
  <2> QED BY <2>1
<1>3. ASSUME NEW t \in Scripts, StartScript(t) PROVE Kept
  BY <1>3 DEF StartScript, dbVars, callVars
<1>4. ASSUME NEW u \in Users, Visit(u) PROVE Kept BY <1>4 DEF Visit, dbVars, callVars
<1>5. ASSUME Reads PROVE Kept
  <2>1. owner' = owner /\ call' = call BY <1>5, ReadFacts DEF dbVars, callVars
  <2> QED BY <2>1
<1>6. ASSUME Writes PROVE Kept
  <2>1. PICK t \in AllScripts, sources \in SUBSET Sources : Replace(t, sources) BY <1>6, WriteFacts
  <2>2. owner' = owner /\ call' = call BY <2>1 DEF Replace, callVars
  <2> QED BY <2>2
<1>7. ASSUME AbortScript PROVE Kept
  <2>1. owner' = owner /\ call' = call BY <1>7 DEF AbortScript, dbVars, callVars
  <2> QED BY <2>1
<1>8. ASSUME NEW r \in Requests, NEW u \in Users, NEW kind \in AllKinds,
             NEW s \in Sessions \cup {"none"}, NEW values \in Bodies, Begin(r, u, kind, s, values)
      PROVE  Kept
  <2>1. call[r].user \notin Users BY <1>8, NameAssumption DEF Begin, Idle
  <2>2. \A q \in Requests \ {r} : call'[q] = call[q] BY <1>8 DEF Begin, TypeOK
  <2> QED BY <1>8, <2>1, <2>2 DEF Begin, dbVars
<1>9. ASSUME NEW s \in Sessions, NEW u \in Users, CreateSession(s, u) PROVE Kept
  BY <1>9, NameAssumption DEF CreateSession, callVars, TypeOK
<1>10. ASSUME NEW r \in Requests,
              \/ Moves(r) \/ Tells(r) \/ SaveTurnResult(r) \/ SaveEvents(r)
              \/ DeleteRows(r) \/ ResetAll(r) \/ SaveReflection(r) \/ SaveFeedback(r)
              \/ SaveLearning(r) \/ SavePrompt(r)
       PROVE  Kept
  BY <1>10, HandlerGoes
<1>11. Kept
  BY <1>2, <1>3, <1>4, <1>5, <1>6, <1>7, <1>8, <1>9, <1>10, Groups
<1> QED BY <1>11 DEF Mine

LEMMA ProgressInit ==
  ASSUME Init PROVE Progress
BY DEF Init, Progress, Visiting, Idle

LEMMA ProgressStep ==
  ASSUME TypeOK, Progress, [Next]_vars PROVE Progress'
<1> DEFINE Calls == \A r \in Requests : \/ call[r] = Idle /\ seen[r] = {}
                                        \/ call[r].user \in Users /\ call[r].at # "idle"
           Owns == \A r \in Requests : call[r].at = "owned" =>
                     call[r].journey \in Sessions /\ owner[call[r].journey] = call[r].user
           Bodied == \A r \in Requests : call[r].kind = "settings" /\ call[r].at \in {"called", "half"} =>
                       call[r].values \in BOOLEAN \X BOOLEAN
           Visits == /\ Visiting => acct \in Users
                     /\ ~Visiting => got = NothingRead /\ ~overtaken
                     /\ script = "none" => step = "stopped"
           Lives == \A s \in live : owner[s] \in Users
<1>1. /\ \A s \in Sessions : owner[s] \in Users => owner'[s] = owner[s]
      /\ \A r \in Requests : call[r].user \in Users => call'[r].user = call[r].user
  BY MineGrows
<1>2. Calls /\ Owns /\ Bodied /\ Visits /\ Lives BY DEF Progress
<1>3. ASSUME UNCHANGED callVars PROVE Calls' /\ Owns' /\ Bodied'
  <2>1. call' = call /\ seen' = seen BY <1>3 DEF callVars
  <2>2. Calls' /\ Bodied' BY <1>2, <2>1
  <2>3. Owns'
    <3>1. SUFFICES ASSUME NEW r \in Requests, call[r].at = "owned"
                   PROVE  call[r].journey \in Sessions /\ owner'[call[r].journey] = call[r].user
      BY <2>1
    <3>2. call[r].user \in Users BY <1>2, <3>1 DEF Idle
    <3> QED BY <1>1, <1>2, <3>1, <3>2
  <2> QED BY <2>2, <2>3
<1>4. ASSUME UNCHANGED <<script, step, acct, got, overtaken>> PROVE Visits'
  BY <1>2, <1>4 DEF Visiting
<1>5. ASSUME live' \subseteq live PROVE Lives'
  BY <1>1, <1>2, <1>5 DEF TypeOK
<1>6. ASSUME UNCHANGED vars PROVE Progress'
  BY <1>3, <1>4, <1>5, <1>6 DEF vars, dbVars, callVars, scriptVars, history, Progress
<1>7. ASSUME NEW t \in Scripts, StartScript(t) PROVE Progress'
  <2>1. Visits' BY <1>2, <1>7, KindAssumption DEF StartScript, Visiting, history, AllScripts
  <2> QED BY <1>3, <1>5, <1>7, <2>1 DEF StartScript, dbVars, Progress
<1>8. ASSUME NEW u \in Users, Visit(u) PROVE Progress'
  <2>1. Visits' BY <1>2, <1>8 DEF Visit, Visiting
  <2> QED BY <1>3, <1>5, <1>8, <2>1 DEF Visit, dbVars, Progress
<1>9. ASSUME Reads PROVE Progress'
  <2>1. Visits' BY <1>2, <1>9, ReadFacts DEF Visiting
  <2>2. live' = live /\ UNCHANGED callVars BY <1>9, ReadFacts DEF dbVars
  <2> QED BY <1>3, <1>5, <2>1, <2>2 DEF Progress
<1>10. ASSUME Writes PROVE Progress'
  <2>1. PICK t \in AllScripts, sources \in SUBSET Sources : Replace(t, sources) BY <1>10, WriteFacts
  <2>2. Visits' BY <2>1 DEF Replace, Visiting, AllScripts
  <2>3. live' = live /\ UNCHANGED callVars BY <2>1 DEF Replace
  <2> QED BY <1>3, <1>5, <2>2, <2>3 DEF Progress
<1>11. ASSUME AbortScript PROVE Progress'
  <2>1. Visits' BY <1>11 DEF AbortScript, Visiting
  <2>2. live' = live /\ UNCHANGED callVars BY <1>11 DEF AbortScript, dbVars
  <2> QED BY <1>3, <1>5, <2>1, <2>2 DEF Progress
<1>12. ASSUME NEW r \in Requests, NEW u \in Users, NEW kind \in AllKinds,
              NEW s \in Sessions \cup {"none"}, NEW values \in Bodies,
              kind = "settings" => values \in BOOLEAN \X BOOLEAN, Begin(r, u, kind, s, values)
       PROVE  Progress'
  <2>1. call' = [call EXCEPT ![r] = [kind |-> kind, user |-> u, journey |-> s,
                                     at |-> "called", values |-> values]]
    BY <1>12 DEF Begin
  <2>2. /\ call'[r].at = "called" /\ call'[r].user \in Users /\ call'[r].kind = kind
        /\ call'[r].values = values /\ \A q \in Requests \ {r} : call'[q] = call[q]
    BY <2>1 DEF TypeOK
  <2>3. seen' = seen /\ owner' = owner /\ live' = live /\ UNCHANGED <<script, step, acct, got, overtaken>>
    BY <1>12 DEF Begin, dbVars, scriptVars
  <2>4. Calls' BY <1>2, <2>2, <2>3
  <2>5. Owns' BY <1>2, <2>2, <2>3
  <2>6. Bodied' BY <1>2, <1>12, <2>2
  <2> QED BY <1>4, <1>5, <2>3, <2>4, <2>5, <2>6 DEF Progress
<1>13. ASSUME NEW s \in Sessions, NEW u \in Users, CreateSession(s, u) PROVE Progress'
  <2>1. Lives' BY <1>2, <1>13 DEF CreateSession, TypeOK
  <2> QED BY <1>3, <1>4, <1>13, <2>1 DEF CreateSession, scriptVars, history, Progress
<1>14. ASSUME NEW r \in Requests,
              \/ Moves(r) \/ Tells(r) \/ SaveTurnResult(r) \/ SaveEvents(r)
              \/ DeleteRows(r) \/ ResetAll(r) \/ SaveReflection(r) \/ SaveFeedback(r)
              \/ SaveLearning(r) \/ SavePrompt(r)
       PROVE  Progress'
  <2>1. /\ call[r].user \in Users /\ call[r].at \notin {"idle", "done"}
        /\ \A q \in Requests : call'[q].kind = call[q].kind /\ call'[q].user = call[q].user
        /\ \A q \in Requests \ {r} : call'[q] = call[q]
        /\ call'[r].at \notin {"idle", "called"}
        /\ call'[r].at = "half" => call'[r] = [call[r] EXCEPT !.at = "half"] /\ call[r].at = "called"
        /\ call'[r].at = "owned" => Moves(r) /\ call'[r].journey = call[r].journey
        /\ UNCHANGED <<owner, scriptVars>>
    BY <1>14, HandlerGoes
  <2>2. \A q \in Requests \ {r} : seen'[q] = seen[q]
    <3>1. CASE Moves(r) BY <3>1, MoveFacts
    <3>2. CASE Tells(r)
      <4>1. PICK sources \in SUBSET Sources : seen' = [seen EXCEPT ![r] = seen[r] \cup sources]
        BY <3>2, TellFacts
      <4> QED BY <4>1 DEF TypeOK
    <3> QED BY <1>14, <3>1, <3>2 DEF SaveTurnResult, SaveEvents, DeleteRows, ResetAll,
               SaveReflection, SaveFeedback, SaveLearning, SavePrompt
  <2>3. Calls' BY <1>2, <2>1, <2>2
  <2>4. Owns'
    <3>1. CASE Moves(r)
      <4>1. call'[r].at = "owned" => call[r].journey \in Owned(call[r].user) BY <3>1, MoveFacts
      <4>2. call'[r].at = "owned" => call[r].journey \in Sessions /\ owner[call[r].journey] = call[r].user
        BY <4>1 DEF Owned, TypeOK
      <4> QED BY <1>2, <2>1, <4>2
    <3>2. CASE ~Moves(r) BY <1>2, <2>1, <3>2
    <3> QED BY <3>1, <3>2
  <2>5. Bodied'
    <3>1. call'[r].at = "half" => call'[r].values = call[r].values BY <2>1 DEF TypeOK
    <3> QED BY <1>2, <2>1, <3>1
  <2>6. Lives'
    <3>1. live' \subseteq live
      <4>1. CASE Moves(r) BY <4>1, MoveFacts DEF dbVars
      <4>2. CASE Tells(r) BY <4>2, TellFacts DEF dbVars
      <4> QED BY <1>14, <4>1, <4>2 DEF SaveTurnResult, SaveEvents, DeleteRows, ResetAll,
                 SaveReflection, SaveFeedback, SaveLearning, SavePrompt, dbVars
    <3> QED BY <1>5, <3>1
  <2>7. Visits'
    <3>1. ~Visiting => (overtaken' <=> overtaken)
      <4>1. CASE Moves(r) BY <4>1, MoveFacts DEF history
      <4>2. CASE Tells(r) BY <4>2, TellFacts DEF history
      <4> QED BY <1>14, <4>1, <4>2 DEF SaveTurnResult, SaveEvents, DeleteRows, ResetAll,
                 SaveReflection, SaveFeedback, SaveLearning, SavePrompt, history
    <3> QED BY <1>2, <2>1, <3>1 DEF scriptVars, Visiting
  <2> QED BY <2>3, <2>4, <2>5, <2>6, <2>7 DEF Progress
<1> QED BY <1>6, <1>7, <1>8, <1>9, <1>10, <1>11, <1>12, <1>13, <1>14, Groups

-----------------------------------------------------------------------------
(* Each account's own *)

LEMMA OwnInit ==
  ASSUME Init PROVE OwnInv
BY DEF Init, OwnInv, Visiting, Idle

\* What hangs on the account: its Journeys, its answers, its derived rows.
LEMMA OwnSources ==
  ASSUME TypeOK, OwnInv, NEW u \in Users
  PROVE  Owned(u) \cup reflections[u] \cup feedback[u] \subseteq Mine(u)
BY DEF OwnInv, Owned, Mine, TypeOK

LEMMA OwnStep ==
  ASSUME TypeOK, Progress, OwnInv, [Next]_vars PROVE OwnInv'
<1> DEFINE Derives == \A u \in Users, t \in AllScripts : derived[u][t] \subseteq Mine(u)
           Told == \A r \in Requests : seen[r] \subseteq Mine(call[r].user)
           Read == Visiting => got.from \subseteq Mine(acct) /\ got.texts \subseteq Mine(acct)
           Answers == \A u \in Users : reflections[u] \subseteq Mine(u) /\ feedback[u] \subseteq Mine(u)
<1>1. /\ \A u \in Users : Mine(u) \subseteq Mine(u)'
      /\ \A r \in Requests : call[r].user \in Users => call'[r].user = call[r].user
  BY MineGrows
<1>2. Derives /\ Told /\ Read /\ Answers BY DEF OwnInv
<1>3. ASSUME derived' = derived PROVE Derives' BY <1>1, <1>2, <1>3
<1>4. ASSUME reflections' = reflections, feedback' = feedback PROVE Answers' BY <1>1, <1>2, <1>4
<1>5. ASSUME UNCHANGED <<step, acct, got>> PROVE Read'
  <2>1. Visiting' => acct \in Users /\ got.from \subseteq Mine(acct) /\ got.texts \subseteq Mine(acct)
    BY <1>2, <1>5 DEF Progress, Visiting
  <2> QED BY <1>1, <1>5, <2>1
<1>6. \A r \in Requests : seen[r] # {} => call[r].user \in Users BY DEF Progress
<1>7. ASSUME seen' = seen PROVE Told'
  BY <1>1, <1>2, <1>6, <1>7
<1>8. ASSUME UNCHANGED vars PROVE OwnInv'
  BY <1>3, <1>4, <1>5, <1>7, <1>8 DEF vars, dbVars, callVars, scriptVars, OwnInv
<1>9. ASSUME NEW t \in Scripts, StartScript(t) PROVE OwnInv'
  <2>1. Read' BY <1>9, <1>5 DEF StartScript, Visiting
  <2> QED BY <1>3, <1>4, <1>7, <1>9, <2>1 DEF StartScript, dbVars, callVars, OwnInv
<1>10. ASSUME NEW u \in Users, Visit(u) PROVE OwnInv'
  <2>1. got = NothingRead BY <1>10 DEF Visit, Visiting, Progress
  <2>2. Read' BY <1>10, <2>1 DEF Visit, NothingRead
  <2> QED BY <1>3, <1>4, <1>7, <1>10, <2>2 DEF Visit, dbVars, callVars, OwnInv
<1>11. ASSUME Reads PROVE OwnInv'
  <2>1. acct' = acct /\ acct \in Users /\ Visiting BY <1>11, ReadFacts DEF Progress
  <2>2. Read' BY <1>1, <1>2, <1>11, <2>1, ReadFacts, OwnSources
  <2>3. UNCHANGED <<dbVars, callVars>> BY <1>11, ReadFacts
  <2> QED BY <1>3, <1>4, <1>7, <2>2, <2>3 DEF dbVars, callVars, OwnInv
<1>12. ASSUME Writes PROVE OwnInv'
  <2>1. PICK t \in AllScripts, sources \in SUBSET Sources :
          Replace(t, sources) /\ sources \subseteq got.from \cup got.texts
    BY <1>12, WriteFacts
  <2>2. sources \subseteq Mine(acct) /\ acct \in Users BY <1>2, <1>12, <2>1, WriteFacts
  <2>3. \A u \in Users, v \in AllScripts :
          derived'[u][v] = IF u = acct /\ v = t THEN sources ELSE derived[u][v]
    BY <2>1, <2>2 DEF Replace, TypeOK
  <2>4. Derives' BY <1>1, <1>2, <2>2, <2>3
  <2>5. Read' BY <2>1 DEF Replace, Visiting
  <2>6. reflections' = reflections /\ feedback' = feedback /\ seen' = seen
    BY <2>1 DEF Replace, callVars
  <2> QED BY <1>4, <1>7, <2>4, <2>5, <2>6 DEF OwnInv
<1>13. ASSUME AbortScript PROVE OwnInv'
  <2>1. Read' BY <1>13 DEF AbortScript, Visiting
  <2> QED BY <1>3, <1>4, <1>7, <1>13, <2>1 DEF AbortScript, dbVars, callVars, OwnInv
<1>14. ASSUME NEW r \in Requests, NEW u \in Users, NEW kind \in AllKinds,
              NEW s \in Sessions \cup {"none"}, NEW values \in Bodies, Begin(r, u, kind, s, values)
       PROVE  OwnInv'
  BY <1>3, <1>4, <1>5, <1>7, <1>14 DEF Begin, dbVars, scriptVars, OwnInv
<1>15. ASSUME NEW s \in Sessions, NEW u \in Users, CreateSession(s, u) PROVE OwnInv'
  BY <1>3, <1>4, <1>5, <1>7, <1>15 DEF CreateSession, scriptVars, callVars, OwnInv
<1>16. ASSUME NEW r \in Requests PROVE Moves(r) => OwnInv'
  <2>1. Moves(r) => UNCHANGED <<dbVars, scriptVars, seen>> BY MoveFacts
  <2> QED BY <1>3, <1>4, <1>5, <1>7, <2>1 DEF dbVars, scriptVars, OwnInv
<1>17. ASSUME NEW r \in Requests, Tells(r) PROVE OwnInv'
  <2>1. call[r].user \in Users /\ UNCHANGED <<dbVars, scriptVars>> BY <1>17, TellFacts
  <2>2. PICK sources \in SUBSET Sources :
          /\ seen' = [seen EXCEPT ![r] = seen[r] \cup sources]
          /\ sources \subseteq (UNION {derived[call[r].user][t] : t \in AllScripts}) \cup seen[r]
                            \cup Owned(call[r].user) \cup reflections[call[r].user]
                            \cup feedback[call[r].user]
    BY <1>17, TellFacts
  <2>3. UNION {derived[call[r].user][t] : t \in AllScripts} \subseteq Mine(call[r].user)
    BY <1>2, <2>1
  <2>4. sources \subseteq Mine(call[r].user) BY <1>2, <2>1, <2>2, <2>3, OwnSources
  <2>5. \A q \in Requests : seen'[q] = IF q = r THEN seen[r] \cup sources ELSE seen[q]
    BY <2>2 DEF TypeOK
  <2>6. Told' BY <1>1, <1>2, <1>6, <2>1, <2>4, <2>5
  <2> QED BY <1>3, <1>4, <1>5, <2>1, <2>6 DEF dbVars, scriptVars, OwnInv
<1>18. ASSUME NEW r \in Requests,
              \/ SaveTurnResult(r) \/ SaveEvents(r) \/ DeleteRows(r)
              \/ SaveLearning(r) \/ SavePrompt(r)
       PROVE  OwnInv'
  <2>1. UNCHANGED <<derived, reflections, feedback, step, acct, got, seen>>
    BY <1>18 DEF SaveTurnResult, SaveEvents, DeleteRows, SaveLearning, SavePrompt, dbVars, scriptVars
  <2> QED BY <1>3, <1>4, <1>5, <1>7, <2>1 DEF OwnInv
<1>19. ASSUME NEW r \in Requests, ResetAll(r) PROVE OwnInv'
  <2>1. \A u \in Users, t \in AllScripts : derived'[u][t] \subseteq derived[u][t]
    BY <1>19 DEF ResetAll, TypeOK
  <2>2. \A u \in Users : reflections'[u] \subseteq reflections[u] /\ feedback'[u] \subseteq feedback[u]
    BY <1>19 DEF ResetAll, TypeOK
  <2>3. Derives' BY <1>1, <1>2, <2>1
  <2>4. Answers' BY <1>1, <1>2, <2>2
  <2> QED BY <1>5, <1>7, <1>19, <2>3, <2>4 DEF ResetAll, scriptVars, OwnInv
<1>20. ASSUME NEW r \in Requests, SaveReflection(r) \/ SaveFeedback(r) PROVE OwnInv'
  <2>1. call[r].user \in Users BY <1>20, HandlerGoes
  <2>2. \A u \in Users : /\ reflections'[u] \subseteq reflections[u] \cup (IF u = call[r].user THEN {r} ELSE {})
                         /\ feedback'[u] \subseteq feedback[u] \cup (IF u = call[r].user THEN {r} ELSE {})
    BY <1>20 DEF SaveReflection, SaveFeedback, TypeOK
  <2>3. r \in Mine(call[r].user)' BY <1>1, <2>1 DEF Mine
  <2>4. Answers' BY <1>1, <1>2, <2>2, <2>3
  <2> QED BY <1>3, <1>5, <1>7, <1>20, <2>4 DEF SaveReflection, SaveFeedback, scriptVars, OwnInv
<1> QED BY <1>8, <1>9, <1>10, <1>11, <1>12, <1>13, <1>14, <1>15, <1>16, <1>17, <1>18, <1>19,
           <1>20, Groups

-----------------------------------------------------------------------------
(* Consent *)

LEMMA ConsentInit ==
  ASSUME Init PROVE ConsentInv
BY NameAssumption DEF Init, ConsentInv, Visiting, Idle, AllScripts

LEMMA ConsentStep ==
  ASSUME TypeOK, Progress, ConsentInv, [Next]_vars PROVE ConsentInv'
<1> DEFINE Script == Visiting => <<"script", "learning">> \in consent
           Held == \A r \in Requests : call[r].user \in Users /\ call[r].at # "done" =>
                     /\ learning[call[r].user] => <<r, "learning">> \in consent
                     /\ prompt[call[r].user] => <<r, "prompt">> \in consent
           Heard == \A r \in Requests :
                      call[r].kind = "turn" /\ (call[r].at \in AllScripts \/ seen[r] # {}) =>
                        <<r, "learning">> \in consent
           Allowed == \A r \in Requests : call[r].at = "allowed" => <<r, "prompt">> \in consent
           Consented == \A r \in Requests, u \in Users : r \in reflections[u] => <<r, "prompt">> \in consent
<1>1. Script /\ Held /\ Heard /\ Allowed /\ Consented BY DEF ConsentInv
<1>2. ASSUME UNCHANGED <<step, acct>>, consent \subseteq consent' PROVE Script'
  BY <1>1, <1>2 DEF Visiting
<1>3. ASSUME UNCHANGED <<call, seen, reflections, settingVars>>,
             \A r \in Requests, p \in {"learning", "prompt"} : <<r, p>> \in consent => <<r, p>> \in consent'
      PROVE  Held' /\ Heard' /\ Allowed' /\ Consented'
  BY <1>1, <1>3 DEF settingVars
<1>4. ASSUME UNCHANGED vars PROVE ConsentInv'
  BY <1>2, <1>3, <1>4 DEF vars, dbVars, callVars, scriptVars, history, ConsentInv
<1>5. ASSUME NEW t \in Scripts, StartScript(t) PROVE ConsentInv'
  <2>1. Script' BY <1>2, <1>5 DEF StartScript, Visiting, history
  <2> QED BY <1>3, <1>5, <2>1 DEF StartScript, dbVars, callVars, history, ConsentInv
<1>6. ASSUME NEW u \in Users, Visit(u) PROVE ConsentInv'
  <2>1. Script' BY <1>6 DEF Visit, Visiting
  <2>2. \A r \in Requests, p \in {"learning", "prompt"} : <<r, p>> \in consent => <<r, p>> \in consent'
    BY <1>6, NameAssumption DEF Visit
  <2> QED BY <1>3, <1>6, <2>1, <2>2 DEF Visit, dbVars, callVars, ConsentInv
<1>7. ASSUME Reads PROVE ConsentInv'
  <2>1. Script' BY <1>1, <1>7, ReadFacts DEF history
  <2> QED BY <1>3, <1>7, <2>1, ReadFacts DEF dbVars, callVars, history, ConsentInv
<1>8. ASSUME Writes PROVE ConsentInv'
  <2>1. PICK t \in AllScripts, sources \in SUBSET Sources : Replace(t, sources) BY <1>8, WriteFacts
  <2>2. Script' BY <2>1 DEF Replace, Visiting
  <2> QED BY <1>3, <2>1, <2>2 DEF Replace, callVars, ConsentInv
<1>9. ASSUME AbortScript PROVE ConsentInv'
  <2>1. Script' BY <1>9 DEF AbortScript, Visiting
  <2> QED BY <1>3, <1>9, <2>1 DEF AbortScript, dbVars, callVars, ConsentInv
<1>10. ASSUME NEW r \in Requests, NEW u \in Users, NEW kind \in AllKinds,
              NEW s \in Sessions \cup {"none"}, NEW values \in Bodies, Begin(r, u, kind, s, values)
       PROVE  ConsentInv'
  <2>1. /\ call'[r].at = "called" /\ call'[r].user = u
        /\ \A q \in Requests \ {r} : call'[q] = call[q]
    BY <1>10 DEF Begin, TypeOK
  <2>2. seen[r] = {}
    BY <1>10, NameAssumption DEF Begin, Progress, Idle
  <2>3. /\ consent \subseteq consent'
        /\ learning[u] => <<r, "learning">> \in consent'
        /\ prompt[u] => <<r, "prompt">> \in consent'
    BY <1>10 DEF Begin
  <2>4. UNCHANGED <<seen, reflections, learning, prompt, step, acct>>
    BY <1>10 DEF Begin, dbVars, settingVars, scriptVars
  <2>5. Held' BY <1>1, <2>1, <2>3, <2>4
  <2>6. "called" \notin AllScripts BY DEF AllScripts
  <2>7. Heard' BY <1>1, <2>1, <2>2, <2>3, <2>4, <2>6
  <2>8. Allowed' /\ Consented' BY <1>1, <2>1, <2>3, <2>4
  <2> QED BY <1>2, <2>3, <2>4, <2>5, <2>7, <2>8 DEF ConsentInv
<1>11. ASSUME NEW s \in Sessions, NEW u \in Users, CreateSession(s, u) PROVE ConsentInv'
  BY <1>2, <1>3, <1>11 DEF CreateSession, scriptVars, callVars, history, ConsentInv
<1>12. ASSUME NEW r \in Requests,
              \/ Moves(r) \/ Tells(r) \/ SaveTurnResult(r) \/ SaveEvents(r)
              \/ DeleteRows(r) \/ ResetAll(r) \/ SaveReflection(r) \/ SaveFeedback(r)
              \/ SaveLearning(r) \/ SavePrompt(r)
       PROVE  ConsentInv'
  <2>1. /\ call[r].user \in Users /\ call[r].at \notin {"idle", "done"}
        /\ \A q \in Requests : call'[q].kind = call[q].kind /\ call'[q].user = call[q].user
        /\ \A q \in Requests \ {r} : call'[q] = call[q]
        /\ call'[r].at = "allowed" => Moves(r)
        /\ UNCHANGED <<step, acct>>
    BY <1>12, HandlerGoes DEF scriptVars
  <2>2. consent \subseteq consent'
    <3>1. CASE Moves(r) BY <3>1, MoveFacts DEF history
    <3>2. CASE Tells(r) BY <3>2, TellFacts DEF history
    <3> QED BY <1>12, <3>1, <3>2 DEF SaveTurnResult, SaveEvents, DeleteRows, ResetAll, SaveReflection,
               SaveFeedback, SaveLearning, SavePrompt, history, Consenting
  <2>3. Script' BY <1>2, <2>1, <2>2
  <2>4. Held'
    <3>1. SUFFICES ASSUME NEW q \in Requests, call[q].user \in Users, call[q].at # "done"
                   PROVE  /\ learning'[call[q].user] => <<q, "learning">> \in consent'
                          /\ prompt'[call[q].user] => <<q, "prompt">> \in consent'
      BY <2>1
    <3>2. CASE SaveLearning(r)
      <4>1. \A u \in Users : learning'[u] => learning[u] \/ (u = call[r].user /\ call[r].values[1])
        BY <3>2 DEF SaveLearning, TypeOK
      <4>2. call[r].values[1] /\ call[q].user = call[r].user => <<q, "learning">> \in consent'
        BY <3>1, <3>2 DEF SaveLearning, Consenting
      <4>3. prompt' = prompt BY <3>2 DEF SaveLearning
      <4> QED BY <1>1, <2>2, <3>1, <4>1, <4>2, <4>3
    <3>3. CASE SavePrompt(r)
      <4>1. \A u \in Users : prompt'[u] => prompt[u] \/ (u = call[r].user /\ call[r].values[2])
        BY <3>3 DEF SavePrompt, TypeOK
      <4>2. call[r].values[2] /\ call[q].user = call[r].user => <<q, "prompt">> \in consent'
        BY <3>1, <3>3 DEF SavePrompt, Consenting
      <4>3. learning' = learning BY <3>3 DEF SavePrompt
      <4> QED BY <1>1, <2>2, <3>1, <4>1, <4>2, <4>3
    <3>4. CASE ~SaveLearning(r) /\ ~SavePrompt(r)
      <4>1. UNCHANGED <<learning, prompt>>
        <5>1. CASE Moves(r) BY <5>1, MoveFacts DEF settingVars
        <5>2. CASE Tells(r) BY <5>2, TellFacts DEF settingVars
        <5> QED BY <1>12, <3>4, <5>1, <5>2 DEF SaveTurnResult, SaveEvents, DeleteRows, ResetAll,
                   SaveReflection, SaveFeedback, settingVars
      <4> QED BY <1>1, <2>2, <3>1, <4>1
    <3> QED BY <3>2, <3>3, <3>4
  <2>5. Heard'
    <3>1. CASE Moves(r)
      <4>1. seen' = seen /\ (call'[r].at \in AllScripts => learning[call[r].user]) BY <3>1, MoveFacts
      <4> QED BY <1>1, <2>1, <2>2, <4>1
    <3>2. CASE Tells(r)
      <4>1. call[r].kind = "turn" => call[r].at \in AllScripts BY <3>2, TellFacts
      <4>2. PICK sources \in SUBSET Sources : seen' = [seen EXCEPT ![r] = seen[r] \cup sources]
        BY <3>2, TellFacts
      <4>3. \A q \in Requests \ {r} : seen'[q] = seen[q] BY <4>2 DEF TypeOK
      <4> QED BY <1>1, <2>1, <2>2, <4>1, <4>3
    <3>3. CASE ~Moves(r) /\ ~Tells(r)
      <4>1. seen' = seen /\ call'[r].at \notin AllScripts
        <5>1. \E at \in {"saved", "done", "half"} : Goto(r, at)
          BY <1>12, <3>3 DEF SaveTurnResult, SaveEvents, DeleteRows, ResetAll, SaveReflection,
             SaveFeedback, SaveLearning, SavePrompt
        <5>2. {"saved", "done", "half"} \subseteq HandlerPoints \ AllScripts BY DEF HandlerPoints, AllScripts
        <5>3. call'[r].at \in {"saved", "done", "half"} BY <5>1, <5>2, GotoFacts
        <5>4. seen' = seen
          BY <1>12, <3>3 DEF SaveTurnResult, SaveEvents, DeleteRows, ResetAll, SaveReflection,
             SaveFeedback, SaveLearning, SavePrompt
        <5> QED BY <5>2, <5>3, <5>4
      <4> QED BY <1>1, <2>1, <2>2, <4>1
    <3> QED BY <3>1, <3>2, <3>3
  <2>6. Allowed'
    <3>1. call'[r].at = "allowed" => prompt[call[r].user] BY <2>1, MoveFacts
    <3> QED BY <1>1, <2>1, <2>2, <3>1
  <2>7. Consented'
    <3>1. CASE SaveReflection(r)
      <4>1. call[r].at = "allowed" BY <3>1 DEF SaveReflection, At
      <4>2. \A u \in Users : reflections'[u] \subseteq reflections[u] \cup {r}
        BY <3>1 DEF SaveReflection, TypeOK
      <4> QED BY <1>1, <2>2, <4>1, <4>2
    <3>2. CASE ~SaveReflection(r)
      <4>1. \A u \in Users : reflections'[u] \subseteq reflections[u]
        <5>1. CASE Moves(r) BY <5>1, MoveFacts DEF dbVars
        <5>2. CASE Tells(r) BY <5>2, TellFacts DEF dbVars
        <5>3. CASE ResetAll(r) BY <5>3 DEF ResetAll, TypeOK
        <5> QED BY <1>12, <3>2, <5>1, <5>2, <5>3 DEF SaveTurnResult, SaveEvents, DeleteRows,
                   SaveFeedback, SaveLearning, SavePrompt, dbVars
      <4> QED BY <1>1, <2>2, <4>1
    <3> QED BY <3>1, <3>2
  <2> QED BY <2>3, <2>4, <2>5, <2>6, <2>7 DEF ConsentInv
<1> QED BY <1>4, <1>5, <1>6, <1>7, <1>8, <1>9, <1>10, <1>11, <1>12, Groups

-----------------------------------------------------------------------------
(* Evidence *)

\* Two accounts have nothing in common.
LEMMA Apart ==
  ASSUME NEW u \in Users, NEW v \in Users, u # v
  PROVE  Mine(u) \cap Mine(v) = {}
BY NameAssumption DEF Mine

LEMMA EvidenceInit ==
  ASSUME Init PROVE EvidenceAccounted
BY DEF Init, EvidenceAccounted, AllScripts

LEMMA EvidenceStep ==
  ASSUME TypeOK, Progress, OwnInv, EvidenceAccounted, [Next]_vars PROVE EvidenceAccounted'
<1> DEFINE insight(u) == derived[u]["insights"]
<1>1. \A u \in Users : links[u] \subseteq insight(u) /\ insight(u) \subseteq links[u] \cup gone
  BY DEF EvidenceAccounted
<1>2. "insights" \in AllScripts BY DEF AllScripts
<1>3. ASSUME derived' = derived, links' = links, gone' = gone PROVE EvidenceAccounted'
  BY <1>1, <1>3 DEF EvidenceAccounted
<1>4. ASSUME UNCHANGED vars PROVE EvidenceAccounted'
  BY <1>3, <1>4 DEF vars, dbVars, history
<1>5. ASSUME NEW t \in Scripts, StartScript(t) PROVE EvidenceAccounted'
  BY <1>3, <1>5 DEF StartScript, dbVars, history
<1>6. ASSUME NEW u \in Users, Visit(u) PROVE EvidenceAccounted'
  BY <1>3, <1>6 DEF Visit, dbVars
<1>7. ASSUME Reads PROVE EvidenceAccounted'
  BY <1>3, <1>7, ReadFacts DEF dbVars, history
<1>8. ASSUME Writes PROVE EvidenceAccounted'
  <2>1. PICK t \in AllScripts, sources \in SUBSET Sources :
          /\ Replace(t, sources)
          /\ IF t = "insights" THEN links' = [links EXCEPT ![acct] = sources] ELSE links' = links
    BY <1>8, WriteFacts
  <2>2. \A u \in Users :
          insight(u)' = IF u = acct /\ t = "insights" THEN sources ELSE insight(u)
    BY <1>2, <2>1 DEF Replace, TypeOK
  <2>3. \A u \in Users : links'[u] = IF u = acct /\ t = "insights" THEN sources ELSE links[u]
    BY <2>1 DEF TypeOK
  <2>4. gone' = gone BY <2>1 DEF Replace
  <2> QED BY <1>1, <2>2, <2>3, <2>4 DEF EvidenceAccounted
<1>9. ASSUME AbortScript PROVE EvidenceAccounted'
  BY <1>3, <1>9 DEF AbortScript, dbVars
<1>10. ASSUME NEW r \in Requests, NEW u \in Users, NEW kind \in AllKinds,
              NEW s \in Sessions \cup {"none"}, NEW values \in Bodies, Begin(r, u, kind, s, values)
       PROVE  EvidenceAccounted'
  BY <1>3, <1>10 DEF Begin, dbVars
<1>11. ASSUME NEW s \in Sessions, NEW u \in Users, CreateSession(s, u) PROVE EvidenceAccounted'
  BY <1>3, <1>11 DEF CreateSession, history
<1>12. ASSUME NEW r \in Requests PROVE Moves(r) => EvidenceAccounted'
  <2>1. Moves(r) => UNCHANGED <<dbVars, history>> BY MoveFacts
  <2> QED BY <1>3, <2>1 DEF dbVars, history
<1>13. ASSUME NEW r \in Requests PROVE Tells(r) => EvidenceAccounted'
  <2>1. Tells(r) => UNCHANGED <<dbVars, history>> BY TellFacts
  <2> QED BY <1>3, <2>1 DEF dbVars, history
<1>14. ASSUME NEW r \in Requests,
              \/ SaveTurnResult(r) \/ SaveEvents(r) \/ SaveReflection(r) \/ SaveFeedback(r)
              \/ SaveLearning(r) \/ SavePrompt(r)
       PROVE  EvidenceAccounted'
  BY <1>3, <1>14 DEF SaveTurnResult, SaveEvents, SaveReflection, SaveFeedback, SaveLearning,
     SavePrompt, dbVars, history
<1>15. ASSUME NEW r \in Requests, DeleteRows(r) PROVE EvidenceAccounted'
  <2>1. derived' = derived BY <1>15 DEF DeleteRows
  <2>2. \A u \in Users : links'[u] = links[u] \ {call[r].journey} BY <1>15 DEF DeleteRows
  <2>3. gone \cup {call[r].journey} \subseteq gone' BY <1>15 DEF DeleteRows
  <2> QED BY <1>1, <2>1, <2>2, <2>3 DEF EvidenceAccounted
<1>16. ASSUME NEW r \in Requests, ResetAll(r) PROVE EvidenceAccounted'
  <2>1. call[r].user \in Users BY <1>16, HandlerGoes
  <2>2. \A v \in Users : v # call[r].user => links[v] \cap seen[r] = {}
    <3>1. seen[r] \subseteq Mine(call[r].user) BY DEF OwnInv
    <3>2. \A v \in Users : links[v] \subseteq Mine(v) BY <1>1, <1>2 DEF OwnInv
    <3> QED BY <2>1, <3>1, <3>2, Apart
  <2>3. \A v \in Users : links'[v] = IF v = call[r].user THEN {} ELSE links[v] \ seen[r]
    BY <1>16, <2>1 DEF ResetAll
  <2>4. \A v \in Users : insight(v)' = IF v = call[r].user THEN {} ELSE insight(v)
    BY <1>2, <1>16, <2>1 DEF ResetAll, TypeOK
  <2>5. gone \subseteq gone' BY <1>16 DEF ResetAll
  <2> QED BY <1>1, <2>2, <2>3, <2>4, <2>5, ZenonT(40) DEF EvidenceAccounted
<1> QED BY <1>4, <1>5, <1>6, <1>7, <1>8, <1>9, <1>10, <1>11, <1>12, <1>13, <1>14, <1>15, <1>16, Groups

-----------------------------------------------------------------------------
(* What was removed *)

LEMMA ForgottenInit ==
  ASSUME Init PROVE ForgottenInv
BY DEF Init, ForgottenInv, ForgottenStaysForgotten, Visiting

LEMMA ForgottenStep ==
  ASSUME TypeOK, Progress, OwnInv, ForgottenInv, [Next]_vars PROVE ForgottenInv'
<1> DEFINE Rowwise == \A u \in Users, t \in AllScripts :
             (derived[u][t] \ reflections[u]) \cap gone # {} => t \in stale[u]
           InHand == Visiting /\ ~overtaken => ((got.from \cup got.texts) \ reflections[acct]) \cap gone = {}
           Alive == live \cap gone = {}
           Answered == \A u \in Users : feedback[u] \cap gone = {}
           Began == \A s \in gone \cap Sessions : owner[s] \in Users
           Ended == \A r \in gone \cap Requests : call[r].at = "done"
           Answerers == \A u \in Users :
             /\ \A r \in reflections[u] : At(r, "reflect", "done")
             /\ \A r \in feedback[u] : At(r, "feedback", "done")
<1>1. Rowwise /\ InHand /\ Alive /\ Answered /\ Began /\ Ended /\ Answerers
  BY DEF ForgottenInv, ForgottenStaysForgotten
<1>2. \A s \in Sessions : owner[s] \in Users => owner'[s] = owner[s] BY MineGrows
<1>3. ASSUME Rowwise', InHand', Alive', Answered', Began', Ended', Answerers' PROVE ForgottenInv'
  BY <1>3 DEF ForgottenInv, ForgottenStaysForgotten
<1>4. ASSUME UNCHANGED <<derived, reflections, stale, gone>> PROVE Rowwise' BY <1>1, <1>4
<1>5. ASSUME UNCHANGED <<step, acct, got, reflections, overtaken, gone>> PROVE InHand' BY <1>1, <1>5 DEF Visiting
<1>6. ASSUME gone' = gone, live' \subseteq live PROVE Alive' /\ Began'
  BY <1>1, <1>2, <1>6
<1>7. ASSUME UNCHANGED <<feedback, gone>> PROVE Answered' BY <1>1, <1>7
<1>8. ASSUME UNCHANGED <<reflections, feedback, gone>>,
             \A r \in Requests : call[r].at = "done" => call'[r] = call[r]
      PROVE  Ended' /\ Answerers'
  BY <1>1, <1>8 DEF TypeOK, At
<1>9. ASSUME UNCHANGED vars PROVE ForgottenInv'
  BY <1>3, <1>4, <1>5, <1>6, <1>7, <1>8, <1>9 DEF vars, dbVars, callVars, scriptVars, history
<1>10. ASSUME NEW t \in Scripts, StartScript(t) PROVE ForgottenInv'
  <2>1. InHand' BY <1>1, <1>10 DEF StartScript, Visiting, dbVars, history
  <2> QED BY <1>3, <1>4, <1>6, <1>7, <1>8, <1>10, <2>1 DEF StartScript, dbVars, callVars, history
<1>11. ASSUME NEW u \in Users, Visit(u) PROVE ForgottenInv'
  <2>1. got = NothingRead BY <1>11 DEF Visit, Visiting, Progress
  <2>2. InHand' BY <1>11, <2>1 DEF Visit, NothingRead
  <2> QED BY <1>3, <1>4, <1>6, <1>7, <1>8, <1>11, <2>2 DEF Visit, dbVars, callVars
<1>12. ASSUME Reads PROVE ForgottenInv'
  <2>1. /\ UNCHANGED <<dbVars, callVars, history, acct>> /\ Visiting /\ acct \in Users
        /\ got'.from \subseteq got.from \cup Owned(acct) \cup reflections[acct] \cup feedback[acct]
        /\ got'.texts \subseteq got.texts \cup Owned(acct)
    BY <1>12, ReadFacts DEF Progress
  <2>2. Owned(acct) \subseteq live BY DEF Owned
  <2>3. InHand' BY <1>1, <2>1, <2>2 DEF dbVars, history
  <2> QED BY <1>3, <1>4, <1>6, <1>7, <1>8, <2>1, <2>3 DEF dbVars, callVars, history
<1>13. ASSUME Writes PROVE ForgottenInv'
  <2>1. PICK t \in AllScripts, sources \in SUBSET Sources :
          Replace(t, sources) /\ sources \subseteq got.from \cup got.texts
    BY <1>13, WriteFacts
  <2>2. Visiting /\ acct \in Users BY <1>13, WriteFacts
  <2>3. \A u \in Users, v \in AllScripts :
          derived'[u][v] = IF u = acct /\ v = t THEN sources ELSE derived[u][v]
    BY <2>1, <2>2 DEF Replace, TypeOK
  <2>4. CASE overtaken
    <3>1. \A u \in Users : stale'[u] = IF u = acct THEN stale[u] \cup {t} ELSE stale[u]
      BY <2>1, <2>2, <2>4 DEF Replace, TypeOK
    <3> QED BY <1>1, <2>1, <2>3, <3>1, <1>3, <1>6, <1>7, <1>8 DEF Replace, callVars, Visiting
  <2>5. CASE ~overtaken
    <3>1. \A u \in Users : stale'[u] = IF u = acct THEN stale[u] \ {t} ELSE stale[u]
      BY <2>1, <2>2, <2>5 DEF Replace, TypeOK
    <3>2. (sources \ reflections[acct]) \cap gone = {} BY <1>1, <2>1, <2>2, <2>5
    <3> QED BY <1>1, <2>1, <2>3, <3>1, <3>2, <1>3, <1>6, <1>7, <1>8 DEF Replace, callVars, Visiting
  <2> QED BY <2>4, <2>5
<1>14. ASSUME AbortScript PROVE ForgottenInv'
  <2>1. InHand' BY <1>14 DEF AbortScript, Visiting
  <2> QED BY <1>3, <1>4, <1>6, <1>7, <1>8, <1>14, <2>1 DEF AbortScript, dbVars, callVars
<1>15. ASSUME NEW r \in Requests, NEW u \in Users, NEW kind \in AllKinds,
              NEW s \in Sessions \cup {"none"}, NEW values \in Bodies, Begin(r, u, kind, s, values)
       PROVE  ForgottenInv'
  <2>1. call[r].at # "done" BY <1>15 DEF Begin, Idle
  <2>2. \A q \in Requests : call[q].at = "done" => call'[q] = call[q]
    BY <1>15, <2>1 DEF Begin, TypeOK
  <2> QED BY <1>3, <1>4, <1>5, <1>6, <1>7, <1>8, <1>15, <2>2 DEF Begin, dbVars, scriptVars
<1>16. ASSUME NEW s \in Sessions, NEW u \in Users, CreateSession(s, u) PROVE ForgottenInv'
  <2>1. s \notin gone BY <1>1, <1>16, NameAssumption DEF CreateSession
  <2>2. Alive' BY <1>1, <1>16, <2>1 DEF CreateSession, history
  <2>3. Began' BY <1>1, <1>2, <1>16 DEF CreateSession, history
  <2> QED BY <1>3, <1>4, <1>5, <1>7, <1>8, <1>16, <2>2, <2>3
          DEF CreateSession, scriptVars, callVars, history
<1>17. ASSUME NEW r \in Requests,
              \/ Moves(r) \/ Tells(r) \/ SaveTurnResult(r) \/ SaveEvents(r)
              \/ DeleteRows(r) \/ ResetAll(r) \/ SaveReflection(r) \/ SaveFeedback(r)
              \/ SaveLearning(r) \/ SavePrompt(r)
       PROVE  /\ call[r].user \in Users
              /\ \A q \in Requests : call[q].at = "done" => q # r /\ call'[q] = call[q]
              /\ UNCHANGED <<owner, scriptVars>>
  <2>1. /\ call[r].user \in Users /\ call[r].at \notin {"idle", "done"}
        /\ \A q \in Requests \ {r} : call'[q] = call[q]
        /\ UNCHANGED <<owner, scriptVars>>
    BY <1>17, HandlerGoes
  <2> QED BY <2>1
<1>18. ASSUME NEW r \in Requests, Moves(r) \/ Tells(r) PROVE ForgottenInv'
  <2>1. UNCHANGED <<dbVars, scriptVars, history>>
    <3>1. CASE Moves(r) BY <3>1, MoveFacts
    <3>2. CASE Tells(r) BY <3>2, TellFacts
    <3> QED BY <1>18, <3>1, <3>2
  <2>2. \A q \in Requests : call[q].at = "done" => call'[q] = call[q] BY <1>17, <1>18
  <2> QED BY <1>3, <1>4, <1>5, <1>6, <1>7, <1>8, <2>1, <2>2 DEF dbVars, scriptVars, history
<1>19. ASSUME NEW r \in Requests,
              SaveTurnResult(r) \/ SaveEvents(r) \/ SaveLearning(r) \/ SavePrompt(r)
       PROVE  ForgottenInv'
  <2>1. UNCHANGED <<derived, stale, gone, live, reflections, feedback, step, acct, got, overtaken>>
    BY <1>19 DEF SaveTurnResult, SaveEvents, SaveLearning, SavePrompt, dbVars, scriptVars, history
  <2>2. \A q \in Requests : call[q].at = "done" => call'[q] = call[q] BY <1>17, <1>19
  <2> QED BY <1>3, <1>4, <1>5, <1>6, <1>7, <1>8, <2>1, <2>2
<1>20. ASSUME NEW r \in Requests, SaveReflection(r) \/ SaveFeedback(r) PROVE ForgottenInv'
  <2>1. UNCHANGED <<derived, stale, gone, live, step, acct, got, overtaken>>
    BY <1>20 DEF SaveReflection, SaveFeedback, scriptVars, history
  <2>2. \A u \in Users :
          /\ reflections'[u] \subseteq reflections[u] \cup (IF SaveReflection(r) THEN {r} ELSE {})
          /\ reflections[u] \subseteq reflections'[u]
          /\ feedback'[u] \subseteq feedback[u] \cup (IF SaveFeedback(r) THEN {r} ELSE {})
    <3>1. CASE SaveReflection(r)
      BY <3>1, ZenonT(40) DEF SaveReflection, TypeOK
    <3>2. CASE SaveFeedback(r) /\ ~SaveReflection(r)
      BY <3>2, ZenonT(40) DEF SaveFeedback, TypeOK
    <3> QED BY <1>20, <3>1, <3>2
  <2>3. call[r].at \notin {"idle", "done"} BY <1>20, HandlerGoes
  <2>4. r \notin gone BY <1>1, <2>3
  <2>5. /\ SaveReflection(r) => At(r, "reflect", "done")'
        /\ SaveFeedback(r) => At(r, "feedback", "done")'
    BY GotoFacts DEF SaveReflection, SaveFeedback, HandlerPoints, At
  <2>6. \A q \in Requests : call[q].at = "done" => call'[q] = call[q] BY <1>17, <1>20
  <2>7. Answered' BY <1>1, <2>1, <2>2, <2>4
  <2>8. Ended' BY <1>1, <2>1, <2>6
  <2>9. Answerers' BY <1>1, <2>2, <2>5, <2>6 DEF TypeOK, At
  <2>10. Rowwise' BY <1>1, <2>1, <2>2
  <2>11. acct \in Users \/ ~Visiting BY DEF Progress
  <2>12. InHand' BY <1>1, <2>1, <2>2, <2>11 DEF Visiting
  <2> QED BY <1>3, <1>6, <2>1, <2>7, <2>8, <2>9, <2>10, <2>12
<1>21. ASSUME NEW r \in Requests, DeleteRows(r) PROVE ForgottenInv'
  <2> DEFINE s == call[r].journey
             u == call[r].user
  <2>1. s \in Sessions /\ owner[s] = u /\ u \in Users
    BY <1>17, <1>21 DEF DeleteRows, At, Progress
  <2> DEFINE Lost == {s} \cup Reflected(u, s)
  <2>2. /\ Reflected(u, s) \subseteq reflections[u] /\ reflections[u] \subseteq Requests
        /\ s \notin Requests
    BY <2>1, NameAssumption DEF Reflected, TypeOK
  <2>3. /\ gone' = gone \cup Lost /\ live' = live \ {s}
        /\ UNCHANGED <<owner, derived, reflections, feedback, step, acct, got>>
    BY <1>21 DEF DeleteRows, scriptVars
  <2>4. \A v \in Users : stale'[v] = IF v = u THEN stale[v] \cup {t \in AllScripts : s \in derived[u][t]}
                                             ELSE stale[v]
    BY <1>21, <2>1 DEF DeleteRows, TypeOK
  <2>5. \A v \in Users : v # u => Mine(v) \cap Lost = {}
    <3>1. Lost \subseteq Mine(u)
      <4>1. s \in Mine(u) BY <2>1 DEF Mine
      <4> QED BY <2>1, <2>2, <4>1 DEF OwnInv
    <3> QED BY <2>1, <3>1, Apart
  <2>6. Rowwise'
    <3>1. SUFFICES ASSUME NEW v \in Users, NEW t \in AllScripts,
                          (derived[v][t] \ reflections[v]) \cap (gone \cup Lost) # {}
                   PROVE  t \in stale'[v]
      BY <2>3
    <3>2. CASE v = u /\ s \in derived[v][t]
      BY <2>4, <3>2
    <3>3. CASE v # u \/ s \notin derived[v][t]
      <4>1. (derived[v][t] \ reflections[v]) \cap Lost = {} BY <2>2, <2>5, <3>3 DEF OwnInv
      <4>2. t \in stale[v] BY <1>1, <3>1, <4>1
      <4> QED BY <2>4, <4>2
    <3> QED BY <3>2, <3>3
  <2>7. InHand'
    <3>1. overtaken' <=> overtaken \/ (Visiting /\ acct = u) BY <1>21 DEF DeleteRows
    <3>2. SUFFICES ASSUME Visiting, ~overtaken, acct # u
                   PROVE  ((got.from \cup got.texts) \ reflections[acct]) \cap (gone \cup Lost) = {}
      BY <2>3, <3>1 DEF Visiting
    <3>3. acct \in Users /\ got.from \cup got.texts \subseteq Mine(acct)
      BY <3>2 DEF OwnInv, Progress
    <3> QED BY <1>1, <2>5, <3>2, <3>3
  <2>8. Alive' /\ Began'
    <3>1. live \subseteq Sessions /\ Sessions \cap Requests = {} BY NameAssumption DEF TypeOK
    <3> QED BY <1>1, <2>1, <2>2, <2>3, <3>1
  <2>9. Answered'
    <3>1. \A v \in Users : feedback[v] \subseteq Mine(v) /\ feedback[v] \subseteq Requests
      BY DEF OwnInv, TypeOK
    <3>2. feedback[u] \cap Lost = {}
      BY <1>1, <2>1, <2>2, <3>1 DEF At
    <3>3. \A v \in Users : feedback[v] \cap Lost = {}
      BY <2>5, <3>1, <3>2
    <3> QED BY <1>1, <2>3, <3>3
  <2>10. \A q \in Requests : call[q].at = "done" => call'[q] = call[q] BY <1>17, <1>21
  <2>11. Ended' BY <1>1, <2>1, <2>2, <2>3, <2>10 DEF At
  <2>12. Answerers' BY <1>1, <2>3, <2>10 DEF TypeOK, At
  <2> QED BY <1>3, <2>6, <2>7, <2>8, <2>9, <2>11, <2>12
<1>22. ASSUME NEW r \in Requests, ResetAll(r) PROVE ForgottenInv'
  <2> DEFINE u == call[r].user
             Lost == Owned(u) \cup reflections[u] \cup feedback[u]
  <2>1. u \in Users BY <1>17, <1>22
  <2>2. /\ gone' = gone \cup Lost /\ live' = live \ Owned(u)
        /\ UNCHANGED <<owner, step, acct, got>>
    BY <1>22 DEF ResetAll, scriptVars
  <2>3. Lost \subseteq Mine(u) BY <2>1, OwnSources
  <2>4. \A v \in Users : v # u => Mine(v) \cap Lost = {} BY <2>1, <2>3, Apart
  <2>5. /\ \A v \in Users, t \in AllScripts : derived'[v][t] = IF v = u THEN {} ELSE derived[v][t]
        /\ \A v \in Users : /\ stale'[v] = IF v = u THEN {} ELSE stale[v]
                            /\ reflections'[v] = IF v = u THEN {} ELSE reflections[v]
                            /\ feedback'[v] = IF v = u THEN {} ELSE feedback[v]
    BY <1>22, <2>1 DEF ResetAll, TypeOK
  <2>6. Rowwise' BY <1>1, <2>2, <2>4, <2>5 DEF OwnInv
  <2>7. InHand'
    <3>1. overtaken' <=> overtaken \/ (Visiting /\ acct = u) BY <1>22 DEF ResetAll
    <3>2. SUFFICES ASSUME Visiting, ~overtaken, acct # u
                   PROVE  ((got.from \cup got.texts) \ reflections[acct]) \cap (gone \cup Lost) = {}
      <4>1. Visiting => reflections'[acct] = reflections[acct] \/ acct = u
        BY <2>5 DEF Progress
      <4> QED BY <2>2, <3>1, <4>1 DEF Visiting
    <3>3. acct \in Users /\ got.from \cup got.texts \subseteq Mine(acct)
      BY <3>2 DEF OwnInv, Progress
    <3> QED BY <1>1, <2>4, <3>2, <3>3
  <2>8. /\ reflections[u] \cup feedback[u] \subseteq Requests /\ Owned(u) \subseteq Sessions
        /\ live \subseteq Sessions /\ Sessions \cap Requests = {}
    BY <2>1, NameAssumption DEF TypeOK, Owned
  <2>9. Alive' BY <1>1, <2>2, <2>8
  <2>10. Began' BY <1>1, <2>1, <2>2, <2>8 DEF Owned
  <2>11. Answered' BY <1>1, <2>2, <2>4, <2>5 DEF OwnInv
  <2>12. \A q \in Requests : call[q].at = "done" => call'[q] = call[q] BY <1>17, <1>22
  <2>13. Ended' BY <1>1, <2>1, <2>2, <2>8, <2>12 DEF At
  <2>14. Answerers' BY <1>1, <2>5, <2>12 DEF TypeOK, At
  <2> QED BY <1>3, <2>6, <2>7, <2>9, <2>10, <2>11, <2>13, <2>14
<1> QED BY <1>9, <1>10, <1>11, <1>12, <1>13, <1>14, <1>15, <1>16, <1>18, <1>19, <1>20, <1>21, <1>22, Groups

-----------------------------------------------------------------------------
(* Theorems *)

Inv == TypeOK /\ Progress /\ OwnInv /\ ConsentInv /\ EvidenceAccounted /\ ForgottenInv

LEMMA Invariance == Spec => []Inv
<1>1. Init => Inv
  BY TypeInit, ProgressInit, OwnInit, ConsentInit, EvidenceInit, ForgottenInit DEF Inv
<1>2. Inv /\ [Next]_vars => Inv'
  BY TypeStep, ProgressStep, OwnStep, ConsentStep, EvidenceStep, ForgottenStep DEF Inv
<1> QED BY <1>1, <1>2, PTL DEF Spec

\* Handlers, scripts and stored rows keep their shapes, for any number of
\* accounts, Journeys, requests and script runs.
THEOREM AccountTypes == Spec => []TypeOK
<1>1. Inv => TypeOK BY DEF Inv
<1> QED BY <1>1, Invariance, PTL

\* "Each account's own, never another's": what is derived about an account, what
\* its turns are told and what its export writes come from its own data, however
\* scripts, deletes, resets and settings interleave.
THEOREM EachAccountsOwn == Spec => []OwnDataOnly
<1>1. Inv => OwnDataOnly BY DEF Inv, OwnInv, OwnDataOnly
<1> QED BY <1>1, Invariance, PTL

\* The opt-outs of the turn and of the scripts and the opt-in of the reflections
\* hold across every interleaving with set_privacy_settings' two transactions.
THEOREM ConsentKept == Spec => []ConsentRespected
<1>1. Inv => ConsentRespected BY DEF Inv, ConsentInv, ConsentRespected
<1> QED BY <1>1, Invariance, PTL

\* insight_sessions agrees with the insight, whatever replaces, deletes or resets.
THEOREM EvidenceKept == Spec => []EvidenceAccounted
<1>1. Inv => EvidenceAccounted BY DEF Inv
<1> QED BY <1>1, Invariance, PTL

\* What delete and reset removed is spoken of only by rows computed before a
\* delete, or written by a script visit the removal overtook.
THEOREM ForgottenForGood == Spec => []ForgottenStaysForgotten
<1>1. Inv => ForgottenStaysForgotten BY DEF Inv, ForgottenInv
<1> QED BY <1>1, Invariance, PTL

=============================================================================
