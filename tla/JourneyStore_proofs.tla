------------------------ MODULE JourneyStore_proofs --------------------------
(***************************************************************************)
(* Proofs about what the handlers of Journey leave in the store: the order *)
(* of their writes, that a reply is durable, that Journey implements       *)
(* Transcript, and what a client gets that waits for Tier2.  For any       *)
(* number of Journeys, requests, accounts and browsers, any cap and any    *)
(* number of restarts.                                                     *)
(***************************************************************************)
EXTENDS Journey_proofs, FiniteSetTheorems

USE DEF Identities, Outcomes, Stages, InFlight, Background, Finished

\* How far a request is that has stored its question, its turn, its answer.
Asked == {"asked", "saved", "recorded", "replied", "understanding", "done"}
Written == Asked \ {"asked"}
Answering == {"replied", "understanding", "done"}

\* A Journey not created yet has no turn, no event and nobody's copy.
Fresh ==
  \A s \in Sessions : owner[s] = "absent" =>
    /\ world[s].turns = {} /\ saved[s] = {} /\ events[s] = {}
    /\ \A r \in Requests : sess[r] = s => copy[r].turns = {}

\* What a reset has selected stays the account's, or is gone.
Selected ==
  \A p \in resetting : \A s \in p.ids : owner[s] \in {p.user, "deleted"}

\* The body of WriteOrder, for one Journey.
Ordered(s) ==
  \A r \in Requests :
    /\ r \in world[s].turns => Question(r) \in Entries(messages[s])
    /\ r \in events[s] => r \in saved[s]
    /\ Answer(r) \in Entries(messages[s]) => r \in saved[s]
    /\ r \in saved[s] => Question(r) \in Entries(messages[s])

\* What a request has stored by the point it has reached.
Stored(r) ==
  /\ pc[r] \in Asked => Question(r) \in Entries(messages[sess[r]])
  /\ (pc[r] \in Written /\ outcome[r] # "interp") => r \in saved[sess[r]]
  /\ (pc[r] \in Answering /\ outcome[r] = "answered")
       => Answer(r) \in Entries(messages[sess[r]])

\* The copy a handler holds knows no turn the transcript does not, but its own
\* between run_turn and the append of the question.
CopyKnown(r) ==
  \A t \in copy[r].turns :
    Question(t) \in Entries(messages[sess[r]]) \/ (t = r /\ pc[r] = "ran")

WriteInv ==
  /\ Fresh
  /\ Selected
  /\ \A s \in Sessions : Live(s) => Ordered(s)
  /\ \A r \in Requests : Live(sess[r]) => Stored(r) /\ CopyKnown(r)
  /\ \A r \in Requests :
       pc[r] \in {"ran", "asked"} /\ outcome[r] # "interp" => r \in copy[r].turns

\* A question or an answer stands in the Journey of its request only, and only
\* once the request has got that far.
Spoken ==
  \A s \in Sessions, r \in Requests :
    /\ Question(r) \in Entries(messages[s]) => sess[r] = s /\ pc[r] \in Asked \cup {"lost"}
    /\ Answer(r) \in Entries(messages[s]) => sess[r] = s /\ pc[r] \in Answering \cup {"lost"}

-----------------------------------------------------------------------------
(* What the steps do to a Journey and to the handlers.                     *)

\* Questions and answers tell the requests apart.
LEMMA EntriesDiffer ==
  \A r, t \in Requests :
    /\ Question(r) = Question(t) <=> r = t
    /\ Answer(r) = Answer(t) <=> r = t
    /\ Question(r) # Answer(t)
BY DEF Question, Answer

SameRow(s) ==
  /\ messages'[s] = messages[s] /\ events'[s] = events[s] /\ world'[s] = world[s]

\* A row, or nothing.
RowOrNothing(s) ==
  /\ messages'[s] \in {messages[s], <<>>}
  /\ events'[s] \in {events[s], {}}
  /\ world'[s] \in {world[s], EmptyWorld}
  /\ owner'[s] = "absent" => owner[s] = "absent"

\* A Journey that exists after the step has lost nothing by it.
Survives(s) == Live(s)' => SameRow(s) /\ (Live(s) \/ owner[s] = "absent")

\* What a delete removes are the Journeys it closes: none that survives loses
\* its messages or its events.
LEMMA ForgetSpares ==
  ASSUME TypeOK, NEW S \in SUBSET Sessions, NEW M \in SUBSET Sessions, Forget(S, M),
         \A s \in M : Live(s) => s \in S
  PROVE  \A s \in Sessions :
           /\ RowOrNothing(s) /\ Survives(s)
           /\ Live(s)' <=> Live(s) /\ s \notin S
           /\ ~Live(s) => owner'[s] = owner[s]
BY StatusAssumption DEF Forget, Live, TypeOK, SameRow, RowOrNothing, Survives

\* Whatever is created, claimed, deleted or reset, a Journey that exists after
\* the step has lost nothing by it, and no handler has moved.
LEMMA SurvivorsKeep ==
  ASSUME TypeOK, DeleteStillAuthorised, Selected, Administer \/ UNCHANGED vars
  PROVE  /\ UNCHANGED reqVars /\ UNCHANGED <<saved, crossed>>
         /\ \A s \in Sessions : RowOrNothing(s) /\ Survives(s)
<1> USE DEF dbVars, reqVars, adminVars, history
<1>1. ASSUME NEW u \in Users, NEW s \in Sessions, DeleteSession(u, s)
      PROVE  UNCHANGED reqVars /\ UNCHANGED <<saved, crossed>> /\ \A t \in Sessions : RowOrNothing(t) /\ Survives(t)
  BY <1>1, ForgetSpares DEF DeleteSession
<1>2. ASSUME NEW p \in resetting, ResetAllData(p)
      PROVE  UNCHANGED reqVars /\ UNCHANGED <<saved, crossed>> /\ \A t \in Sessions : RowOrNothing(t) /\ Survives(t)
  <2>1. p.ids \in SUBSET Sessions /\ p.user \in Users
    BY DEF TypeOK
  <2>2. \A s \in p.ids : Live(s) => s \in {t \in Sessions : owner[t] = p.user}
    BY <2>1, StatusAssumption DEF Selected, Live
  <2>. QED
    BY <1>2, <2>1, <2>2, ForgetSpares DEF ResetAllData
<1>3. ASSUME UNCHANGED <<messages, events, world, reqVars, saved, crossed>>,
             \A s \in Sessions : /\ owner'[s] = "absent" => owner[s] = "absent"
                                 /\ Live(s)' => Live(s) \/ owner[s] = "absent"
      PROVE  UNCHANGED reqVars /\ UNCHANGED <<saved, crossed>> /\ \A t \in Sessions : RowOrNothing(t) /\ Survives(t)
  BY <1>3 DEF SameRow, RowOrNothing, Survives
<1>4. ASSUME NEW s \in Sessions, NEW i \in Identities, CreateSession(s, i)
      PROVE  UNCHANGED reqVars /\ UNCHANGED <<saved, crossed>> /\ \A t \in Sessions : RowOrNothing(t) /\ Survives(t)
  BY <1>3, <1>4, StatusAssumption DEF CreateSession, Live, TypeOK
<1>5. ASSUME NEW a \in Anons, NEW u \in Users, Claim(a, u)
      PROVE  UNCHANGED reqVars /\ UNCHANGED <<saved, crossed>> /\ \A t \in Sessions : RowOrNothing(t) /\ Survives(t)
  BY <1>3, <1>5, StatusAssumption DEF Claim, Live, TypeOK
<1>6. CASE owner' = owner /\ UNCHANGED <<messages, events, world, reqVars, saved, crossed>>
  BY <1>3, <1>6 DEF Live
<1>7. ASSUME NEW u \in Users, NEW s \in Sessions, RequireOwnedForDelete(u, s) \/ SelectForReset(u)
      PROVE  owner' = owner /\ UNCHANGED <<messages, events, world, reqVars, saved, crossed>>
  BY <1>7 DEF RequireOwnedForDelete, SelectForReset
<1>8. ASSUME NEW u \in Users, SelectForReset(u)
      PROVE  owner' = owner /\ UNCHANGED <<messages, events, world, reqVars, saved, crossed>>
  BY <1>8 DEF SelectForReset
<1>9. CASE UNCHANGED vars
  BY <1>6, <1>9 DEF vars
<1>. QED
  BY <1>1, <1>2, <1>4, <1>5, <1>6, <1>7, <1>8, <1>9 DEF Administer

\* What a reset selected stays selected for its account only: no claim moves
\* a row an account owns.
LEMMA SelectedStep == TypeOK /\ Selected /\ [Next]_vars => Selected'
<1> SUFFICES ASSUME TypeOK, Selected, [Next]_vars
             PROVE  Selected'
  OBVIOUS
<1> USE DEF dbVars, reqVars, adminVars, history
<1>0. \A p \in resetting : p.ids \in SUBSET Sessions /\ p.user \in Users
  BY DEF TypeOK
<1>1. ASSUME \A s \in Sessions, u \in Users :
               owner[s] \in {u, "deleted"} => owner'[s] \in {u, "deleted"},
             resetting' \subseteq resetting
      PROVE  Selected'
  BY <1>0, <1>1 DEF Selected
<1>2. ASSUME NEW s \in Sessions, NEW i \in Identities, CreateSession(s, i)
      PROVE  Selected'
  BY <1>1, <1>2, StatusAssumption DEF CreateSession, TypeOK
<1>3. ASSUME NEW a \in Anons, NEW u \in Users, Claim(a, u)
      PROVE  Selected'
  BY <1>1, <1>3, IdentityAssumption, StatusAssumption DEF Claim, TypeOK
<1>4. ASSUME NEW S, NEW M, Forget(S, M), resetting' \subseteq resetting
      PROVE  Selected'
  BY <1>1, <1>4 DEF Forget, TypeOK
<1>5. ASSUME NEW u \in Users, NEW s \in Sessions, DeleteSession(u, s)
      PROVE  Selected'
  BY <1>4, <1>5 DEF DeleteSession
<1>6. ASSUME NEW p \in resetting, ResetAllData(p)
      PROVE  Selected'
  BY <1>4, <1>6 DEF ResetAllData
<1>7. ASSUME NEW u \in Users, SelectForReset(u)
      PROVE  Selected'
  <2>1. owner' = owner
    BY <1>7 DEF SelectForReset
  <2>2. \A p \in resetting' : p \in resetting \/ p = [user |-> u, ids |-> {s \in Sessions : owner[s] = u}]
    BY <1>7 DEF SelectForReset
  <2>. QED
    BY <2>1, <2>2 DEF Selected
<1>8. CASE owner' = owner /\ resetting' \subseteq resetting
  BY <1>1, <1>8
<1>9. ASSUME NEW r \in Requests, RequireOwnedSession(r) \/ Turn(r) \/ Tier2(r)
      PROVE  Selected'
  BY <1>8, <1>9 DEF RequireOwnedSession, Turn, Tier2, Admit, LoadState, RunTurn,
    AppendUserMessage, SaveTurnResult, SaveEvents, Respond, LoadForTier2, SaveTier2Result
<1>10. ASSUME NEW u \in Users, NEW s \in Sessions, RequireOwnedForDelete(u, s)
       PROVE  Selected'
  BY <1>8, <1>10 DEF RequireOwnedForDelete
<1>11. CASE Crash
  BY <1>8, <1>11 DEF Crash
<1>12. CASE UNCHANGED vars
  BY <1>8, <1>12 DEF vars
<1>. QED
  BY <1>2, <1>3, <1>5, <1>6, <1>7, <1>9, <1>10, <1>11, <1>12 DEF Next, Administer

-----------------------------------------------------------------------------
(* What a handler has written when it gets somewhere.                      *)

\* Only the row of the handler's own Journey changes, and it loses no message
\* and no saved turn.
OwnRowGrows(r) ==
  /\ \A s \in Sessions \ {sess[r]} : SameRow(s) /\ saved'[s] = saved[s]
  /\ Entries(messages[sess[r]]) \subseteq Entries(messages'[sess[r]])
  /\ saved[sess[r]] \subseteq saved'[sess[r]]

\* Only handler r moves.
OnlyMoves(r) ==
  /\ UNCHANGED <<owner, sess>>
  /\ \A p \in Requests \ {r} :
       pc'[p] = pc[p] /\ copy'[p] = copy[p] /\ outcome'[p] = outcome[p]

\* What one handler must see to for WriteInv to survive its step.
LEMMA HandlerKeepsWriteInv ==
  ASSUME TypeOK, TypeOK', WriteInv, Selected', NEW r \in Requests,
         owner[sess[r]] # "absent", OnlyMoves(r), OwnRowGrows(r),
         Live(sess[r]) => Ordered(sess[r])' /\ Stored(r)' /\ CopyKnown(r)',
         pc'[r] \in {"ran", "asked"} /\ outcome'[r] # "interp" => r \in copy'[r].turns
  PROVE  WriteInv'
<1>1. \A s \in Sessions : Live(s)' <=> Live(s)
  BY DEF OnlyMoves, Live
<1>2. sess[r] \in Sessions /\ \A p \in Requests : sess[p] \in Sessions /\ sess'[p] = sess[p]
  BY DEF TypeOK, OnlyMoves
<1>3. Fresh'
  BY <1>2 DEF WriteInv, Fresh, OnlyMoves, OwnRowGrows, SameRow
<1>4. \A s \in Sessions : Live(s)' => Ordered(s)'
  <2> SUFFICES ASSUME NEW s \in Sessions, Live(s)
               PROVE  Ordered(s)'
    BY <1>1
  <2>1. CASE s = sess[r]
    BY <1>2, <2>1 DEF Ordered
  <2>2. CASE s # sess[r]
    BY <2>2 DEF WriteInv, Ordered, OwnRowGrows, SameRow
  <2>. QED
    BY <2>1, <2>2
<1>5. ASSUME NEW p \in Requests, p # r, Live(sess[p])
      PROVE  Stored(p)' /\ CopyKnown(p)'
  <2>1. Stored(p) /\ CopyKnown(p)
    BY <1>5 DEF WriteInv
  <2>2. /\ Entries(messages[sess[p]]) \subseteq Entries(messages'[sess[p]])
        /\ saved[sess[p]] \subseteq saved'[sess[p]]
    BY <1>2 DEF OwnRowGrows, SameRow
  <2>3. pc'[p] = pc[p] /\ copy'[p] = copy[p] /\ outcome'[p] = outcome[p] /\ sess'[p] = sess[p]
    BY <1>2, <1>5 DEF OnlyMoves
  <2>4. Stored(p)'
    BY <2>1, <2>2, <2>3 DEF Stored
  <2>5. CopyKnown(p)'
    BY <2>1, <2>2, <2>3 DEF CopyKnown
  <2>. QED
    BY <2>4, <2>5
<1>6. \A p \in Requests : Live(sess[p])' => Stored(p)' /\ CopyKnown(p)'
  <2> SUFFICES ASSUME NEW p \in Requests, Live(sess[p])
               PROVE  Stored(p)' /\ CopyKnown(p)'
    BY <1>2 DEF OnlyMoves, Live
  <2>1. CASE p = r
    BY <2>1
  <2>2. CASE p # r
    BY <1>5, <2>2
  <2>. QED
    BY <2>1, <2>2
<1>7. \A p \in Requests :
        pc'[p] \in {"ran", "asked"} /\ outcome'[p] # "interp" => p \in copy'[p].turns
  BY DEF WriteInv, OnlyMoves
<1>. QED
  BY <1>3, <1>4, <1>6, <1>7 DEF WriteInv

\* A step of the handler that leaves the database alone.
LEMMA ReadingKeepsWriteInv ==
  ASSUME TypeOK, TypeOK', WriteInv, Selected', NEW r \in Requests,
         owner[sess[r]] # "absent", OnlyMoves(r), UNCHANGED <<messages, events, world, saved>>,
         Live(sess[r]) => Stored(r)' /\ CopyKnown(r)',
         pc'[r] \in {"ran", "asked"} /\ outcome'[r] # "interp" => r \in copy'[r].turns
  PROVE  WriteInv'
<1>1. OwnRowGrows(r)
  BY DEF OwnRowGrows, SameRow
<1>2. Live(sess[r]) => Ordered(sess[r])'
  BY DEF WriteInv, Ordered, OnlyMoves, TypeOK
<1>. QED
  BY <1>1, <1>2, HandlerKeepsWriteInv

\* The turn a failed load, a refusal or an error leaves behind stored nothing.
LEMMA RestingStores ==
  ASSUME NEW r \in Requests, pc'[r] \notin Asked
  PROVE  Stored(r)'
BY DEF Stored, Written, Answering, Asked

LEMMA EmptyCopyKnown ==
  ASSUME NEW r \in Requests, copy'[r] = EmptyWorld
  PROVE  CopyKnown(r)'
BY DEF CopyKnown, EmptyWorld

\* Appending an entry of r to r's Journey.
LEMMA AppendGrows ==
  ASSUME TypeOK, NEW r \in Requests, NEW e \in Entry,
         messages' = [messages EXCEPT ![sess[r]] = Append(@, e)]
  PROVE  /\ \A s \in Sessions \ {sess[r]} : messages'[s] = messages[s]
         /\ Entries(messages'[sess[r]]) = Entries(messages[sess[r]]) \cup {e}
         /\ messages'[sess[r]] = Append(messages[sess[r]], e)
BY AppendEntry DEF TypeOK

\* Each handler keeps the write order, step by step.
LEMMA HandlersKeepWriteInv ==
  ASSUME TypeOK, TypeOK', AbsentUntouched, WriteInv, Selected', NEW r \in Requests,
         RequireOwnedSession(r) \/ Turn(r) \/ Tier2(r)
  PROVE  WriteInv'
<1> USE DEF dbVars, reqVars, adminVars, history, Goto, Asked, Written, Answering
<1>1. /\ sess[r] \in Sessions
      /\ pc \in [Requests -> Stages] /\ copy \in [Requests -> WorldState]
      /\ outcome \in [Requests -> Outcomes \cup {"none"}]
      /\ Live(sess[r]) => Ordered(sess[r]) /\ Stored(r) /\ CopyKnown(r)
      /\ pc[r] # "idle" => owner[sess[r]] # "absent"
  BY DEF TypeOK, WriteInv, AbsentUntouched
<1>2. CASE RequireOwnedSession(r)
  <2>1. /\ OnlyMoves(r) /\ UNCHANGED <<messages, events, world, saved, copy, outcome>>
        /\ pc[r] = "idle" /\ pc'[r] \in {"owned", "refused"}
        /\ owner[sess[r]] # "absent"
    BY <1>1, <1>2 DEF RequireOwnedSession, OnlyMoves
  <2>2. Live(sess[r]) => Stored(r)' /\ CopyKnown(r)'
    BY <1>1, <2>1, RestingStores DEF CopyKnown, OnlyMoves
  <2>. QED
    BY <2>1, <2>2, ReadingKeepsWriteInv
<1>3. CASE Admit(r)
  <2>1. /\ OnlyMoves(r) /\ UNCHANGED <<messages, events, world, saved, copy, outcome>>
        /\ pc[r] = "owned" /\ pc'[r] \in {"admitted", "refused"}
    BY <1>1, <1>3 DEF Admit, OnlyMoves
  <2>2. Live(sess[r]) => Stored(r)' /\ CopyKnown(r)'
    BY <1>1, <2>1, RestingStores DEF CopyKnown, OnlyMoves
  <2>. QED
    BY <1>1, <2>1, <2>2, ReadingKeepsWriteInv
<1>4. CASE LoadState(r)
  <2>1. /\ OnlyMoves(r) /\ UNCHANGED <<messages, events, world, saved, outcome>>
        /\ pc[r] = "admitted" /\ pc'[r] \in {"loaded", "failed"}
        /\ Live(sess[r]) => copy'[r] = world[sess[r]]
    BY <1>1, <1>4 DEF LoadState, OnlyMoves
  <2>2. world[sess[r]].turns \in SUBSET Requests
    BY <1>1, WorldStateTypes DEF TypeOK
  <2>3. Live(sess[r]) => Stored(r)' /\ CopyKnown(r)'
    BY <1>1, <2>1, <2>2, RestingStores DEF CopyKnown, Ordered, OnlyMoves
  <2>. QED
    BY <1>1, <2>1, <2>3, ReadingKeepsWriteInv
<1>5. CASE RunTurn(r)
  <2>1. /\ OnlyMoves(r) /\ UNCHANGED <<messages, events, world, saved>>
        /\ pc[r] = "loaded" /\ pc'[r] \in {"ran", "failed"}
    BY <1>1, <1>5 DEF RunTurn, OnlyMoves
  <2>2. \/ /\ pc'[r] = "ran"
           /\ copy'[r] = Integrate(copy[r], r, outcome'[r])
        \/ pc'[r] = "failed" /\ copy'[r] = EmptyWorld
    BY <1>1, <1>5 DEF RunTurn
  <2>3. CASE pc'[r] = "ran"
    <3>1. copy'[r].turns = IF outcome'[r] = "interp" THEN copy[r].turns ELSE copy[r].turns \cup {r}
      BY <1>1, <2>2, <2>3 DEF Integrate, WorldState
    <3>2. Live(sess[r]) => Stored(r)' /\ CopyKnown(r)'
      BY <1>1, <2>1, <2>3, <3>1, RestingStores DEF CopyKnown, OnlyMoves
    <3>. QED
      BY <1>1, <2>1, <3>1, <3>2, ReadingKeepsWriteInv
  <2>4. CASE pc'[r] = "failed"
    BY <1>1, <2>1, <2>2, <2>4, RestingStores, EmptyCopyKnown, ReadingKeepsWriteInv
  <2>. QED
    BY <2>1, <2>3, <2>4
<1>6. CASE AppendUserMessage(r)
  <2>1. /\ OnlyMoves(r) /\ UNCHANGED <<events, world, saved, copy, outcome>>
        /\ pc[r] = "ran" /\ pc'[r] = "asked"
    BY <1>1, <1>6 DEF AppendUserMessage, OnlyMoves
  <2>2. /\ \A s \in Sessions \ {sess[r]} : messages'[s] = messages[s]
        /\ Entries(messages'[sess[r]]) = Entries(messages[sess[r]]) \cup {Question(r)}
    BY <1>6, AppendGrows, EntryTypes DEF AppendUserMessage
  <2>3. OwnRowGrows(r)
    BY <2>1, <2>2 DEF OwnRowGrows, SameRow
  <2>4. sess'[r] = sess[r]
    BY <2>1 DEF OnlyMoves
  <2>5. Live(sess[r]) => Ordered(sess[r])'
    BY <1>1, <2>1, <2>2, <2>4, EntriesDiffer DEF Ordered
  <2>6. Live(sess[r]) => Stored(r)'
    BY <1>1, <2>1, <2>2, <2>4 DEF Stored
  <2>7. Live(sess[r]) => CopyKnown(r)'
    BY <1>1, <2>1, <2>2, <2>4 DEF CopyKnown
  <2>8. outcome'[r] # "interp" => r \in copy'[r].turns
    BY <2>1 DEF WriteInv
  <2>. QED
    BY <1>1, <2>1, <2>3, <2>5, <2>6, <2>7, <2>8, HandlerKeepsWriteInv
<1>7. CASE SaveTurnResult(r)
  <2>1. /\ OnlyMoves(r) /\ UNCHANGED <<messages, events, outcome>>
        /\ pc[r] = "asked" /\ pc'[r] = "saved" /\ copy'[r] = EmptyWorld
    BY <1>1, <1>7 DEF SaveTurnResult, OnlyMoves
  <2>2. /\ \A s \in Sessions \ {sess[r]} : world'[s] = world[s] /\ saved'[s] = saved[s]
        /\ saved[sess[r]] \subseteq saved'[sess[r]]
        /\ Live(sess[r]) => /\ world'[sess[r]] = copy[r]
                            /\ saved'[sess[r]] = saved[sess[r]] \cup (copy[r].turns \cap {r})
    BY <1>1, <1>7 DEF SaveTurnResult, TypeOK
  <2>3. OwnRowGrows(r)
    BY <1>1, <2>1, <2>2 DEF OwnRowGrows, SameRow
  <2>4. sess'[r] = sess[r]
    BY <2>1 DEF OnlyMoves
  <2>5. Live(sess[r]) => \A t \in copy[r].turns : Question(t) \in Entries(messages[sess[r]])
    BY <1>1, <2>1 DEF CopyKnown
  <2>6. Live(sess[r]) => Ordered(sess[r])'
    BY <1>1, <2>1, <2>2, <2>4, <2>5 DEF Ordered
  <2>7. outcome[r] # "interp" => r \in copy[r].turns
    BY <2>1 DEF WriteInv
  <2>8. Live(sess[r]) => Stored(r)'
    BY <1>1, <2>1, <2>2, <2>4, <2>7 DEF Stored
  <2>. QED
    BY <1>1, <2>1, <2>3, <2>6, <2>8, EmptyCopyKnown, HandlerKeepsWriteInv
<1>8. CASE SaveEvents(r)
  <2>1. /\ OnlyMoves(r) /\ UNCHANGED <<messages, world, saved, copy, outcome>>
        /\ pc[r] = "saved" /\ pc'[r] = "recorded"
    BY <1>1, <1>8 DEF SaveEvents, OnlyMoves
  <2>2. /\ \A s \in Sessions \ {sess[r]} : events'[s] = events[s]
        /\ \A t \in events'[sess[r]] : t \in events[sess[r]] \/ (t = r /\ outcome[r] # "interp")
    BY <1>1, <1>8 DEF SaveEvents, TypeOK
  <2>3. OwnRowGrows(r)
    BY <1>1, <2>1, <2>2 DEF OwnRowGrows, SameRow
  <2>4. sess'[r] = sess[r]
    BY <2>1 DEF OnlyMoves
  <2>5. Live(sess[r]) => Ordered(sess[r])'
    BY <1>1, <2>1, <2>2, <2>4 DEF Ordered, Stored
  <2>6. Live(sess[r]) => Stored(r)' /\ CopyKnown(r)'
    BY <1>1, <2>1, <2>4 DEF Stored, CopyKnown
  <2>. QED
    BY <1>1, <2>1, <2>3, <2>5, <2>6, HandlerKeepsWriteInv
<1>9. CASE Respond(r)
  <2>1. /\ OnlyMoves(r) /\ UNCHANGED <<events, world, saved, copy, outcome>>
        /\ pc[r] = "recorded" /\ pc'[r] = "replied"
    BY <1>1, <1>9 DEF Respond, OnlyMoves
  <2>2. /\ \A s \in Sessions \ {sess[r]} : messages'[s] = messages[s]
        /\ Entries(messages'[sess[r]]) =
             Entries(messages[sess[r]]) \cup (IF outcome[r] = "answered" THEN {Answer(r)} ELSE {})
    BY <1>9, AppendGrows, EntryTypes DEF Respond
  <2>3. OwnRowGrows(r)
    BY <2>1, <2>2 DEF OwnRowGrows, SameRow
  <2>4. sess'[r] = sess[r]
    BY <2>1 DEF OnlyMoves
  <2>5. Live(sess[r]) => Ordered(sess[r])'
    BY <1>1, <2>1, <2>2, <2>4, EntriesDiffer DEF Ordered, Stored
  <2>6. Live(sess[r]) => Stored(r)'
    BY <1>1, <2>1, <2>2, <2>4 DEF Stored
  <2>7. Live(sess[r]) => CopyKnown(r)'
    BY <1>1, <2>1, <2>2, <2>4 DEF CopyKnown
  <2>. QED
    BY <1>1, <2>1, <2>3, <2>5, <2>6, <2>7, HandlerKeepsWriteInv
<1>10. CASE LoadForTier2(r)
  <2>1. /\ OnlyMoves(r) /\ UNCHANGED <<messages, events, world, saved, outcome>>
        /\ pc[r] = "replied" /\ pc'[r] \in {"understanding", "done"}
        /\ Live(sess[r]) => copy'[r] = world[sess[r]]
    BY <1>1, <1>10 DEF LoadForTier2, OnlyMoves
  <2>2. world[sess[r]].turns \in SUBSET Requests
    BY <1>1, WorldStateTypes DEF TypeOK
  <2>3. sess'[r] = sess[r]
    BY <2>1 DEF OnlyMoves
  <2>4. Live(sess[r]) => Stored(r)' /\ CopyKnown(r)'
    BY <1>1, <2>1, <2>2, <2>3 DEF Stored, CopyKnown, Ordered
  <2>. QED
    BY <1>1, <2>1, <2>4, ReadingKeepsWriteInv
<1>11. CASE SaveTier2Result(r)
  <2>1. /\ OnlyMoves(r) /\ UNCHANGED <<messages, events, saved, outcome>>
        /\ pc[r] = "understanding" /\ pc'[r] = "done" /\ copy'[r] = EmptyWorld
    BY <1>1, <1>11 DEF SaveTier2Result, OnlyMoves
  <2>2. PICK S \in {copy[r].turns, copy[r].seen} :
          world' = IF Live(sess[r]) THEN [world EXCEPT ![sess[r]] = [copy[r] EXCEPT !.seen = S]]
                                    ELSE world
    BY <1>11 DEF SaveTier2Result
  <2>3. [copy[r] EXCEPT !.seen = S].turns = copy[r].turns
    BY <1>1 DEF WorldState
  <2>4. /\ \A s \in Sessions \ {sess[r]} : world'[s] = world[s]
        /\ Live(sess[r]) => world'[sess[r]].turns = copy[r].turns
    BY <1>1, <2>2, <2>3 DEF TypeOK
  <2>5. OwnRowGrows(r)
    BY <1>1, <2>1, <2>4 DEF OwnRowGrows, SameRow
  <2>6. sess'[r] = sess[r]
    BY <2>1 DEF OnlyMoves
  <2>7. Live(sess[r]) => Ordered(sess[r])'
    BY <1>1, <2>1, <2>4, <2>6 DEF Ordered, CopyKnown
  <2>8. Live(sess[r]) => Stored(r)'
    BY <1>1, <2>1, <2>6 DEF Stored
  <2>. QED
    BY <1>1, <2>1, <2>5, <2>7, <2>8, EmptyCopyKnown, HandlerKeepsWriteInv
<1>. QED
  BY <1>2, <1>3, <1>4, <1>5, <1>6, <1>7, <1>8, <1>9, <1>10, <1>11 DEF Turn, Tier2

LEMMA WriteInvInit == Init => WriteInv
BY StatusAssumption DEF Init, WriteInv, Fresh, Selected, Ordered, Stored, CopyKnown, Live,
  EmptyWorld, Asked, Written, Answering

LEMMA WriteInvStep ==
  TypeOK /\ TypeOK' /\ AbsentUntouched /\ DeleteStillAuthorised /\ WriteInv /\ [Next]_vars
    => WriteInv'
<1> SUFFICES ASSUME TypeOK, TypeOK', AbsentUntouched, DeleteStillAuthorised, WriteInv, [Next]_vars
             PROVE  WriteInv'
  OBVIOUS
<1>1. Selected'
  BY SelectedStep DEF WriteInv
<1>2. ASSUME NEW r \in Requests, RequireOwnedSession(r) \/ Turn(r) \/ Tier2(r)
      PROVE  WriteInv'
  BY <1>1, <1>2, HandlersKeepWriteInv
<1>3. CASE Administer \/ UNCHANGED vars
  <2>1. /\ UNCHANGED reqVars /\ saved' = saved
        /\ \A s \in Sessions : RowOrNothing(s) /\ Survives(s)
    BY <1>3, SurvivorsKeep DEF WriteInv
  <2>2. Fresh'
    BY <2>1 DEF WriteInv, Fresh, RowOrNothing, EmptyWorld, reqVars
  <2>3. ASSUME NEW s \in Sessions, Live(s)'
        PROVE  Ordered(s)' /\ \A r \in Requests : sess[r] = s => Stored(r)' /\ CopyKnown(r)'
    <3>1. CASE Live(s)
      <4>1. SameRow(s)
        BY <2>1, <2>3 DEF Survives
      <4>2. Ordered(s) /\ \A r \in Requests : sess[r] = s => Stored(r) /\ CopyKnown(r)
        BY <3>1 DEF WriteInv
      <4>. QED
        BY <2>1, <4>1, <4>2 DEF Ordered, Stored, CopyKnown, SameRow, reqVars
    <3>2. CASE owner[s] = "absent"
      <4>1. SameRow(s)
        BY <2>1, <2>3 DEF Survives
      <4>2. /\ messages[s] = <<>> /\ world[s].turns = {} /\ saved[s] = {} /\ events[s] = {}
            /\ \A r \in Requests : sess[r] = s => pc[r] = "idle" /\ copy[r].turns = {}
        BY <3>2 DEF WriteInv, Fresh, AbsentUntouched
      <4>3. Entries(messages[s]) = {}
        BY <4>2 DEF Entries
      <4>4. Ordered(s)'
        BY <2>1, <4>1, <4>2, <4>3 DEF Ordered, SameRow
      <4>. QED
        BY <2>1, <4>1, <4>2, <4>4
           DEF Stored, CopyKnown, SameRow, reqVars, Asked, Written, Answering
    <3>. QED
      BY <2>1, <2>3, <3>1, <3>2 DEF Survives
  <2>4. \A r \in Requests : Live(sess[r])' => Stored(r)' /\ CopyKnown(r)'
    BY <2>1, <2>3 DEF reqVars, TypeOK
  <2>5. \A r \in Requests :
          pc'[r] \in {"ran", "asked"} /\ outcome'[r] # "interp" => r \in copy'[r].turns
    BY <2>1 DEF WriteInv, reqVars
  <2>. QED
    BY <1>1, <2>2, <2>3, <2>4, <2>5 DEF WriteInv
<1>4. CASE Crash
  <2>1. UNCHANGED <<owner, messages, events, world, saved, sess, outcome>>
    BY <1>4 DEF Crash, dbVars, history
  <2>2. \A r \in Requests :
          /\ copy'[r] = EmptyWorld
          /\ pc'[r] = pc[r] \/ pc'[r] = "lost"
          /\ pc[r] \in {"ran", "asked"} => pc'[r] = "lost"
    BY <1>4 DEF Crash, TypeOK
  <2>3. \A s \in Sessions : Live(s)' => Live(s) /\ Ordered(s)'
    BY <2>1 DEF WriteInv, Ordered, Live
  <2>4. \A r \in Requests : Live(sess[r])' => Stored(r)' /\ CopyKnown(r)'
    <3> SUFFICES ASSUME NEW r \in Requests, Live(sess[r])'
                 PROVE  Stored(r)' /\ CopyKnown(r)'
      OBVIOUS
    <3>1. Stored(r)
      BY <2>1, <2>3 DEF WriteInv, TypeOK
    <3>2. Stored(r)'
      BY <2>1, <2>2, <3>1 DEF Stored, Asked, Written, Answering
    <3>. QED
      BY <2>2, <3>2, EmptyCopyKnown
  <2>5. Fresh'
    BY <2>1, <2>2 DEF WriteInv, Fresh, EmptyWorld
  <2>6. \A r \in Requests :
          pc'[r] \in {"ran", "asked"} /\ outcome'[r] # "interp" => r \in copy'[r].turns
    BY <2>2
  <2>. QED
    BY <1>1, <2>3, <2>4, <2>5, <2>6 DEF WriteInv
<1>. QED
  BY <1>2, <1>3, <1>4 DEF Next

LEMMA WriteInvAlways == SafetySpec => [](AbsentUntouched /\ WriteInv)
<1>1. Init => OwnerInv /\ WriteInv
  BY OwnerInvInit, WriteInvInit
<1>2. TypeOK /\ TypeOK' /\ DeleteStillAuthorised /\ OwnerInv /\ WriteInv /\ [Next]_vars
        => OwnerInv' /\ WriteInv'
  BY OwnerInvStep, WriteInvStep DEF OwnerInv
<1>3. OwnerInv => AbsentUntouched
  BY DEF OwnerInv
<1>. QED
  BY <1>1, <1>2, <1>3, TypeCorrect, DeleteAuthorised, PTL DEF SafetySpec

\* Wherever a handler is cut off, by a restart or by a delete, it leaves a
\* prefix of question, turn, events, answer in a Journey that still exists.
THEOREM PrefixWritten == SafetySpec => []WriteOrder
<1>1. WriteInv => WriteOrder
  BY DEF WriteInv, WriteOrder, Ordered
<1>. QED
  BY <1>1, WriteInvAlways, PTL

-----------------------------------------------------------------------------
(* What becomes of a turn in the WorldState.                               *)

\* The handlers and Tier2 tasks that hold a copy of their Journey's document.
Holding == {"loaded", "ran", "asked", "understanding"}

\* A turn nobody crossed is in the stored document, and in every copy of it.
KeptUncrossed ==
  \A s \in Sessions : Live(s) =>
    \A t \in saved[s] \ crossed :
      /\ t \in world[s].turns
      /\ \A q \in Requests : sess[q] = s /\ pc[q] \in Holding => t \in copy[q].turns

\* What one handler must see to for KeptUncrossed to survive its step.
LEMMA HandlerKeepsUncrossed ==
  ASSUME TypeOK, KeptUncrossed, NEW r \in Requests, OnlyMoves(r), crossed \subseteq crossed',
         \A s \in Sessions \ {sess[r]} : world'[s] = world[s] /\ saved'[s] = saved[s],
         Live(sess[r]) => \A t \in saved'[sess[r]] \ crossed' :
           /\ t \in world'[sess[r]].turns
           /\ pc'[r] \in Holding => t \in copy'[r].turns
           /\ \A q \in Requests \ {r} :
                sess[q] = sess[r] /\ pc[q] \in Holding => t \in saved[sess[r]]
  PROVE  KeptUncrossed'
<1>1. /\ \A s \in Sessions : Live(s)' <=> Live(s)
      /\ sess[r] \in Sessions /\ sess' = sess
  BY DEF OnlyMoves, Live, TypeOK
<1> SUFFICES ASSUME NEW s \in Sessions, Live(s), NEW t \in saved'[s] \ crossed'
             PROVE  /\ t \in world'[s].turns
                    /\ \A q \in Requests : sess[q] = s /\ pc'[q] \in Holding => t \in copy'[q].turns
  BY <1>1 DEF KeptUncrossed
<1>2. CASE s # sess[r]
  <2>1. t \in saved[s] \ crossed /\ world'[s] = world[s]
    BY <1>2
  <2>2. \A q \in Requests : sess[q] = s => pc'[q] = pc[q] /\ copy'[q] = copy[q]
    BY <1>2 DEF OnlyMoves
  <2>. QED
    BY <2>1, <2>2 DEF KeptUncrossed
<1>3. CASE s = sess[r]
  <2>1. t \in world'[s].turns
    BY <1>3
  <2>2. ASSUME NEW q \in Requests, sess[q] = s, pc'[q] \in Holding
        PROVE  t \in copy'[q].turns
    <3>1. CASE q = r
      BY <1>3, <2>2, <3>1
    <3>2. CASE q # r
      <4>1. pc'[q] = pc[q] /\ copy'[q] = copy[q]
        BY <3>2 DEF OnlyMoves
      <4>2. t \in saved[s] \ crossed
        BY <1>3, <2>2, <3>2, <4>1
      <4>. QED
        BY <2>2, <4>1, <4>2 DEF KeptUncrossed
    <3>. QED
      BY <3>1, <3>2
  <2>. QED
    BY <2>1, <2>2
<1>. QED
  BY <1>2, <1>3

\* Handlers: a load takes the stored document, a save writes a copy that has
\* all the uncrossed turns, and the turn it adds is uncrossed only if nobody
\* else holds a copy.
LEMMA HandlersKeepUncrossed ==
  ASSUME TypeOK, KeptUncrossed, NEW r \in Requests, RequireOwnedSession(r) \/ Turn(r) \/ Tier2(r)
  PROVE  KeptUncrossed'
<1> USE DEF dbVars, reqVars, adminVars, history, Goto, Holding
<1>1. /\ sess[r] \in Sessions
      /\ pc \in [Requests -> Stages] /\ copy \in [Requests -> WorldState]
      /\ world \in [Sessions -> WorldState] /\ saved \in [Sessions -> SUBSET Requests]
      /\ outcome \in [Requests -> Outcomes \cup {"none"}]
      /\ Live(sess[r]) => \A t \in saved[sess[r]] \ crossed :
           t \in world[sess[r]].turns /\ (pc[r] \in Holding => t \in copy[r].turns)
  BY DEF TypeOK, KeptUncrossed
<1>2. ASSUME OnlyMoves(r), UNCHANGED <<world, saved, crossed>>,
             Live(sess[r]) /\ pc'[r] \in Holding =>
               \/ pc[r] \in Holding /\ copy[r].turns \subseteq copy'[r].turns
               \/ copy'[r] = world[sess[r]]
      PROVE  KeptUncrossed'
  BY <1>1, <1>2, HandlerKeepsUncrossed
<1>3. CASE RequireOwnedSession(r) \/ Admit(r) \/ SaveEvents(r) \/ Respond(r)
  <2>1. OnlyMoves(r) /\ UNCHANGED <<world, saved, crossed>> /\ pc'[r] \notin Holding
    BY <1>1, <1>3 DEF RequireOwnedSession, Admit, SaveEvents, Respond, OnlyMoves
  <2>. QED
    BY <1>2, <2>1
<1>4. CASE LoadState(r) \/ LoadForTier2(r)
  <2>1. /\ OnlyMoves(r) /\ UNCHANGED <<world, saved, crossed>>
        /\ pc'[r] \in Holding => copy'[r] = world[sess[r]]
    BY <1>1, <1>4 DEF LoadState, LoadForTier2, OnlyMoves
  <2>. QED
    BY <1>2, <2>1
<1>5. CASE RunTurn(r)
  <2>1. OnlyMoves(r) /\ UNCHANGED <<world, saved, crossed>> /\ pc[r] = "loaded" /\ pc'[r] \in {"ran", "failed"}
    BY <1>1, <1>5 DEF RunTurn, OnlyMoves
  <2>2. pc'[r] = "ran" => copy'[r] = Integrate(copy[r], r, outcome'[r])
    BY <1>1, <1>5 DEF RunTurn
  <2>3. pc'[r] = "ran" => copy[r].turns \subseteq copy'[r].turns
    BY <1>1, <2>2 DEF Integrate, WorldState
  <2>. QED
    BY <1>2, <2>1, <2>3
<1>6. CASE AppendUserMessage(r)
  <2>1. OnlyMoves(r) /\ UNCHANGED <<world, saved, crossed, copy>> /\ pc[r] = "ran"
    BY <1>1, <1>6 DEF AppendUserMessage, OnlyMoves
  <2>. QED
    BY <1>2, <2>1
<1>7. CASE SaveTurnResult(r)
  <2>1. OnlyMoves(r) /\ pc[r] = "asked" /\ pc'[r] = "saved"
    BY <1>1, <1>7 DEF SaveTurnResult, OnlyMoves
  <2>2. /\ \A s \in Sessions \ {sess[r]} : world'[s] = world[s] /\ saved'[s] = saved[s]
        /\ Live(sess[r]) => /\ world'[sess[r]] = copy[r]
                            /\ saved'[sess[r]] = saved[sess[r]] \cup (copy[r].turns \cap {r})
    BY <1>1, <1>7 DEF SaveTurnResult
  <2>3. /\ crossed \subseteq crossed'
        /\ Live(sess[r]) /\ r \notin crossed' => ~CopyHeldElsewhere(r)
    BY <1>7 DEF SaveTurnResult, CrossedWith
  <2>4. ASSUME Live(sess[r]), NEW t \in saved'[sess[r]] \ crossed', NEW q \in Requests \ {r},
               sess[q] = sess[r], pc[q] \in Holding
        PROVE  t \in saved[sess[r]]
    BY <2>2, <2>3, <2>4 DEF CopyHeldElsewhere
  <2>5. ASSUME Live(sess[r]), NEW t \in saved'[sess[r]] \ crossed'
        PROVE  t \in world'[sess[r]].turns
    BY <1>1, <2>1, <2>2, <2>3, <2>5
  <2>6. pc'[r] \notin Holding
    BY <2>1
  <2>. QED
    BY <2>1, <2>2, <2>3, <2>4, <2>5, <2>6, HandlerKeepsUncrossed
<1>8. CASE SaveTier2Result(r)
  <2>1. OnlyMoves(r) /\ UNCHANGED <<saved, crossed>> /\ pc[r] = "understanding" /\ pc'[r] = "done"
    BY <1>1, <1>8 DEF SaveTier2Result, OnlyMoves
  <2>2. PICK S \in {copy[r].turns, copy[r].seen} :
          world' = IF Live(sess[r]) THEN [world EXCEPT ![sess[r]] = [copy[r] EXCEPT !.seen = S]]
                                    ELSE world
    BY <1>8 DEF SaveTier2Result
  <2>3. [copy[r] EXCEPT !.seen = S].turns = copy[r].turns
    BY <1>1 DEF WorldState
  <2>4. /\ \A s \in Sessions \ {sess[r]} : world'[s] = world[s]
        /\ Live(sess[r]) => world'[sess[r]].turns = copy[r].turns
    BY <1>1, <2>2, <2>3
  <2>. QED
    BY <1>1, <2>1, <2>4, HandlerKeepsUncrossed
<1>. QED
  BY <1>3, <1>4, <1>5, <1>6, <1>7, <1>8 DEF Turn, Tier2

LEMMA KeptUncrossedStep ==
  TypeOK /\ DeleteStillAuthorised /\ WriteInv /\ KeptUncrossed /\ [Next]_vars => KeptUncrossed'
<1> SUFFICES ASSUME TypeOK, DeleteStillAuthorised, WriteInv, KeptUncrossed, [Next]_vars
             PROVE  KeptUncrossed'
  OBVIOUS
<1>1. CASE Administer \/ UNCHANGED vars
  <2>1. /\ UNCHANGED reqVars /\ UNCHANGED <<saved, crossed>>
        /\ \A s \in Sessions : Survives(s)
    BY <1>1, SurvivorsKeep DEF WriteInv
  <2>2. \A s \in Sessions : Live(s)' => saved[s] = {} \/ (Live(s) /\ world'[s] = world[s])
    BY <2>1 DEF Survives, SameRow, WriteInv, Fresh
  <2>. QED
    BY <2>1, <2>2 DEF KeptUncrossed, reqVars
<1>2. CASE Crash
  <2>1. UNCHANGED <<owner, world, saved, crossed, sess>>
    BY <1>2 DEF Crash, dbVars, history
  <2>2. \A q \in Requests : pc'[q] \notin Holding
    BY <1>2 DEF Crash, TypeOK, Holding
  <2>. QED
    BY <2>1, <2>2 DEF KeptUncrossed, Live
<1>. QED
  BY <1>1, <1>2, HandlersKeepUncrossed DEF Next

LEMMA KeptUncrossedAlways == SafetySpec => []KeptUncrossed
<1>1. Init => KeptUncrossed
  BY DEF Init, KeptUncrossed
<1>. QED
  BY <1>1, KeptUncrossedStep, TypeCorrect, DeleteAuthorised, WriteInvAlways, PTL DEF SafetySpec

\* Once the client has been answered, question and answer stay in the database
\* until the Journey is deleted, and so does the turn in the WorldState, unless
\* somebody held a copy of that document when it was saved; a restart takes
\* nothing away.
THEOREM ReplyStays == SafetySpec => []ReplyIsDurable
<1>1. TypeOK /\ WriteInv /\ KeptUncrossed => ReplyIsDurable
  <2> SUFFICES ASSUME TypeOK, WriteInv, KeptUncrossed, NEW r \in Requests, pc[r] \in Answering,
                      Live(sess[r])
               PROVE  /\ Question(r) \in Entries(messages[sess[r]])
                      /\ outcome[r] # "interp" => r \in crossed \/ r \in world[sess[r]].turns
                      /\ outcome[r] = "answered" => Answer(r) \in Entries(messages[sess[r]])
    BY DEF ReplyIsDurable, Answering
  <2>1. sess[r] \in Sessions /\ Stored(r)
    BY DEF TypeOK, WriteInv
  <2>2. r \in saved[sess[r]] /\ r \notin crossed => r \in world[sess[r]].turns
    BY <2>1 DEF KeptUncrossed
  <2>. QED
    BY <2>1, <2>2 DEF Stored, Asked, Written, Answering
<1>. QED
  BY <1>1, TypeCorrect, WriteInvAlways, KeptUncrossedAlways, PTL

-----------------------------------------------------------------------------
(* Journey implements Transcript.                                          *)

LEMMA SpokenInit == Init => Spoken
BY DEF Init, Spoken, Entries

\* No handler goes back behind what it has said.
LEMMA SpokenStep ==
  TypeOK /\ DeleteStillAuthorised /\ Selected /\ Spoken /\ [Next]_vars => Spoken'
<1> SUFFICES ASSUME TypeOK, DeleteStillAuthorised, Selected, Spoken, [Next]_vars
             PROVE  Spoken'
  OBVIOUS
<1> USE DEF dbVars, reqVars, adminVars, history, Goto, Asked, Answering
<1>1. CASE Administer \/ UNCHANGED vars
  <2>1. UNCHANGED reqVars /\ \A s \in Sessions : RowOrNothing(s)
    BY <1>1, SurvivorsKeep
  <2>2. \A s \in Sessions : Entries(messages'[s]) \subseteq Entries(messages[s])
    BY <2>1 DEF RowOrNothing, Entries
  <2>. QED
    BY <2>1, <2>2 DEF Spoken
<1>2. ASSUME messages' = messages, sess' = sess,
             \A p \in Requests :
               /\ pc[p] \in Asked => pc'[p] \in Asked \cup {"lost"}
               /\ pc[p] \in Answering => pc'[p] \in Answering \cup {"lost"}
               /\ pc[p] = "lost" => pc'[p] = "lost"
      PROVE  Spoken'
  BY <1>2 DEF Spoken
<1>3. CASE Crash
  <2>1. messages' = messages /\ sess' = sess
    BY <1>3 DEF Crash
  <2>2. \A p \in Requests : pc'[p] = pc[p] \/ pc'[p] = "lost"
    BY <1>3 DEF Crash, TypeOK
  <2>. QED
    BY <1>2, <2>1, <2>2
<1>4. ASSUME NEW r \in Requests,
             RequireOwnedSession(r) \/ Admit(r) \/ LoadState(r) \/ RunTurn(r) \/ SaveTurnResult(r)
             \/ SaveEvents(r) \/ Tier2(r)
      PROVE  Spoken'
  <2>1. messages' = messages /\ sess' = sess
    BY <1>4 DEF RequireOwnedSession, Admit, LoadState, RunTurn, SaveTurnResult, SaveEvents,
                Tier2, LoadForTier2, SaveTier2Result
  <2>2. \A p \in Requests :
               /\ pc[p] \in Asked => pc'[p] \in Asked \cup {"lost"}
               /\ pc[p] \in Answering => pc'[p] \in Answering \cup {"lost"}
               /\ pc[p] = "lost" => pc'[p] = "lost"
    BY <1>4 DEF RequireOwnedSession, Admit, LoadState, RunTurn, SaveTurnResult, SaveEvents,
                Tier2, LoadForTier2, SaveTier2Result, TypeOK
  <2>. QED
    BY <1>2, <2>1, <2>2
<1>5. ASSUME NEW r \in Requests, NEW e \in Entry,
             messages' = [messages EXCEPT ![sess[r]] = Append(@, e)], sess' = sess,
             \/ e = Question(r) /\ pc'[r] \in Asked
             \/ e = Answer(r) /\ pc'[r] \in Answering,
             pc[r] \in {"ran", "recorded"}, pc[r] = "recorded" => pc'[r] \in Asked,
             \A p \in Requests \ {r} : pc'[p] = pc[p]
      PROVE  Spoken'
  <2>1. /\ \A s \in Sessions \ {sess[r]} : messages'[s] = messages[s]
        /\ Entries(messages'[sess[r]]) = Entries(messages[sess[r]]) \cup {e}
    BY <1>5, AppendGrows
  <2>2. \A s \in Sessions, x \in Entry :
          x \in Entries(messages'[s]) => x \in Entries(messages[s]) \/ (s = sess[r] /\ x = e)
    BY <2>1
  <2>3. \A p \in Requests :
          /\ pc[p] \in Asked \cup {"lost"} => pc'[p] \in Asked \cup {"lost"}
          /\ pc[p] \in Answering \cup {"lost"} => pc'[p] \in Answering \cup {"lost"}
    BY <1>5
  <2> SUFFICES ASSUME NEW s \in Sessions, NEW p \in Requests
               PROVE  /\ Question(p) \in Entries(messages'[s])
                           => sess[p] = s /\ pc'[p] \in Asked \cup {"lost"}
                      /\ Answer(p) \in Entries(messages'[s])
                           => sess[p] = s /\ pc'[p] \in Answering \cup {"lost"}
    BY <1>5 DEF Spoken
  <2>4. ASSUME Question(p) \in Entries(messages'[s])
        PROVE  sess[p] = s /\ pc'[p] \in Asked \cup {"lost"}
    <3>1. CASE Question(p) \in Entries(messages[s])
      BY <2>3, <3>1 DEF Spoken
    <3>2. CASE s = sess[r] /\ Question(p) = e
      BY <1>5, <3>2, EntriesDiffer
    <3>. QED
      BY <2>2, <2>4, <3>1, <3>2, EntryTypes
  <2>5. ASSUME Answer(p) \in Entries(messages'[s])
        PROVE  sess[p] = s /\ pc'[p] \in Answering \cup {"lost"}
    <3>1. CASE Answer(p) \in Entries(messages[s])
      BY <2>3, <3>1 DEF Spoken
    <3>2. CASE s = sess[r] /\ Answer(p) = e
      BY <1>5, <3>2, EntriesDiffer
    <3>. QED
      BY <2>2, <2>5, <3>1, <3>2, EntryTypes
  <2>. QED
    BY <2>4, <2>5
<1>6. ASSUME NEW r \in Requests, AppendUserMessage(r)
      PROVE  Spoken'
  BY <1>5, <1>6, EntryTypes DEF AppendUserMessage, TypeOK
<1>7. ASSUME NEW r \in Requests, Respond(r)
      PROVE  Spoken'
  <2>1. CASE outcome[r] = "answered"
    BY <1>5, <1>7, <2>1, EntryTypes DEF Respond, TypeOK
  <2>2. CASE outcome[r] # "answered"
    BY <1>2, <1>7, <2>2 DEF Respond, TypeOK
  <2>. QED
    BY <2>1, <2>2
<1>. QED
  BY <1>1, <1>3, <1>4, <1>6, <1>7 DEF Next, Turn

\* The refinement mapping, state function by state function.
Phase(s) == IF Live(s) THEN "open" ELSE IF owner[s] = "absent" THEN "absent" ELSE "closed"

PhaseFn == [s \in Sessions |-> Phase(s)]
LogFn == [s \in Sessions |-> Visible(s)]

\* No step of a handler but the two appends shows in the transcript.
LEMMA Unseen ==
  ASSUME \A s \in Sessions : Phase(s)' = Phase(s) /\ Visible(s)' = Visible(s)
  PROVE  [Conversation!Next]_(Conversation!vars)
BY DEF Conversation!vars, Phase, Visible

LEMMA RowSeen ==
  ASSUME NEW s \in Sessions, owner'[s] = owner[s], messages'[s] = messages[s] \/ ~Live(s)
  PROVE  Phase(s)' = Phase(s) /\ Visible(s)' = Visible(s)
BY DEF Phase, Visible, Live

\* Appending to a Journey that is gone is not seen.
LEMMA DeadAppend ==
  ASSUME NEW r \in Requests, owner' = owner, ~Live(sess[r]),
         \A s \in Sessions \ {sess[r]} : messages'[s] = messages[s]
  PROVE  [Conversation!Next]_(Conversation!vars)
BY Unseen, RowSeen

LEMMA LiveAppend ==
  ASSUME TypeOK, NEW r \in Requests, owner' = owner, Live(sess[r]), NEW e,
         \A s \in Sessions \ {sess[r]} : messages'[s] = messages[s],
         messages'[sess[r]] = Append(messages[sess[r]], e)
  PROVE  /\ PhaseFn[sess[r]] = "open" /\ PhaseFn' = PhaseFn
         /\ LogFn[sess[r]] = messages[sess[r]]
         /\ LogFn' = [LogFn EXCEPT ![sess[r]] = Append(@, e)]
<1>1. sess[r] \in Sessions
  BY DEF TypeOK
<1>2. \A s \in Sessions : Live(s)' <=> Live(s)
  BY DEF Live
<1>3. PhaseFn[sess[r]] = "open" /\ PhaseFn' = PhaseFn
  BY <1>1, <1>2 DEF PhaseFn, Phase
<1>4. LogFn[sess[r]] = messages[sess[r]]
  BY <1>1 DEF LogFn, Visible
<1>5. \A s \in Sessions : Visible(s)' = IF s = sess[r] THEN Append(messages[s], e) ELSE Visible(s)
  BY <1>2 DEF Visible
<1>. QED
  BY <1>1, <1>3, <1>4, <1>5 DEF LogFn

LEMMA AskStep ==
  ASSUME TypeOK, Spoken, NEW r \in Requests, AppendUserMessage(r)
  PROVE  [Conversation!Next]_(Conversation!vars)
<1>1. /\ owner' = owner /\ pc[r] = "ran" /\ sess[r] \in Sessions
      /\ messages' = [messages EXCEPT ![sess[r]] = Append(@, Question(r))]
  BY DEF AppendUserMessage, Goto, TypeOK
<1>2. /\ \A s \in Sessions \ {sess[r]} : messages'[s] = messages[s]
      /\ messages'[sess[r]] = Append(messages[sess[r]], Question(r))
  BY <1>1, AppendGrows, EntryTypes
<1>3. CASE Live(sess[r])
  <2>1. \A t \in Sessions : Question(r) \notin Entries(LogFn[t])
    BY <1>1 DEF Spoken, LogFn, Visible, Entries, Asked
  <2>2. Conversation!PostQuestion(sess[r], r)
    BY <1>1, <1>2, <1>3, <2>1, LiveAppend
       DEF Conversation!PostQuestion, Conversation!Question, Conversation!Entries,
           PhaseFn, LogFn, Phase, Question, Entries
  <2>. QED
    BY <1>1, <2>2 DEF Conversation!Next
<1>4. CASE ~Live(sess[r])
  BY <1>1, <1>2, <1>4, DeadAppend
<1>. QED
  BY <1>3, <1>4

LEMMA AnswerStep ==
  ASSUME TypeOK, WriteInv, Spoken, NEW r \in Requests, Respond(r)
  PROVE  [Conversation!Next]_(Conversation!vars)
<1>1. owner' = owner /\ pc[r] = "recorded" /\ sess[r] \in Sessions
  BY DEF Respond, Goto, TypeOK
<1>2. CASE outcome[r] # "answered"
  <2>1. messages' = messages
    BY <1>2 DEF Respond
  <2>. QED
    BY <1>1, <2>1, Unseen, RowSeen
<1>3. CASE outcome[r] = "answered"
  <2>1. messages' = [messages EXCEPT ![sess[r]] = Append(@, Answer(r))]
    BY <1>3 DEF Respond
  <2>2. /\ \A s \in Sessions \ {sess[r]} : messages'[s] = messages[s]
        /\ messages'[sess[r]] = Append(messages[sess[r]], Answer(r))
    BY <2>1, AppendGrows, EntryTypes
  <2>3. CASE Live(sess[r])
    <3>1. /\ Question(r) \in Entries(LogFn[sess[r]])
          /\ Answer(r) \notin Entries(LogFn[sess[r]])
      BY <1>1, <2>3 DEF WriteInv, Stored, Spoken, LogFn, Visible, Asked, Answering
    <3>2. Conversation!PostAnswer(sess[r], r)
      BY <1>1, <2>2, <2>3, <3>1, LiveAppend
         DEF Conversation!PostAnswer, Conversation!Question, Conversation!Answer,
             Conversation!Entries, PhaseFn, LogFn, Phase, Question, Answer, Entries
    <3>. QED
      BY <1>1, <3>2 DEF Conversation!Next
  <2>4. CASE ~Live(sess[r])
    BY <1>1, <2>2, <2>4, DeadAppend
  <2>. QED
    BY <2>3, <2>4
<1>. QED
  BY <1>2, <1>3

\* A delete of one Journey and a reset of an account close what they delete.
LEMMA ForgetStep ==
  ASSUME TypeOK, NEW S \in SUBSET Sessions, NEW M \in SUBSET Sessions, Forget(S, M),
         \A s \in M : Live(s) => s \in S
  PROVE  [Conversation!Next]_(Conversation!vars)
<1>0. PICK C \in SUBSET Sessions : C = {s \in S : Live(s)}
  OBVIOUS
<1>1. \A s \in Sessions :
        /\ Live(s)' <=> Live(s) /\ s \notin C
        /\ Live(s)' => messages'[s] = messages[s]
        /\ owner'[s] = "absent" <=> owner[s] = "absent"
  BY <1>0, StatusAssumption, ForgetSpares DEF Forget, Live, Survives, SameRow, RowOrNothing, TypeOK
<1>2. \A s \in Sessions :
        /\ Phase(s)' = IF s \in C THEN "closed" ELSE Phase(s)
        /\ Visible(s)' = IF s \in C THEN <<>> ELSE Visible(s)
  BY <1>0, <1>1, StatusAssumption DEF Phase, Visible, Live
<1>3. CASE C = {}
  BY <1>2, <1>3, Unseen
<1>4. CASE C # {}
  <2>1. \A s \in C : PhaseFn[s] = "open"
    BY <1>0 DEF PhaseFn, Phase
  <2>2. /\ PhaseFn' = [s \in Sessions |-> IF s \in C THEN "closed" ELSE PhaseFn[s]]
        /\ LogFn' = [s \in Sessions |-> IF s \in C THEN <<>> ELSE LogFn[s]]
    BY <1>2 DEF PhaseFn, LogFn
  <2>3. Conversation!Close(C)
    BY <1>4, <2>1, <2>2 DEF Conversation!Close, PhaseFn, LogFn, Phase
  <2>. QED
    BY <2>3 DEF Conversation!Next
<1>. QED
  BY <1>3, <1>4

LEMMA AdministerStep ==
  ASSUME TypeOK, AbsentUntouched, DeleteStillAuthorised, Selected, Administer
  PROVE  [Conversation!Next]_(Conversation!vars)
<1> USE DEF dbVars
<1>1. ASSUME NEW s \in Sessions, NEW i \in Identities, CreateSession(s, i)
      PROVE  [Conversation!Next]_(Conversation!vars)
  <2>1. /\ owner[s] = "absent" /\ owner'[s] = i /\ messages[s] = <<>> /\ messages' = messages
        /\ \A t \in Sessions \ {s} : owner'[t] = owner[t]
    BY <1>1 DEF CreateSession, AbsentUntouched, TypeOK
  <2>2. PhaseFn[s] = "absent" /\ PhaseFn' = [PhaseFn EXCEPT ![s] = "open"]
    BY <2>1, StatusAssumption DEF PhaseFn, Phase, Live
  <2>3. LogFn' = LogFn
    BY <2>1, StatusAssumption DEF LogFn, Visible, Live
  <2>4. Conversation!Open(s)
    BY <2>2, <2>3 DEF Conversation!Open, PhaseFn, LogFn, Phase
  <2>. QED
    BY <2>4 DEF Conversation!Next
<1>2. ASSUME NEW a \in Anons, NEW u \in Users, Claim(a, u)
      PROVE  [Conversation!Next]_(Conversation!vars)
  <2>1. \A s \in Sessions : /\ Live(s)' <=> Live(s)
                            /\ owner'[s] = "absent" <=> owner[s] = "absent"
    BY <1>2, StatusAssumption DEF Claim, Live, TypeOK
  <2>2. messages' = messages
    BY <1>2 DEF Claim
  <2>. QED
    BY <2>1, <2>2, Unseen DEF Phase, Visible
<1>3. ASSUME NEW u \in Users, NEW s \in Sessions, DeleteSession(u, s)
      PROVE  [Conversation!Next]_(Conversation!vars)
  BY <1>3, ForgetStep DEF DeleteSession
<1>4. ASSUME NEW p \in resetting, ResetAllData(p)
      PROVE  [Conversation!Next]_(Conversation!vars)
  <2>1. p.ids \in SUBSET Sessions /\ p.user \in Users
    BY DEF TypeOK
  <2>2. \A s \in p.ids : Live(s) => s \in {t \in Sessions : owner[t] = p.user}
    BY <2>1, StatusAssumption DEF Selected, Live
  <2>. QED
    BY <1>4, <2>1, <2>2, ForgetStep DEF ResetAllData
<1>5. ASSUME NEW u \in Users, NEW s \in Sessions, RequireOwnedForDelete(u, s) \/ SelectForReset(u)
      PROVE  [Conversation!Next]_(Conversation!vars)
  <2>1. owner' = owner /\ messages' = messages
    BY <1>5 DEF RequireOwnedForDelete, SelectForReset
  <2>. QED
    BY <2>1, Unseen, RowSeen
<1>6. ASSUME NEW u \in Users, SelectForReset(u)
      PROVE  [Conversation!Next]_(Conversation!vars)
  <2>1. owner' = owner /\ messages' = messages
    BY <1>6 DEF SelectForReset
  <2>. QED
    BY <2>1, Unseen, RowSeen
<1>. QED
  BY <1>1, <1>2, <1>3, <1>4, <1>5, <1>6 DEF Administer

\* The server implements the abstract transcript: every step of a handler, a
\* delete, a reset, a claim or a restart is a step of it or is not seen.
THEOREM ConversationImplemented == SafetySpec => ConversationPromised
<1>1. Init => Conversation!Init
  BY StatusAssumption DEF Init, Conversation!Init, Live, Visible
<1>2. /\ TypeOK /\ AbsentUntouched /\ DeleteStillAuthorised /\ WriteInv /\ Spoken
      /\ [Next]_vars
      => [Conversation!Next]_(Conversation!vars)
  <2> SUFFICES ASSUME TypeOK, AbsentUntouched, DeleteStillAuthorised, WriteInv, Spoken,
                      [Next]_vars
               PROVE  [Conversation!Next]_(Conversation!vars)
    OBVIOUS
  <2> USE DEF dbVars
  <2>1. Selected
    BY DEF WriteInv
  <2>2. CASE owner' = owner /\ messages' = messages
    BY <2>2, Unseen, RowSeen
  <2>3. ASSUME NEW r \in Requests,
               RequireOwnedSession(r) \/ Admit(r) \/ LoadState(r) \/ RunTurn(r)
               \/ SaveTurnResult(r) \/ SaveEvents(r) \/ Tier2(r)
        PROVE  owner' = owner /\ messages' = messages
    BY <2>3 DEF RequireOwnedSession, Admit, LoadState, RunTurn, SaveTurnResult, SaveEvents,
                Tier2, LoadForTier2, SaveTier2Result
  <2>4. CASE Crash \/ UNCHANGED vars
    BY <2>2, <2>4 DEF Crash, vars
  <2>. QED
    BY <2>1, <2>2, <2>3, <2>4, AskStep, AnswerStep, AdministerStep DEF Next, Turn
<1>3. SafetySpec => []Spoken
  <2>1. TypeOK /\ DeleteStillAuthorised /\ WriteInv /\ Spoken /\ [Next]_vars => Spoken'
    BY SpokenStep DEF WriteInv
  <2>. QED
    BY <2>1, SpokenInit, TypeCorrect, DeleteAuthorised, WriteInvAlways, PTL DEF SafetySpec
<1>. QED
  BY <1>1, <1>2, <1>3, TypeCorrect, DeleteAuthorised, WriteInvAlways, PTL
     DEF SafetySpec, ConversationPromised, Conversation!Spec

-----------------------------------------------------------------------------
(* The client that waits: no two requests of one Journey are under way.    *)

\* What deletes and resets leave of the debug document.
LEMMA DebugForgotten ==
  ASSUME TypeOK, Administer \/ UNCHANGED vars
  PROVE  \A s \in Sessions :
           /\ debug'[s] = NoDebug \/ (debug'[s] = debug[s] /\ world'[s] = world[s])
           /\ ~Live(s)' => debug'[s] = NoDebug \/ (debug'[s] = debug[s] /\ ~Live(s))
<1> USE DEF dbVars
<1>1. ASSUME NEW S \in SUBSET Sessions, NEW M \in SUBSET Sessions, Forget(S, M)
      PROVE  \A s \in Sessions :
               /\ debug'[s] = NoDebug \/ (debug'[s] = debug[s] /\ world'[s] = world[s])
               /\ ~Live(s)' => debug'[s] = NoDebug \/ (debug'[s] = debug[s] /\ ~Live(s))
  BY <1>1 DEF Forget, Live
<1>2. ASSUME NEW p \in resetting, ResetAllData(p)
      PROVE  {s \in Sessions : owner[s] = p.user} \in SUBSET Sessions /\ p.ids \in SUBSET Sessions
  BY DEF TypeOK
<1>3. CASE debug' = debug /\ world' = world /\ \A s \in Sessions : Live(s) => Live(s)'
  BY <1>3
<1>4. ASSUME NEW s \in Sessions, NEW i \in Identities, CreateSession(s, i)
      PROVE  debug' = debug /\ world' = world /\ \A t \in Sessions : Live(t) => Live(t)'
  BY <1>4, StatusAssumption DEF CreateSession, Live, TypeOK
<1>5. ASSUME NEW a \in Anons, NEW u \in Users, Claim(a, u)
      PROVE  debug' = debug /\ world' = world /\ \A t \in Sessions : Live(t) => Live(t)'
  BY <1>5 DEF Claim, Live, TypeOK
<1>6. ASSUME NEW u \in Users, NEW s \in Sessions, RequireOwnedForDelete(u, s)
      PROVE  debug' = debug /\ world' = world /\ \A t \in Sessions : Live(t) => Live(t)'
  BY <1>6 DEF RequireOwnedForDelete, Live
<1>7. ASSUME NEW u \in Users, SelectForReset(u)
      PROVE  debug' = debug /\ world' = world /\ \A t \in Sessions : Live(t) => Live(t)'
  BY <1>7 DEF SelectForReset, Live
<1>8. CASE UNCHANGED vars
  BY <1>3, <1>8 DEF vars, Live
<1>9. ASSUME NEW u \in Users, NEW s \in Sessions, DeleteSession(u, s)
      PROVE  Forget({s}, {s})
  BY <1>9 DEF DeleteSession
<1>10. ASSUME NEW p \in resetting, ResetAllData(p)
       PROVE  Forget({s \in Sessions : owner[s] = p.user}, p.ids)
  BY <1>10 DEF ResetAllData
<1>. QED
  BY <1>1, <1>2, <1>3, <1>4, <1>5, <1>6, <1>7, <1>8, <1>9, <1>10 DEF Administer

\* The copy of the only request under way knows all the store knows, and Tier2
\* starts from exactly that.
Abreast(r) ==
  /\ pc[r] \in {"loaded", "ran", "asked"} => world[sess[r]].turns \subseteq copy[r].turns
  /\ pc[r] = "understanding" => copy[r].turns = world[sess[r]].turns

\* Nothing saved is missing, and the brief is built from the same turns.
Kept(s) ==
  /\ Live(s) => saved[s] \subseteq world[s].turns
  /\ debug[s] # NoDebug => debug[s].turns = world[s].turns

PatientInv ==
  /\ Patient
  /\ \A s \in Sessions : Kept(s) /\ (~Live(s) => debug[s] = NoDebug)
  /\ \A r \in Requests : Live(sess[r]) => Abreast(r)

SameDocuments(s) == world'[s] = world[s] /\ debug'[s] = debug[s] /\ saved'[s] = saved[s]

\* What one handler must see to for PatientInv to survive its step.
LEMMA HandlerKeepsPatientInv ==
  ASSUME TypeOK, PatientInv, Patient', NEW r \in Requests, OnlyMoves(r),
         pc[r] \in InFlight \cup Background,
         \A s \in Sessions : s # sess[r] \/ ~Live(s) => SameDocuments(s),
         \A s \in Sessions : s = sess[r] /\ Live(s) => Kept(s)',
         Live(sess[r]) => Abreast(r)'
  PROVE  PatientInv'
<1>1. /\ \A s \in Sessions : Live(s)' <=> Live(s)
      /\ sess[r] \in Sessions /\ \A p \in Requests : sess[p] \in Sessions /\ sess'[p] = sess[p]
  BY DEF OnlyMoves, Live, TypeOK
<1>2. \A s \in Sessions : Kept(s)' /\ (~Live(s)' => debug'[s] = NoDebug)
  <2> SUFFICES ASSUME NEW s \in Sessions
               PROVE  Kept(s)' /\ (~Live(s) => debug'[s] = NoDebug)
    BY <1>1
  <2>1. CASE s = sess[r] /\ Live(s)
    BY <2>1
  <2>2. CASE s # sess[r] \/ ~Live(s)
    BY <1>1, <2>2 DEF PatientInv, Kept, SameDocuments
  <2>. QED
    BY <2>1, <2>2
<1>3. \A p \in Requests : Live(sess[p])' => Abreast(p)'
  <2> SUFFICES ASSUME NEW p \in Requests, Live(sess[p])
               PROVE  Abreast(p)'
    BY <1>1 DEF OnlyMoves, Live
  <2>1. CASE p = r
    BY <2>1
  <2>2. CASE p # r /\ sess[p] = sess[r]
    <3>1. pc[p] \notin InFlight \cup Background /\ pc'[p] = pc[p]
      BY <2>2 DEF PatientInv, Patient, OneAtATime, OnlyMoves
    <3>. QED
      BY <3>1 DEF Abreast
  <2>3. CASE p # r /\ sess[p] # sess[r]
    <3>1. /\ pc'[p] = pc[p] /\ copy'[p] = copy[p] /\ sess'[p] = sess[p]
          /\ world'[sess[p]] = world[sess[p]]
      BY <1>1, <2>3 DEF OnlyMoves, SameDocuments
    <3>2. Abreast(p)
      BY DEF PatientInv
    <3>. QED
      BY <3>1, <3>2 DEF Abreast
  <2>. QED
    BY <2>1, <2>2, <2>3
<1>. QED
  BY <1>2, <1>3 DEF PatientInv

\* A handler step that touches no document of the store.
LEMMA StoreUntouched ==
  ASSUME TypeOK, PatientInv, Patient', NEW r \in Requests, OnlyMoves(r),
         pc[r] \in InFlight \cup Background, UNCHANGED <<world, debug, saved>>,
         Live(sess[r]) => Abreast(r)'
  PROVE  PatientInv'
<1>1. \A s \in Sessions : SameDocuments(s)
  BY DEF SameDocuments
<1>2. \A s \in Sessions : Kept(s)'
  BY DEF PatientInv, Kept, OnlyMoves, Live
<1>. QED
  BY <1>1, <1>2, HandlerKeepsPatientInv

LEMMA HandlersKeepPatientInv ==
  ASSUME TypeOK, PatientInv, Patient', NEW r \in Requests, Turn(r) \/ Tier2(r)
  PROVE  PatientInv'
<1> USE DEF dbVars, reqVars, adminVars, history, Goto
<1>1. /\ sess[r] \in Sessions
      /\ pc \in [Requests -> Stages] /\ copy \in [Requests -> WorldState]
      /\ world \in [Sessions -> WorldState] /\ saved \in [Sessions -> SUBSET Requests]
      /\ debug \in [Sessions -> WorldState \cup {NoDebug}]
      /\ outcome \in [Requests -> Outcomes \cup {"none"}]
      /\ Live(sess[r]) => Abreast(r) /\ Kept(sess[r])
  BY DEF TypeOK, PatientInv
<1>2. CASE Admit(r) \/ SaveEvents(r) \/ Respond(r)
  <2>1. /\ OnlyMoves(r) /\ UNCHANGED <<world, debug, saved, copy>>
        /\ pc[r] \in {"owned", "saved", "recorded"}
        /\ pc'[r] \in {"refused", "admitted", "recorded", "replied"}
    BY <1>1, <1>2 DEF Admit, SaveEvents, Respond, OnlyMoves
  <2>2. Abreast(r)'
    BY <2>1 DEF Abreast
  <2>. QED
    BY <2>1, <2>2, StoreUntouched
<1>3. CASE LoadState(r)
  <2>1. /\ OnlyMoves(r) /\ UNCHANGED <<world, debug, saved>>
        /\ pc[r] = "admitted" /\ pc'[r] \in {"loaded", "failed"}
        /\ Live(sess[r]) => copy'[r] = world[sess[r]]
    BY <1>1, <1>3 DEF LoadState, OnlyMoves
  <2>2. Live(sess[r]) => Abreast(r)'
    BY <2>1 DEF Abreast, OnlyMoves
  <2>. QED
    BY <2>1, <2>2, StoreUntouched
<1>4. CASE RunTurn(r)
  <2>1. /\ OnlyMoves(r) /\ UNCHANGED <<world, debug, saved>>
        /\ pc[r] = "loaded" /\ pc'[r] \in {"ran", "failed"}
    BY <1>1, <1>4 DEF RunTurn, OnlyMoves
  <2>2. pc'[r] = "ran" => copy'[r] = Integrate(copy[r], r, outcome'[r])
    BY <1>1, <1>4 DEF RunTurn
  <2>3. pc'[r] = "ran" => copy[r].turns \subseteq copy'[r].turns
    BY <1>1, <2>2 DEF Integrate, WorldState
  <2>4. Live(sess[r]) => Abreast(r)'
    BY <1>1, <2>1, <2>3 DEF Abreast, OnlyMoves
  <2>. QED
    BY <2>1, <2>4, StoreUntouched
<1>5. CASE AppendUserMessage(r)
  <2>1. /\ OnlyMoves(r) /\ UNCHANGED <<world, debug, saved, copy>>
        /\ pc[r] = "ran" /\ pc'[r] = "asked"
    BY <1>1, <1>5 DEF AppendUserMessage, OnlyMoves
  <2>2. Live(sess[r]) => Abreast(r)'
    BY <1>1, <2>1 DEF Abreast, OnlyMoves
  <2>. QED
    BY <2>1, <2>2, StoreUntouched
<1>6. CASE SaveTurnResult(r)
  <2>1. /\ OnlyMoves(r)
        /\ pc[r] = "asked" /\ pc'[r] = "saved"
    BY <1>1, <1>6 DEF SaveTurnResult, OnlyMoves
  <2>2. /\ \A s \in Sessions : s # sess[r] \/ ~Live(s) => SameDocuments(s)
        /\ Live(sess[r]) => /\ world'[sess[r]] = copy[r] /\ debug'[sess[r]] = copy[r]
                            /\ saved'[sess[r]] = saved[sess[r]] \cup (copy[r].turns \cap {r})
    BY <1>1, <1>6 DEF SaveTurnResult, SameDocuments, Live
  <2>3. \A s \in Sessions : s = sess[r] /\ Live(s) => Kept(s)'
    BY <1>1, <2>1, <2>2 DEF Kept, Abreast, Live
  <2>4. Abreast(r)'
    BY <2>1 DEF Abreast
  <2>. QED
    BY <2>1, <2>2, <2>3, <2>4, HandlerKeepsPatientInv
<1>7. CASE LoadForTier2(r)
  <2>1. /\ OnlyMoves(r) /\ UNCHANGED <<world, debug, saved>>
        /\ pc[r] = "replied" /\ pc'[r] \in {"understanding", "done"}
        /\ Live(sess[r]) => copy'[r] = world[sess[r]]
    BY <1>1, <1>7 DEF LoadForTier2, OnlyMoves
  <2>2. Live(sess[r]) => Abreast(r)'
    BY <2>1 DEF Abreast, OnlyMoves
  <2>. QED
    BY <2>1, <2>2, StoreUntouched
<1>8. CASE SaveTier2Result(r)
  <2>1. /\ OnlyMoves(r) /\ UNCHANGED <<debug, saved>>
        /\ pc[r] = "understanding" /\ pc'[r] = "done"
    BY <1>1, <1>8 DEF SaveTier2Result, OnlyMoves
  <2>2. PICK S \in {copy[r].turns, copy[r].seen} :
          world' = IF Live(sess[r]) THEN [world EXCEPT ![sess[r]] = [copy[r] EXCEPT !.seen = S]]
                                    ELSE world
    BY <1>8 DEF SaveTier2Result
  <2>3. [copy[r] EXCEPT !.seen = S].turns = copy[r].turns
    BY <1>1 DEF WorldState
  <2>4. /\ \A s \in Sessions : s # sess[r] \/ ~Live(s) => SameDocuments(s)
        /\ Live(sess[r]) => world'[sess[r]].turns = copy[r].turns
    BY <1>1, <2>1, <2>2, <2>3 DEF SameDocuments, Live
  <2>5. \A s \in Sessions : s = sess[r] /\ Live(s) => Kept(s)'
    BY <1>1, <2>1, <2>4 DEF Kept, Abreast, Live
  <2>6. Abreast(r)'
    BY <2>1 DEF Abreast
  <2>. QED
    BY <2>1, <2>4, <2>5, <2>6, HandlerKeepsPatientInv
<1>. QED
  BY <1>2, <1>3, <1>4, <1>5, <1>6, <1>7, <1>8 DEF Turn, Tier2

LEMMA PatientInvInit == Init => PatientInv
BY DEF Init, PatientInv, Patient, OneAtATime, Kept, Abreast, Live

LEMMA PatientInvStep ==
  /\ TypeOK /\ AbsentUntouched /\ DeleteStillAuthorised /\ WriteInv /\ PatientInv
  /\ [Next /\ Patient']_vars
  => PatientInv'
<1> SUFFICES ASSUME TypeOK, AbsentUntouched, DeleteStillAuthorised, WriteInv, PatientInv,
                    [Next /\ Patient']_vars
             PROVE  PatientInv'
  OBVIOUS
<1>0. Patient'
  <2>1. CASE UNCHANGED vars
    BY <2>1 DEF vars, reqVars, Patient, OneAtATime, PatientInv
  <2>. QED
    BY <2>1
<1>1. ASSUME NEW r \in Requests, Turn(r) \/ Tier2(r)
      PROVE  PatientInv'
  BY <1>0, <1>1, HandlersKeepPatientInv
<1>2. ASSUME NEW r \in Requests, RequireOwnedSession(r)
      PROVE  PatientInv'
  <2>1. /\ UNCHANGED <<owner, world, debug, saved, copy, sess>>
        /\ \A p \in Requests : pc'[p] = pc[p] \/ pc'[p] \in {"owned", "refused"}
    BY <1>2 DEF RequireOwnedSession, Goto, TypeOK, dbVars, history
  <2>2. \A s \in Sessions : (Live(s)' <=> Live(s)) /\ (Kept(s)' <=> Kept(s))
    BY <2>1 DEF Live, Kept
  <2>3. \A p \in Requests : Abreast(p) => Abreast(p)'
    BY <2>1 DEF Abreast
  <2>. QED
    BY <1>0, <2>1, <2>2, <2>3 DEF PatientInv, TypeOK
<1>3. CASE Administer \/ UNCHANGED vars
  <2>1. /\ UNCHANGED reqVars /\ saved' = saved
        /\ \A s \in Sessions : RowOrNothing(s) /\ Survives(s)
    BY <1>3, SurvivorsKeep DEF WriteInv
  <2>2. \A s \in Sessions :
           /\ debug'[s] = NoDebug \/ (debug'[s] = debug[s] /\ world'[s] = world[s])
           /\ ~Live(s)' => debug'[s] = NoDebug \/ (debug'[s] = debug[s] /\ ~Live(s))
    BY <1>3, DebugForgotten
  <2>3. \A s \in Sessions : Live(s)' => saved'[s] \subseteq world'[s].turns
    BY <2>1 DEF Survives, SameRow, PatientInv, Kept, WriteInv, Fresh
  <2>4. \A s \in Sessions : debug'[s] # NoDebug => debug'[s].turns = world'[s].turns
    BY <2>2 DEF PatientInv, Kept
  <2>5. \A r \in Requests : Live(sess[r])' => Abreast(r)'
    <3> SUFFICES ASSUME NEW r \in Requests, Live(sess[r])'
                 PROVE  Abreast(r)'
      OBVIOUS
    <3>1. sess[r] \in Sessions /\ sess'[r] = sess[r] /\ pc'[r] = pc[r] /\ copy'[r] = copy[r]
      BY <2>1 DEF TypeOK, reqVars
    <3>2. PICK s \in Sessions : s = sess[r]
      BY <3>1
    <3>3. Live(s)' /\ Survives(s)
      BY <2>1, <3>1, <3>2 DEF Live
    <3>4. CASE Live(s)
      BY <3>1, <3>2, <3>3, <3>4 DEF Survives, SameRow, PatientInv, Abreast, Live
    <3>5. CASE owner[s] = "absent"
      BY <3>1, <3>2, <3>5 DEF AbsentUntouched, Abreast
    <3>. QED
      BY <3>3, <3>4, <3>5 DEF Survives
  <2>. QED
    BY <1>0, <2>2, <2>3, <2>4, <2>5 DEF PatientInv, Kept
<1>4. CASE Crash
  <2>1. UNCHANGED <<owner, world, debug, saved, sess>>
    BY <1>4 DEF Crash, dbVars, history
  <2>2. \A r \in Requests : pc'[r] \notin InFlight \cup Background
    BY <1>4 DEF Crash, TypeOK
  <2>3. \A s \in Sessions : (Live(s)' <=> Live(s)) /\ (Kept(s)' <=> Kept(s))
    BY <2>1 DEF Live, Kept
  <2>4. \A r \in Requests : Abreast(r)'
    BY <2>2 DEF Abreast
  <2>. QED
    BY <1>0, <2>1, <2>3, <2>4 DEF PatientInv
<1>. QED
  BY <1>1, <1>2, <1>3, <1>4 DEF Next

\* The patient client's behaviours are behaviours of the server.
LEMMA PatientIsSafe == PatientSafety => SafetySpec
BY PTL DEF PatientSafety, SafetySpec

LEMMA PatientInvAlways == PatientSafety => []PatientInv
BY PatientIsSafe, PatientInvInit, PatientInvStep, TypeCorrect, DeleteAuthorised, WriteInvAlways,
   PTL DEF PatientSafety

\* A client that leaves the Journey alone until Tier2 has been stored loses no
\* turn it has saved, whatever crashes, deletes and claims come in between.
THEOREM PatienceKeepsTurns == PatientSafety => []NothingSilentlyDeleted
<1>1. PatientInv => NothingSilentlyDeleted
  BY DEF PatientInv, Kept, NothingSilentlyDeleted
<1>. QED
  BY <1>1, PatientInvAlways, PTL

\* For such a client the Clarity Brief and the WorldState of the next turn
\* know the same turns.
THEOREM PatienceKeepsBrief == PatientSafety => []BriefAgreesWithWorld
<1>1. PatientInv => BriefAgreesWithWorld
  BY DEF PatientInv, Kept, BriefAgreesWithWorld
<1>. QED
  BY <1>1, PatientInvAlways, PTL

-----------------------------------------------------------------------------
(* The cap on anonymous turns.                                             *)

\* The anonymous requests whose question a Journey holds.
AnonAsked(s) == {r \in Requests : who[r] \in Anons /\ Question(r) \in Entries(messages[s])}

\* Distinct requests have distinct rows, so there are no more of them than the
\* questions count_user_messages counts.
LEMMA CountedByMessages ==
  ASSUME TypeOK, NEW s \in Sessions
  PROVE  /\ IsFiniteSet(AnonAsked(s))
         /\ Cardinality(AnonAsked(s)) \in Nat
         /\ PriorUserMessages(s) \in Nat
         /\ Cardinality(AnonAsked(s)) <= PriorUserMessages(s)
<1> DEFINE I == {i \in DOMAIN messages[s] : messages[s][i].role = "user"}
           T == {messages[s][i].req : i \in I}
           f == [i \in I |-> messages[s][i].req]
<1>1. messages[s] \in Seq(Entry)
  BY DEF TypeOK
<1>2. IsFiniteSet(I) /\ Cardinality(I) \in Nat
  <2>1. DOMAIN messages[s] = 1..Len(messages[s]) /\ Len(messages[s]) \in Nat
    BY <1>1
  <2>2. IsFiniteSet(1..Len(messages[s]))
    BY <2>1, FS_Interval
  <2>3. I \in SUBSET (1..Len(messages[s]))
    BY <2>1
  <2>4. IsFiniteSet(I)
    BY <2>2, <2>3, FS_Subset
  <2>. QED
    BY <2>4, FS_CardinalityType
<1>3. f \in Surjection(I, T)
  BY DEF Surjection
<1>4. IsFiniteSet(T) /\ Cardinality(T) <= Cardinality(I) /\ Cardinality(T) \in Nat
  <2>. HIDE DEF I, T, f
  <2>. QED
    BY <1>2, <1>3, FS_Surjection, FS_CardinalityType
<1>5. AnonAsked(s) \in SUBSET T
  BY DEF AnonAsked, Question, Entries
<1>6. /\ IsFiniteSet(AnonAsked(s)) /\ Cardinality(AnonAsked(s)) \in Nat
      /\ Cardinality(AnonAsked(s)) <= Cardinality(T)
  <2>. HIDE DEF I, T, f
  <2>. QED
    BY <1>4, <1>5, FS_Subset, FS_CardinalityType
<1>. QED
  BY <1>2, <1>4, <1>6 DEF PriorUserMessages

\* Below the cap from the check on until the question is stored.
CapInv ==
  /\ \A s \in Sessions : Cardinality(AnonAsked(s)) <= AnonLimit
  /\ \A r \in Requests :
       pc[r] \in {"admitted", "loaded", "ran"} /\ who[r] \in Anons
         => Cardinality(AnonAsked(sess[r])) < AnonLimit

LEMMA CapInvInit == Init => CapInv
<1> SUFFICES ASSUME Init
             PROVE  CapInv
  OBVIOUS
<1>1. \A s \in Sessions : AnonAsked(s) = {}
  BY DEF Init, AnonAsked, Entries
<1>2. \A s \in Sessions : Cardinality(AnonAsked(s)) = 0
  BY <1>1, FS_EmptySet
<1>3. \A r \in Requests : pc[r] = "idle"
  BY DEF Init
<1>. QED
  BY <1>2, <1>3, BoundAssumption DEF CapInv

\* Fewer questions, or the same, and nobody newly admitted.
LEMMA FewerKeepCap ==
  ASSUME TypeOK, CapInv, UNCHANGED <<sess, who>>,
         \A s \in Sessions : AnonAsked(s)' \subseteq AnonAsked(s),
         \A r \in Requests :
           pc'[r] \in {"admitted", "loaded", "ran"} /\ who[r] \in Anons
             => \/ pc[r] \in {"admitted", "loaded", "ran"}
                \/ Cardinality(AnonAsked(sess[r])) < AnonLimit
  PROVE  CapInv'
<1>1. \A s \in Sessions :
        /\ Cardinality(AnonAsked(s)) \in Nat
        /\ Cardinality(AnonAsked(s)') \in Nat
        /\ Cardinality(AnonAsked(s)') <= Cardinality(AnonAsked(s))
  <2> SUFFICES ASSUME NEW s \in Sessions
               PROVE  /\ Cardinality(AnonAsked(s)) \in Nat
                      /\ Cardinality(AnonAsked(s)') \in Nat
                      /\ Cardinality(AnonAsked(s)') <= Cardinality(AnonAsked(s))
    OBVIOUS
  <2>1. IsFiniteSet(AnonAsked(s)) /\ AnonAsked(s)' \in SUBSET AnonAsked(s)
    BY CountedByMessages
  <2>. QED
    BY <2>1, FS_Subset, FS_CardinalityType
<1>2. AnonLimit \in Nat /\ \A r \in Requests : sess[r] \in Sessions /\ sess'[r] = sess[r] /\ who'[r] = who[r]
  BY BoundAssumption DEF TypeOK
<1>3. \A s \in Sessions : Cardinality(AnonAsked(s)') <= AnonLimit
  BY <1>1, <1>2 DEF CapInv
<1>4. ASSUME NEW r \in Requests, pc'[r] \in {"admitted", "loaded", "ran"}, who[r] \in Anons
      PROVE  Cardinality(AnonAsked(sess[r])') < AnonLimit
  <2>1. PICK s \in Sessions : s = sess[r] /\ s = sess'[r]
    BY <1>2
  <2>2. Cardinality(AnonAsked(s)) < AnonLimit
    BY <1>4, <2>1 DEF CapInv, AnonAsked
  <2>3. Cardinality(AnonAsked(s)') < AnonLimit
    BY <1>1, <1>2, <2>2
  <2>. QED
    BY <2>1, <2>3 DEF AnonAsked
<1>. QED
  BY <1>2, <1>3, <1>4 DEF CapInv

\* The one request of the Journey that is under way adds its question.
LEMMA AskingKeepsCap ==
  ASSUME TypeOK, TypeOK', Patient, CapInv, NEW r \in Requests, AppendUserMessage(r)
  PROVE  CapInv'
<1>1. /\ UNCHANGED <<sess, who>> /\ pc[r] = "ran" /\ pc'[r] = "asked"
      /\ sess[r] \in Sessions
      /\ messages' = [messages EXCEPT ![sess[r]] = Append(@, Question(r))]
      /\ \A p \in Requests \ {r} : pc'[p] = pc[p]
  BY DEF AppendUserMessage, Goto, TypeOK
<1>2. PICK j \in Sessions : j = sess[r]
  BY <1>1
<1>3. /\ \A s \in Sessions \ {j} : messages'[s] = messages[s]
      /\ Entries(messages'[j]) = Entries(messages[j]) \cup {Question(r)}
  BY <1>1, <1>2, AppendGrows, EntryTypes
<1>4. \A s \in Sessions \ {j} : AnonAsked(s)' = AnonAsked(s)
  BY <1>1, <1>3 DEF AnonAsked
<1>5. AnonAsked(j)' = AnonAsked(j) \cup (IF who[r] \in Anons THEN {r} ELSE {})
  BY <1>1, <1>3, EntriesDiffer DEF AnonAsked
<1>6. AnonLimit \in Nat /\ IsFiniteSet(AnonAsked(j)) /\ Cardinality(AnonAsked(j)) \in Nat
  BY BoundAssumption, CountedByMessages
<1>7. Cardinality(AnonAsked(j)') <= AnonLimit
  <2>1. CASE who[r] \in Anons
    <3>1. Cardinality(AnonAsked(j)) < AnonLimit
      BY <1>1, <1>2, <2>1 DEF CapInv, AnonAsked
    <3>2. Cardinality(AnonAsked(j) \cup {r}) <= Cardinality(AnonAsked(j)) + 1
      <4>1. Cardinality(AnonAsked(j) \cup {r}) =
              IF r \in AnonAsked(j) THEN Cardinality(AnonAsked(j)) ELSE Cardinality(AnonAsked(j)) + 1
        BY <1>6, FS_AddElement
      <4>. QED
        BY <1>6, <4>1
    <3>3. Cardinality(AnonAsked(j) \cup {r}) \in Nat
      BY <1>6, FS_AddElement, FS_CardinalityType
    <3>4. AnonAsked(j)' = AnonAsked(j) \cup {r}
      BY <1>5, <2>1
    <3>5. Cardinality(AnonAsked(j) \cup {r}) <= AnonLimit
      BY <1>6, <3>1, <3>2, <3>3
    <3>. QED
      BY <3>4, <3>5
  <2>2. CASE who[r] \notin Anons
    <3>1. AnonAsked(j)' = AnonAsked(j)
      BY <1>5, <2>2
    <3>. QED
      BY <3>1 DEF CapInv
  <2>. QED
    BY <2>1, <2>2
<1>8. ASSUME NEW p \in Requests, pc'[p] \in {"admitted", "loaded", "ran"}, who[p] \in Anons
      PROVE  Cardinality(AnonAsked(sess[p])') < AnonLimit
  <2>1. p # r /\ pc'[p] = pc[p]
    BY <1>1, <1>8
  <2>2. sess[p] # j
    BY <1>1, <1>2, <1>8, <2>1 DEF Patient, OneAtATime
  <2>3. PICK s \in Sessions : s = sess[p] /\ s = sess'[p]
    BY <1>1 DEF TypeOK
  <2>4. Cardinality(AnonAsked(s)) < AnonLimit
    BY <1>8, <2>1, <2>3 DEF CapInv, AnonAsked
  <2>5. AnonAsked(s)' = AnonAsked(s)
    BY <1>4, <2>2, <2>3
  <2>6. Cardinality(AnonAsked(s)') < AnonLimit
    BY <2>4, <2>5
  <2>. QED
    BY <2>3, <2>6 DEF AnonAsked
<1>9. \A s \in Sessions : Cardinality(AnonAsked(s)') <= AnonLimit
  <2> SUFFICES ASSUME NEW s \in Sessions
               PROVE  Cardinality(AnonAsked(s)') <= AnonLimit
    OBVIOUS
  <2>1. CASE s = j
    BY <1>7, <2>1
  <2>2. CASE s # j
    <3>1. AnonAsked(s)' = AnonAsked(s)
      BY <1>4, <2>2
    <3>. QED
      BY <3>1 DEF CapInv
  <2>. QED
    BY <2>1, <2>2
<1>. QED
  BY <1>1, <1>8, <1>9 DEF CapInv

LEMMA CapInvStep ==
  /\ TypeOK /\ TypeOK' /\ DeleteStillAuthorised /\ WriteInv /\ Patient /\ CapInv
  /\ [Next]_vars
  => CapInv'
<1> SUFFICES ASSUME TypeOK, TypeOK', DeleteStillAuthorised, WriteInv, Patient, CapInv, [Next]_vars
             PROVE  CapInv'
  OBVIOUS
<1> USE DEF dbVars, reqVars, adminVars, history, Goto
<1>1. CASE Administer \/ UNCHANGED vars
  <2>1. UNCHANGED reqVars /\ \A s \in Sessions : RowOrNothing(s)
    BY <1>1, SurvivorsKeep DEF WriteInv
  <2>2. \A s \in Sessions : AnonAsked(s)' \subseteq AnonAsked(s)
    BY <2>1 DEF RowOrNothing, AnonAsked, Entries
  <2>. QED
    BY <2>1, <2>2, FewerKeepCap
<1>2. ASSUME UNCHANGED <<messages, sess, who>>,
             \A p \in Requests : pc'[p] \in {"admitted", "loaded", "ran"} =>
               \/ pc[p] \in {"admitted", "loaded", "ran"}
               \/ pc[p] = "owned" /\ ~CapReached(p)
      PROVE  CapInv'
  <2>1. \A s \in Sessions : AnonAsked(s)' \subseteq AnonAsked(s)
    BY <1>2 DEF AnonAsked
  <2>2. ASSUME NEW p \in Requests, ~CapReached(p), who[p] \in Anons
        PROVE  Cardinality(AnonAsked(sess[p])) < AnonLimit
    <3>1. /\ Cardinality(AnonAsked(sess[p])) \in Nat /\ PriorUserMessages(sess[p]) \in Nat
          /\ Cardinality(AnonAsked(sess[p])) <= PriorUserMessages(sess[p])
      <4>1. PICK s \in Sessions : s = sess[p]
        BY DEF TypeOK
      <4>. QED
        BY <4>1, CountedByMessages DEF AnonAsked, PriorUserMessages
    <3>2. ~(PriorUserMessages(sess[p]) >= AnonLimit)
      BY <2>2 DEF CapReached
    <3>. QED
      BY <3>1, <3>2, BoundAssumption
  <2>. QED
    BY <1>2, <2>1, <2>2, FewerKeepCap
<1>3. ASSUME NEW r \in Requests,
             RequireOwnedSession(r) \/ Admit(r) \/ LoadState(r) \/ RunTurn(r) \/ SaveTurnResult(r)
             \/ SaveEvents(r) \/ Tier2(r)
      PROVE  CapInv'
  <2>1. UNCHANGED <<messages, sess, who>>
    BY <1>3 DEF RequireOwnedSession, Admit, LoadState, RunTurn, SaveTurnResult, SaveEvents,
                Tier2, LoadForTier2, SaveTier2Result
  <2>2. \A p \in Requests : pc'[p] \in {"admitted", "loaded", "ran"} =>
               \/ pc[p] \in {"admitted", "loaded", "ran"}
               \/ pc[p] = "owned" /\ ~CapReached(p)
    BY <1>3 DEF RequireOwnedSession, Admit, LoadState, RunTurn, SaveTurnResult, SaveEvents,
                Tier2, LoadForTier2, SaveTier2Result, TypeOK
  <2>. QED
    BY <1>2, <2>1, <2>2
<1>4. ASSUME NEW r \in Requests, Respond(r)
      PROVE  CapInv'
  <2>1. /\ UNCHANGED <<sess, who>>
        /\ \A p \in Requests : pc'[p] \in {"admitted", "loaded", "ran"} => pc'[p] = pc[p]
    BY <1>4 DEF Respond, TypeOK
  <2>2. \A s \in Sessions, p \in Requests :
          Question(p) \in Entries(messages'[s]) => Question(p) \in Entries(messages[s])
    <3>1. CASE messages' = messages
      BY <3>1
    <3>2. CASE messages' = [messages EXCEPT ![sess[r]] = Append(@, Answer(r))]
      <4>1. /\ \A s \in Sessions \ {sess[r]} : messages'[s] = messages[s]
            /\ Entries(messages'[sess[r]]) = Entries(messages[sess[r]]) \cup {Answer(r)}
        BY <3>2, AppendGrows, EntryTypes
      <4>. QED
        BY <4>1, EntriesDiffer
    <3>. QED
      BY <1>4, <3>1, <3>2 DEF Respond
  <2>3. \A s \in Sessions : AnonAsked(s)' \subseteq AnonAsked(s)
    BY <2>1, <2>2 DEF AnonAsked
  <2>. QED
    BY <2>1, <2>3, FewerKeepCap
<1>5. CASE Crash
  <2>1. UNCHANGED <<messages, sess, who>>
    BY <1>5 DEF Crash
  <2>2. \A p \in Requests : pc'[p] \notin {"admitted", "loaded", "ran"}
    BY <1>5 DEF Crash, TypeOK
  <2>. QED
    BY <1>2, <2>1, <2>2
<1>. QED
  BY <1>1, <1>3, <1>4, <1>5, AskingKeepsCap DEF Next, Turn

\* No more anonymous turns than the cap get into a Journey whose client never
\* has two requests under way, although the cap is checked seconds before the
\* question is counted.
THEOREM PatienceKeepsCap == PatientSafety => []AnonymousCap
<1>1. PatientInv => Patient
  BY DEF PatientInv
<1>2. CapInv => AnonymousCap
  BY DEF CapInv, AnonymousCap, AnonAsked
<1>. QED
  BY <1>1, <1>2, PatientIsSafe, PatientInvAlways, TypeCorrect, DeleteAuthorised, WriteInvAlways,
     CapInvInit, CapInvStep, PTL DEF SafetySpec
=============================================================================
