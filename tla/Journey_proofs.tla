--------------------------- MODULE Journey_proofs ---------------------------
(***************************************************************************)
(* Proofs about Journey, for any number of Journeys, requests, accounts    *)
(* and browsers, any cap and any number of restarts.                       *)
(***************************************************************************)
EXTENDS Journey, TLAPS

USE DEF Identities, Outcomes, Stages, InFlight, Background, Finished

\* Appending a question or an answer to a well-formed transcript.
LEMMA AppendEntry ==
  ASSUME NEW q \in Seq(Entry), NEW e \in Entry
  PROVE  /\ Append(q, e) \in Seq(Entry)
         /\ DOMAIN Append(q, e) = DOMAIN q \cup {Len(q) + 1}
         /\ \A i \in DOMAIN q : Append(q, e)[i] = q[i]
         /\ Append(q, e)[Len(q) + 1] = e
         /\ Entries(Append(q, e)) = Entries(q) \cup {e}
<1>1. Append(q, e) \in Seq(Entry)
  OBVIOUS
<1>2. DOMAIN Append(q, e) = DOMAIN q \cup {Len(q) + 1}
  OBVIOUS
<1>3. \A i \in DOMAIN q : Append(q, e)[i] = q[i]
  OBVIOUS
<1>4. Append(q, e)[Len(q) + 1] = e
  OBVIOUS
<1>5. Entries(Append(q, e)) = Entries(q) \cup {e}
  BY <1>1, <1>2, <1>3, <1>4 DEF Entries
<1>. QED
  BY <1>1, <1>2, <1>3, <1>4, <1>5

LEMMA EntryRequest ==
  /\ TypeOK => \A s \in Sessions : \A i \in DOMAIN messages[s] : messages[s][i].req \in Requests
  /\ TypeOK' => \A s \in Sessions : \A i \in DOMAIN messages'[s] : messages'[s][i].req \in Requests
<1>1. \A q \in Seq(Entry) : \A i \in DOMAIN q : q[i] \in Entry
  OBVIOUS
<1>2. \A e \in Entry : e.req \in Requests
  BY DEF Entry
<1>. QED
  BY <1>1, <1>2 DEF TypeOK

LEMMA EntryTypes ==
  ASSUME NEW r \in Requests
  PROVE  Question(r) \in Entry /\ Answer(r) \in Entry
BY DEF Question, Answer, Entry, Roles

\* What the handlers make of a WorldState is one.
LEMMA WorldStateTypes ==
  /\ EmptyWorld \in WorldState
  /\ \A w \in WorldState, r \in Requests : \A o : Integrate(w, r, o) \in WorldState
  /\ \A w \in WorldState, R \in SUBSET Requests : [w EXCEPT !.seen = R] \in WorldState
  /\ \A w \in WorldState : w.turns \in SUBSET Requests /\ w.seen \in SUBSET Requests
BY DEF EmptyWorld, WorldState, Integrate

-----------------------------------------------------------------------------
(* Type correctness.                                                       *)

\* Every variable of the store, of the handlers and of the history keeps its
\* type, whatever the interleaving.
LEMMA TypeInit == Init => TypeOK
BY BoundAssumption, WorldStateTypes DEF Init, TypeOK

LEMMA TypeStep == TypeOK /\ [Next]_vars => TypeOK'
<1> SUFFICES ASSUME TypeOK, [Next]_vars
             PROVE  TypeOK'
  OBVIOUS
<1> USE DEF TypeOK, dbVars, reqVars, adminVars, history
<1>1. ASSUME NEW s \in Sessions, NEW i \in Identities, CreateSession(s, i)
      PROVE  TypeOK'
  BY <1>1 DEF CreateSession
<1>2. ASSUME NEW a \in Anons, NEW u \in Users, Claim(a, u)
      PROVE  TypeOK'
  BY <1>2 DEF Claim
<1>3. ASSUME NEW u \in Users, NEW s \in Sessions, RequireOwnedForDelete(u, s)
      PROVE  TypeOK'
  BY <1>3 DEF RequireOwnedForDelete
<1>4. ASSUME NEW S \in SUBSET Sessions, NEW M \in SUBSET Sessions, Forget(S, M)
      PROVE  /\ owner' \in [Sessions -> Identities \cup {"absent", "deleted"}]
             /\ world' \in [Sessions -> WorldState]
             /\ debug' \in [Sessions -> WorldState \cup {NoDebug}]
             /\ messages' \in [Sessions -> Seq(Entry)]
             /\ events' \in [Sessions -> SUBSET Requests]
  BY <1>4, WorldStateTypes DEF Forget
<1>5. ASSUME NEW u \in Users, NEW s \in Sessions, DeleteSession(u, s)
      PROVE  TypeOK'
  BY <1>4, <1>5 DEF DeleteSession
<1>6. ASSUME NEW u \in Users, SelectForReset(u)
      PROVE  TypeOK'
  BY <1>6 DEF SelectForReset
<1>7. ASSUME NEW p \in resetting, ResetAllData(p)
      PROVE  TypeOK'
  BY <1>4, <1>7 DEF ResetAllData
<1>8. ASSUME NEW r \in Requests, RequireOwnedSession(r)
      PROVE  TypeOK'
  BY <1>8 DEF RequireOwnedSession, Goto
<1>9. ASSUME NEW r \in Requests, Admit(r)
      PROVE  TypeOK'
  BY <1>9 DEF Admit, Goto
<1>10. ASSUME NEW r \in Requests, LoadState(r)
       PROVE  TypeOK'
  <2>1. pc' \in [Requests -> Stages]
    BY <1>10 DEF LoadState, Goto
  <2>2. copy' \in [Requests -> WorldState]
    BY <1>10, WorldStateTypes DEF LoadState
  <2>. QED
    BY <1>10, <2>1, <2>2 DEF LoadState
<1>11. ASSUME NEW r \in Requests, RunTurn(r)
       PROVE  TypeOK'
  <2>1. pc' \in [Requests -> Stages]
    BY <1>11, ZenonT(40) DEF RunTurn, Goto
  <2>2. copy' \in [Requests -> WorldState]
    <3>1. \E w \in WorldState : copy' = [copy EXCEPT ![r] = w]
      <4>1. CASE \E o \in {"answered", "stage", "interp"} :
                   copy' = [copy EXCEPT ![r] = Integrate(copy[r], r, o)]
        BY <4>1, WorldStateTypes
      <4>2. CASE copy' = [copy EXCEPT ![r] = EmptyWorld]
        BY <4>2, WorldStateTypes
      <4>. QED
        BY <1>11, <4>1, <4>2 DEF RunTurn
    <3>. QED
      BY <3>1
  <2>3. outcome' \in [Requests -> Outcomes \cup {"none"}]
    BY <1>11 DEF RunTurn
  <2>. QED
    BY <1>11, <2>1, <2>2, <2>3 DEF RunTurn
<1>12. ASSUME NEW r \in Requests, AppendUserMessage(r)
       PROVE  TypeOK'
  BY <1>12, EntryTypes, AppendEntry DEF AppendUserMessage, Goto
<1>13. ASSUME NEW r \in Requests, SaveTurnResult(r)
       PROVE  TypeOK'
  <2>1. pc' \in [Requests -> Stages]
    BY <1>13 DEF SaveTurnResult, Goto
  <2>2. copy' \in [Requests -> WorldState]
    BY <1>13, WorldStateTypes DEF SaveTurnResult
  <2>3. world' \in [Sessions -> WorldState]
    <3>1. sess[r] \in Sessions /\ copy[r] \in WorldState
      OBVIOUS
    <3>2. world' = [world EXCEPT ![sess[r]] = copy[r]] \/ world' = world
      BY <1>13 DEF SaveTurnResult
    <3>. QED
      BY <3>1, <3>2
  <2>4. debug' \in [Sessions -> WorldState \cup {NoDebug}]
    <3>1. sess[r] \in Sessions /\ copy[r] \in WorldState \cup {NoDebug}
      OBVIOUS
    <3>2. debug' = [debug EXCEPT ![sess[r]] = copy[r]] \/ debug' = debug
      BY <1>13 DEF SaveTurnResult
    <3>. QED
      BY <3>1, <3>2
  <2>5. saved' \in [Sessions -> SUBSET Requests]
    <3>1. sess[r] \in Sessions /\ saved[sess[r]] \cup (copy[r].turns \cap {r}) \in SUBSET Requests
      OBVIOUS
    <3>2. \/ saved' = [saved EXCEPT ![sess[r]] = saved[sess[r]] \cup (copy[r].turns \cap {r})]
          \/ saved' = saved
      BY <1>13 DEF SaveTurnResult
    <3>. QED
      BY <3>1, <3>2
  <2>6. crossed' \in SUBSET Requests
    BY <1>13 DEF SaveTurnResult, CrossedWith
  <2>. QED
    BY <1>13, <2>1, <2>2, <2>3, <2>4, <2>5, <2>6 DEF SaveTurnResult
<1>14. ASSUME NEW r \in Requests, SaveEvents(r)
       PROVE  TypeOK'
  <2>1. pc' \in [Requests -> Stages]
    BY <1>14 DEF SaveEvents, Goto
  <2>2. events' \in [Sessions -> SUBSET Requests]
    <3>1. sess[r] \in Sessions /\ events[sess[r]] \cup {r} \in SUBSET Requests
      OBVIOUS
    <3>2. events' = [events EXCEPT ![sess[r]] = events[sess[r]] \cup {r}] \/ events' = events
      BY <1>14 DEF SaveEvents
    <3>. QED
      BY <3>1, <3>2
  <2>. QED
    BY <1>14, <2>1, <2>2 DEF SaveEvents
<1>15. ASSUME NEW r \in Requests, Respond(r)
       PROVE  TypeOK'
  BY <1>15, EntryTypes, AppendEntry DEF Respond, Goto
<1>16. ASSUME NEW r \in Requests, LoadForTier2(r)
       PROVE  TypeOK'
  <2>1. pc' \in [Requests -> Stages]
    BY <1>16 DEF LoadForTier2, Goto
  <2>2. copy' \in [Requests -> WorldState]
    BY <1>16, WorldStateTypes DEF LoadForTier2
  <2>. QED
    BY <1>16, <2>1, <2>2 DEF LoadForTier2
<1>17. ASSUME NEW r \in Requests, SaveTier2Result(r)
       PROVE  TypeOK'
  <2>1. pc' \in [Requests -> Stages]
    BY <1>17 DEF SaveTier2Result, Goto
  <2>2. copy' \in [Requests -> WorldState]
    BY <1>17, WorldStateTypes DEF SaveTier2Result
  <2>3. world' \in [Sessions -> WorldState]
    <3>1. sess[r] \in Sessions /\ copy[r] \in WorldState
      OBVIOUS
    <3>2. \A S \in SUBSET Requests : [copy[r] EXCEPT !.seen = S] \in WorldState
      BY <3>1, WorldStateTypes
    <3>3. PICK S \in SUBSET Requests :
            \/ world' = [world EXCEPT ![sess[r]] = [copy[r] EXCEPT !.seen = S]]
            \/ world' = world
      BY <1>17, <3>1, WorldStateTypes DEF SaveTier2Result
    <3>. QED
      BY <3>1, <3>2, <3>3
  <2>. QED
    BY <1>17, <2>1, <2>2, <2>3 DEF SaveTier2Result
<1>18. CASE Crash
  BY <1>18, WorldStateTypes DEF Crash
<1>19. CASE UNCHANGED vars
  BY <1>19 DEF vars
<1>. QED
  BY <1>1, <1>2, <1>3, <1>5, <1>6, <1>7, <1>8, <1>9, <1>10, <1>11, <1>12, <1>13,
     <1>14, <1>15, <1>16, <1>17, <1>18, <1>19 DEF Next, Turn, Tier2, Administer

\* Type correctness of the store and of the handlers working on it.
THEOREM TypeCorrect == SafetySpec => []TypeOK
BY TypeInit, TypeStep, PTL DEF SafetySpec

-----------------------------------------------------------------------------
(* Ownership.                                                              *)

\* Nothing has happened to a Journey that was not created yet.
AbsentUntouched ==
  \A s \in Sessions : owner[s] = "absent" =>
    /\ messages[s] = <<>>
    /\ \A r \in Requests : sess[r] = s => pc[r] = "idle"

\* The owner check a handler passed still holds when it writes, up to a claim.
ActingAuthorised ==
  \A r \in Requests :
    pc[r] \in InFlight \cup Background /\ Live(sess[r]) => Authorised(r, sess[r])

OwnerInv == AbsentUntouched /\ ActingAuthorised /\ OnlyOwnersSpeak

\* Authority over s depends on its owner and on the claims made, only.
LEMMA AuthorityKept ==
  ASSUME TypeOK, NEW r \in Requests, NEW s \in Sessions,
         owner'[s] = owner[s], claims' = claims, sess' = sess, who' = who
  PROVE  /\ Live(s)' <=> Live(s)
         /\ Authorised(r, s)' <=> Authorised(r, s)
BY DEF Live, Authorised

\* A claim extends authority to the browser's new account and takes none away.
LEMMA ClaimKeepsAuthority ==
  ASSUME TypeOK, NEW a \in Anons, NEW u \in Users, Claim(a, u),
         NEW r \in Requests, NEW s \in Sessions, Live(s), Authorised(r, s)
  PROVE  Authorised(r, s)'
<1>1. sess' = sess /\ who' = who
  BY DEF Claim, reqVars
<1>2. claims' = [claims EXCEPT ![a] = claims[a] \cup {u}] /\ claims \in [Anons -> SUBSET Users]
  BY DEF Claim, TypeOK
<1>3. owner'[s] = IF owner[s] = a THEN u ELSE owner[s]
  BY DEF Claim
<1>4. CASE owner[s] = a
  <2>1. who[r] = a
    BY <1>2, <1>4, IdentityAssumption DEF Authorised
  <2>. QED
    BY <1>1, <1>2, <1>3, <1>4, <2>1 DEF Authorised
<1>5. CASE owner[s] # a
  BY <1>1, <1>2, <1>3, <1>5 DEF Authorised
<1>. QED
  BY <1>4, <1>5

\* A Journey that survives a delete or a reset is as it was, or has lost its
\* messages.
LEMMA ForgetKeepsOwnerInv ==
  ASSUME TypeOK, TypeOK', OwnerInv, NEW S \in SUBSET Sessions, NEW M \in SUBSET Sessions,
         Forget(S, M), UNCHANGED <<reqVars, claims>>
  PROVE  OwnerInv'
<1>1. \A s \in Sessions : /\ Live(s)' => owner'[s] = owner[s] /\ Live(s)
                          /\ owner'[s] = "absent" => owner[s] = "absent"
                          /\ messages'[s] \in {messages[s], <<>>}
  BY StatusAssumption DEF Forget, Live, TypeOK
<1>2. sess' = sess /\ who' = who /\ pc' = pc /\ claims' = claims
  BY DEF reqVars
<1>3. \A r \in Requests, s \in Sessions : Live(s)' /\ Authorised(r, s) => Authorised(r, s)'
  BY <1>1, <1>2 DEF Authorised
<1>4. AbsentUntouched'
  BY <1>1, <1>2 DEF AbsentUntouched, OwnerInv
<1>5. ActingAuthorised'
  BY <1>1, <1>2, <1>3 DEF ActingAuthorised, OwnerInv, TypeOK
<1>6. OnlyOwnersSpeak'
  <2> SUFFICES ASSUME NEW s \in Sessions, Live(s)', NEW i \in DOMAIN messages'[s],
                      NEW q \in Requests, messages'[s][i].req = q
               PROVE  Authorised(q, s)'
    BY EntryRequest DEF OnlyOwnersSpeak, Authorised
  <2>1. messages'[s] = messages[s]
    BY <1>1
  <2>2. Authorised(q, s)
    BY <1>1, <2>1 DEF OwnerInv, OnlyOwnersSpeak
  <2>. QED
    BY <1>3, <2>1, <2>2
<1>. QED
  BY <1>4, <1>5, <1>6 DEF OwnerInv

\* A step of handler r that changes nothing of the ownership, and writes at
\* most one more message, of its own.
LEMMA HandlerKeepsOwnerInv ==
  ASSUME TypeOK, TypeOK', OwnerInv, NEW r \in Requests,
         UNCHANGED <<owner, claims, sess, who>>,
         pc[r] # "idle" \/ owner[sess[r]] = who[r]
                       \/ (owner[sess[r]] # "absent" /\ pc'[r] \notin InFlight \cup Background),
         pc[r] \notin Finished,
         \A p \in Requests : p # r => pc'[p] = pc[p],
         \/ messages' = messages
         \/ \E e \in Entry :
              /\ e.req = r /\ pc[r] # "idle"
              /\ messages' = [messages EXCEPT ![sess[r]] = Append(messages[sess[r]], e)]
  PROVE  OwnerInv'
<1>1. \A p \in Requests, s \in Sessions :
        (Live(s)' <=> Live(s)) /\ (Authorised(p, s)' <=> Authorised(p, s))
  BY AuthorityKept
<1>2. owner[sess[r]] # "absent"
  BY StatusAssumption DEF OwnerInv, AbsentUntouched, TypeOK
<1>3. pc[r] # "idle" /\ Live(sess[r]) => Authorised(r, sess[r])
  BY DEF OwnerInv, ActingAuthorised, TypeOK
<1>4. AbsentUntouched'
  <2> SUFFICES ASSUME NEW s \in Sessions, owner'[s] = "absent"
               PROVE  /\ messages'[s] = <<>>
                      /\ \A p \in Requests : sess'[p] = s => pc'[p] = "idle"
    BY DEF AbsentUntouched
  <2>1. owner[s] = "absent" /\ s # sess[r]
    BY <1>2
  <2>2. messages'[s] = messages[s]
    BY <2>1 DEF TypeOK
  <2>. QED
    BY <2>1, <2>2 DEF OwnerInv, AbsentUntouched
<1>5. ActingAuthorised'
  <2> SUFFICES ASSUME NEW p \in Requests, pc'[p] \in InFlight \cup Background, Live(sess[p])'
               PROVE  Authorised(p, sess[p])'
    BY DEF ActingAuthorised
  <2>1. sess'[p] = sess[p] /\ sess[p] \in Sessions
    BY DEF TypeOK
  <2>2. Authorised(p, sess[p])
    <3>1. CASE p = r
      BY <1>1, <1>3, <2>1, <3>1 DEF Authorised, TypeOK
    <3>2. CASE p # r
      BY <1>1, <2>1, <3>2 DEF OwnerInv, ActingAuthorised
    <3>. QED
      BY <3>1, <3>2
  <2>. QED
    BY <1>1, <2>1, <2>2
<1>6. OnlyOwnersSpeak'
  <2> SUFFICES ASSUME NEW s \in Sessions, Live(s)', NEW i \in DOMAIN messages'[s],
                      NEW q \in Requests, messages'[s][i].req = q
               PROVE  Authorised(q, s)'
    BY EntryRequest DEF OnlyOwnersSpeak, Authorised
  <2>1. Live(s)
    BY <1>1
  <2>2. CASE i \in DOMAIN messages[s] /\ messages'[s][i] = messages[s][i]
    <3>1. Authorised(q, s)
      BY <2>1, <2>2 DEF OwnerInv, OnlyOwnersSpeak
    <3>. QED
      BY <1>1, <2>2, <3>1
  <2>3. CASE ~(i \in DOMAIN messages[s] /\ messages'[s][i] = messages[s][i])
    <3>1. s = sess[r] /\ pc[r] # "idle" /\ q = r
      <4>1. PICK e \in Entry :
              /\ e.req = r /\ pc[r] # "idle"
              /\ messages' = [messages EXCEPT ![sess[r]] = Append(messages[sess[r]], e)]
        BY <2>3
      <4>2. messages[sess[r]] \in Seq(Entry) /\ messages \in [Sessions -> Seq(Entry)]
        BY DEF TypeOK
      <4>3. s = sess[r]
        BY <2>3, <4>1, <4>2
      <4>4. messages'[s] = Append(messages[s], e)
        BY <4>1, <4>2, <4>3
      <4>. QED
        BY <2>3, <4>1, <4>2, <4>3, <4>4, AppendEntry
    <3>. QED
      BY <1>1, <1>3, <2>1, <3>1
  <2>. QED
    BY <2>2, <2>3
<1>. QED
  BY <1>4, <1>5, <1>6 DEF OwnerInv

LEMMA OwnerInvInit == Init => OwnerInv
BY StatusAssumption DEF Init, OwnerInv, AbsentUntouched, ActingAuthorised, OnlyOwnersSpeak, Live

LEMMA OwnerInvStep == TypeOK /\ TypeOK' /\ OwnerInv /\ [Next]_vars => OwnerInv'
<1> SUFFICES ASSUME TypeOK, TypeOK', OwnerInv, [Next]_vars
             PROVE  OwnerInv'
  OBVIOUS
<1> USE DEF dbVars, reqVars, adminVars, history
<1>1. ASSUME NEW s \in Sessions, NEW i \in Identities, CreateSession(s, i)
      PROVE  OwnerInv'
  <2>1. /\ \A t \in Sessions : t # s => owner'[t] = owner[t]
        /\ owner'[s] = i /\ owner[s] = "absent" /\ messages[s] = <<>>
        /\ \A r \in Requests : sess[r] = s => pc[r] = "idle"
    BY <1>1 DEF CreateSession, OwnerInv, AbsentUntouched, TypeOK
  <2>2. UNCHANGED <<messages, pc, sess, who, claims>>
    BY <1>1 DEF CreateSession
  <2>3. AbsentUntouched'
    BY <2>1, <2>2, StatusAssumption DEF OwnerInv, AbsentUntouched
  <2>4. \A r \in Requests, t \in Sessions :
          t # s => (Live(t)' <=> Live(t)) /\ (Authorised(r, t)' <=> Authorised(r, t))
    BY <2>1, <2>2 DEF Live, Authorised
  <2>5. ActingAuthorised'
    BY <2>1, <2>2, <2>4 DEF OwnerInv, ActingAuthorised, TypeOK
  <2>6. OnlyOwnersSpeak'
    <3> SUFFICES ASSUME NEW t \in Sessions, Live(t)', NEW j \in DOMAIN messages'[t],
                        NEW q \in Requests, messages'[t][j].req = q
                 PROVE  Authorised(q, t)'
      BY EntryRequest DEF OnlyOwnersSpeak, Authorised
    <3>. QED
      BY <2>1, <2>2, <2>4 DEF OwnerInv, OnlyOwnersSpeak
  <2>. QED
    BY <2>3, <2>5, <2>6 DEF OwnerInv
<1>2. ASSUME NEW a \in Anons, NEW u \in Users, Claim(a, u)
      PROVE  OwnerInv'
  <2>1. \A s \in Sessions : /\ Live(s)' <=> Live(s)
                            /\ owner'[s] = "absent" <=> owner[s] = "absent"
    BY <1>2, StatusAssumption DEF Claim, Live, TypeOK
  <2>2. UNCHANGED <<messages, pc, sess, who>>
    BY <1>2 DEF Claim
  <2>3. AbsentUntouched'
    BY <2>1, <2>2 DEF OwnerInv, AbsentUntouched
  <2>4. ActingAuthorised'
    BY <1>2, <2>1, <2>2, ClaimKeepsAuthority DEF OwnerInv, ActingAuthorised, TypeOK
  <2>5. OnlyOwnersSpeak'
    <3> SUFFICES ASSUME NEW t \in Sessions, Live(t)', NEW j \in DOMAIN messages'[t],
                        NEW q \in Requests, messages'[t][j].req = q
                 PROVE  Authorised(q, t)'
      BY EntryRequest DEF OnlyOwnersSpeak, Authorised
    <3>1. Live(t) /\ Authorised(q, t)
      BY <2>1, <2>2 DEF OwnerInv, OnlyOwnersSpeak
    <3>. QED
      BY <1>2, <3>1, ClaimKeepsAuthority
  <2>. QED
    BY <2>3, <2>4, <2>5 DEF OwnerInv
<1>3. ASSUME NEW u \in Users, NEW s \in Sessions, DeleteSession(u, s)
      PROVE  OwnerInv'
  BY <1>3, ForgetKeepsOwnerInv DEF DeleteSession
<1>4. ASSUME NEW p \in resetting, ResetAllData(p)
      PROVE  OwnerInv'
  <2>1. p.ids \in SUBSET Sessions
    BY DEF TypeOK
  <2>. QED
    BY <1>4, <2>1, ForgetKeepsOwnerInv DEF ResetAllData
<1>5. CASE UNCHANGED <<owner, messages, pc, sess, who, claims>>
  <2>1. \A p \in Requests, s \in Sessions :
          (Live(s)' <=> Live(s)) /\ (Authorised(p, s)' <=> Authorised(p, s))
    BY <1>5, AuthorityKept
  <2>2. OnlyOwnersSpeak'
    <3> SUFFICES ASSUME NEW t \in Sessions, Live(t)', NEW j \in DOMAIN messages'[t],
                        NEW q \in Requests, messages'[t][j].req = q
                 PROVE  Authorised(q, t)'
      BY EntryRequest DEF OnlyOwnersSpeak, Authorised
    <3>. QED
      BY <1>5, <2>1 DEF OwnerInv, OnlyOwnersSpeak
  <2>3. AbsentUntouched' /\ ActingAuthorised'
    BY <1>5, <2>1 DEF OwnerInv, AbsentUntouched, ActingAuthorised, TypeOK
  <2>. QED
    BY <2>2, <2>3 DEF OwnerInv
<1>6. ASSUME NEW r \in Requests, RequireOwnedSession(r)
      PROVE  OwnerInv'
  <2>1. /\ UNCHANGED <<owner, messages, claims, sess, who>>
        /\ pc[r] = "idle" /\ owner[sess[r]] # "absent"
        /\ \A p \in Requests : p # r => pc'[p] = pc[p]
        /\ owner[sess[r]] = who[r] \/ pc'[r] = "refused"
    BY <1>6 DEF RequireOwnedSession, Goto, Owns, TypeOK
  <2>. QED
    BY <2>1, HandlerKeepsOwnerInv
<1>7. ASSUME NEW r \in Requests,
             Turn(r) \/ Tier2(r)
      PROVE  OwnerInv'
  <2>1. UNCHANGED <<owner, claims, sess, who>>
    BY <1>7 DEF Turn, Tier2, Admit, LoadState, RunTurn, AppendUserMessage, SaveTurnResult,
                SaveEvents, Respond, LoadForTier2, SaveTier2Result
  <2>2. /\ pc[r] \notin Finished /\ pc[r] # "idle"
        /\ \A p \in Requests : p # r => pc'[p] = pc[p]
    BY <1>7, SMTT(40) DEF Turn, Tier2, Admit, LoadState, RunTurn, AppendUserMessage, SaveTurnResult,
                SaveEvents, Respond, LoadForTier2, SaveTier2Result, Goto, TypeOK
  <2>3. \/ messages' = messages
        \/ \E e \in Entry :
             /\ e.req = r
             /\ messages' = [messages EXCEPT ![sess[r]] = Append(messages[sess[r]], e)]
    <3>1. /\ Question(r) \in Entry /\ Question(r).req = r
          /\ Answer(r) \in Entry /\ Answer(r).req = r
      BY EntryTypes DEF Question, Answer
    <3>. QED
      BY <1>7, <3>1 DEF Turn, Tier2, Admit, LoadState, RunTurn, AppendUserMessage, SaveTurnResult,
                        SaveEvents, Respond, LoadForTier2, SaveTier2Result
  <2>. QED
    BY <2>1, <2>2, <2>3, HandlerKeepsOwnerInv
<1>8. CASE Crash
  <2>1. /\ UNCHANGED <<owner, messages, claims, sess, who>>
        /\ \A r \in Requests : pc'[r] \in {pc[r], "lost"} /\ (pc[r] = "idle" => pc'[r] = "idle")
    BY <1>8 DEF Crash, TypeOK
  <2>2. \A p \in Requests, s \in Sessions :
          (Live(s)' <=> Live(s)) /\ (Authorised(p, s)' <=> Authorised(p, s))
    BY <2>1, AuthorityKept
  <2>3. OnlyOwnersSpeak'
    <3> SUFFICES ASSUME NEW t \in Sessions, Live(t)', NEW j \in DOMAIN messages'[t],
                        NEW q \in Requests, messages'[t][j].req = q
                 PROVE  Authorised(q, t)'
      BY EntryRequest DEF OnlyOwnersSpeak, Authorised
    <3>. QED
      BY <2>1, <2>2 DEF OwnerInv, OnlyOwnersSpeak
  <2>4. AbsentUntouched' /\ ActingAuthorised'
    BY <2>1, <2>2 DEF OwnerInv, AbsentUntouched, ActingAuthorised, TypeOK
  <2>. QED
    BY <2>3, <2>4 DEF OwnerInv
<1>9. ASSUME NEW u \in Users, NEW s \in Sessions, RequireOwnedForDelete(u, s)
      PROVE  OwnerInv'
  BY <1>5, <1>9 DEF RequireOwnedForDelete
<1>10. ASSUME NEW u \in Users, SelectForReset(u)
       PROVE  OwnerInv'
  BY <1>5, <1>10 DEF SelectForReset
<1>11. CASE UNCHANGED vars
  BY <1>5, <1>11 DEF vars
<1>. QED
  BY <1>1, <1>2, <1>3, <1>4, <1>6, <1>7, <1>8, <1>9, <1>10, <1>11 DEF Next, Administer

\* In every Journey that exists, every message comes from a request of its
\* owner or of the browser the owner claimed it from.
THEOREM OwnersSpeak == SafetySpec => []OnlyOwnersSpeak
<1>1. Init => OwnerInv
  BY OwnerInvInit
<1>2. TypeOK /\ TypeOK' /\ OwnerInv /\ [Next]_vars => OwnerInv'
  BY OwnerInvStep
<1>3. OwnerInv => OnlyOwnersSpeak
  BY DEF OwnerInv
<1>. QED
  BY <1>1, <1>2, <1>3, TypeCorrect, PTL DEF SafetySpec

-----------------------------------------------------------------------------
(* A delete that passed its check stays the owner's.                       *)

\* No claim takes a Journey away from the account whose delete of it is under
\* way, so the check-then-act of the delete handler is sound.
THEOREM DeleteAuthorised == SafetySpec => []DeleteStillAuthorised
<1>1. Init => DeleteStillAuthorised
  BY DEF Init, DeleteStillAuthorised
<1>2. TypeOK /\ DeleteStillAuthorised /\ [Next]_vars => DeleteStillAuthorised'
  <2> SUFFICES ASSUME TypeOK, DeleteStillAuthorised, [Next]_vars
               PROVE  DeleteStillAuthorised'
    OBVIOUS
  <2> USE DEF dbVars, reqVars, adminVars, history
  <2>1. ASSUME NEW s \in Sessions, NEW i \in Identities, CreateSession(s, i)
        PROVE  DeleteStillAuthorised'
    BY <2>1, StatusAssumption DEF CreateSession, DeleteStillAuthorised, TypeOK
  <2>2. ASSUME NEW a \in Anons, NEW u \in Users, Claim(a, u)
        PROVE  DeleteStillAuthorised'
    BY <2>2, IdentityAssumption, StatusAssumption DEF Claim, DeleteStillAuthorised, TypeOK
  <2>3. ASSUME NEW S, NEW M, Forget(S, M), \A u \in Users : deleting'[u] \subseteq deleting[u]
        PROVE  DeleteStillAuthorised'
    BY <2>3 DEF Forget, DeleteStillAuthorised, TypeOK
  <2>4. ASSUME NEW u \in Users, NEW s \in Sessions, DeleteSession(u, s)
        PROVE  DeleteStillAuthorised'
    BY <2>3, <2>4 DEF DeleteSession, TypeOK
  <2>5. ASSUME NEW p \in resetting, ResetAllData(p)
        PROVE  DeleteStillAuthorised'
    BY <2>3, <2>5 DEF ResetAllData
  <2>6. ASSUME NEW u \in Users, NEW s \in Sessions, RequireOwnedForDelete(u, s)
        PROVE  DeleteStillAuthorised'
    BY <2>6 DEF RequireOwnedForDelete, DeleteStillAuthorised, TypeOK
  <2>7. CASE owner' = owner /\ \A u \in Users : deleting'[u] \subseteq deleting[u]
    BY <2>7 DEF DeleteStillAuthorised
  <2>8. ASSUME NEW r \in Requests, RequireOwnedSession(r) \/ Turn(r) \/ Tier2(r)
        PROVE  DeleteStillAuthorised'
    BY <2>7, <2>8 DEF RequireOwnedSession, Turn, Tier2, Admit, LoadState, RunTurn,
      AppendUserMessage, SaveTurnResult, SaveEvents, Respond, LoadForTier2, SaveTier2Result
  <2>9. ASSUME NEW u \in Users, SelectForReset(u)
        PROVE  DeleteStillAuthorised'
    BY <2>7, <2>9 DEF SelectForReset
  <2>10. CASE Crash
    BY <2>7, <2>10 DEF Crash
  <2>11. CASE UNCHANGED vars
    BY <2>7, <2>11 DEF vars
  <2>. QED
    BY <2>1, <2>2, <2>4, <2>5, <2>6, <2>8, <2>9, <2>10, <2>11 DEF Next, Administer
<1>. QED
  BY <1>1, <1>2, TypeCorrect, PTL DEF SafetySpec

-----------------------------------------------------------------------------
(* The understanding is about turns its own document holds.                *)

\* Not inductive alone: the copies the handlers hold must be grounded too.
GroundedInv ==
  /\ UnderstandingGrounded
  /\ \A r \in Requests : copy[r].seen \subseteq copy[r].turns

\* Whole-document writes keep the stored Tier2 understanding consistent with
\* the turns stored next to it, however stale the copy that is written.
THEOREM Grounded == SafetySpec => []UnderstandingGrounded
<1> DEFINE Ok(w) == w.seen \subseteq w.turns
<1>1. Ok(EmptyWorld)
  BY DEF EmptyWorld
<1>2. \A w \in WorldState, r \in Requests : \A o : Ok(w) => Ok(Integrate(w, r, o))
  BY DEF WorldState, Integrate
<1>3. \A w \in WorldState : \A S \in {w.turns, w.seen} : Ok(w) => Ok([w EXCEPT !.seen = S])
  BY DEF WorldState
<1>4. Init => GroundedInv
  BY <1>1 DEF Init, GroundedInv, UnderstandingGrounded
<1>5. TypeOK /\ GroundedInv /\ [Next]_vars => GroundedInv'
  <2> SUFFICES ASSUME TypeOK, GroundedInv, [Next]_vars
               PROVE  GroundedInv'
    OBVIOUS
  <2> USE DEF dbVars, reqVars, adminVars, history
  <2> HIDE DEF Ok
  <2>1. /\ \A s \in Sessions : Ok(world[s]) /\ world[s] \in WorldState
        /\ \A r \in Requests : Ok(copy[r]) /\ copy[r] \in WorldState
        /\ \A r \in Requests : sess[r] \in Sessions
    BY DEF GroundedInv, UnderstandingGrounded, TypeOK, Ok
  <2>2. (/\ \A s \in Sessions : Ok(world'[s])
         /\ \A r \in Requests : Ok(copy'[r]))
        => GroundedInv'
    BY DEF GroundedInv, UnderstandingGrounded, Ok
  <2>3. ASSUME NEW S, NEW M, Forget(S, M), copy' = copy
        PROVE  GroundedInv'
    BY <1>1, <2>1, <2>2, <2>3 DEF Forget
  <2>4. CASE world' = world /\ copy' = copy
    BY <2>1, <2>2, <2>4
  <2>5. ASSUME NEW r \in Requests, LoadState(r) \/ LoadForTier2(r)
        PROVE  GroundedInv'
    BY <2>1, <2>2, <2>5 DEF LoadState, LoadForTier2, TypeOK
  <2>6. ASSUME NEW r \in Requests, RunTurn(r)
        PROVE  GroundedInv'
    <3>1. \E w : Ok(w) /\ copy' = [copy EXCEPT ![r] = w]
      <4>1. CASE \E o \in {"answered", "stage", "interp"} :
                   copy' = [copy EXCEPT ![r] = Integrate(copy[r], r, o)]
        BY <1>2, <2>1, <4>1
      <4>2. CASE copy' = [copy EXCEPT ![r] = EmptyWorld]
        BY <1>1, <4>2
      <4>. QED
        BY <2>6, <4>1, <4>2 DEF RunTurn
    <3>2. world' = world
      BY <2>6 DEF RunTurn
    <3>. QED
      BY <2>1, <2>2, <3>1, <3>2 DEF TypeOK
  <2>7. ASSUME NEW r \in Requests, SaveTurnResult(r)
        PROVE  GroundedInv'
    BY <1>1, <2>1, <2>2, <2>7 DEF SaveTurnResult, TypeOK
  <2>8. ASSUME NEW r \in Requests, SaveTier2Result(r)
        PROVE  GroundedInv'
    <3>1. PICK S \in {copy[r].turns, copy[r].seen} :
            \/ world' = [world EXCEPT ![sess[r]] = [copy[r] EXCEPT !.seen = S]]
            \/ world' = world
      BY <2>8 DEF SaveTier2Result
    <3>2. Ok([copy[r] EXCEPT !.seen = S])
      BY <1>3, <2>1
    <3>3. \A s \in Sessions : Ok(world'[s])
      BY <2>1, <3>1, <3>2 DEF TypeOK
    <3>4. copy' = [copy EXCEPT ![r] = EmptyWorld]
      BY <2>8 DEF SaveTier2Result
    <3>. QED
      BY <1>1, <2>1, <2>2, <3>3, <3>4 DEF TypeOK
  <2>9. CASE Crash
    BY <1>1, <2>1, <2>2, <2>9 DEF Crash
  <2>10. ASSUME NEW r \in Requests,
                RequireOwnedSession(r) \/ Admit(r) \/ AppendUserMessage(r) \/ SaveEvents(r) \/ Respond(r)
         PROVE  GroundedInv'
    BY <2>4, <2>10 DEF RequireOwnedSession, Admit, AppendUserMessage, SaveEvents, Respond
  <2>11. CASE Administer
    BY <2>3, <2>4, <2>11 DEF Administer, CreateSession, Claim, RequireOwnedForDelete,
      DeleteSession, SelectForReset, ResetAllData
  <2>12. CASE UNCHANGED vars
    BY <2>4, <2>12 DEF vars
  <2>. QED
    BY <2>5, <2>6, <2>7, <2>8, <2>9, <2>10, <2>11, <2>12 DEF Next, Turn, Tier2
<1>6. GroundedInv => UnderstandingGrounded
  BY DEF GroundedInv
<1>. QED
  BY <1>4, <1>5, <1>6, TypeCorrect, PTL DEF SafetySpec
=============================================================================
