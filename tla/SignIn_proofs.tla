--------------------------- MODULE SignIn_proofs ---------------------------
(***************************************************************************)
(* Signing in, for any number of browsers, addresses, links, calls and     *)
(* Journeys, across restarts.                                              *)
(***************************************************************************)
EXTENDS SignIn, TLAPS

Past == {"known", "claimed", "signed", "done"}

\* What a call has established so far.
CallInv ==
  /\ \A v \in Verifies : pc[v] # "idle" =>
       clicked[v] \in Links /\ at[v] \in Browsers /\ link[clicked[v]] # "unsent"
  /\ \A v \in Verifies : pc[v] \in PastTheLink => used[clicked[v]] # None
  /\ \A v \in Verifies : pc[v] \in Past =>
       got[v] \in Verifies /\ User(got[v], for[clicked[v]]) \in users
  /\ \A l \in Links : used[l] # None => link[l] # "unsent"
  /\ \A l \in Links : link[l] # "unsent" => for[l] \in Emails

\* OneAccountPerEmail: an id is taken only once its call has inserted it.
AccountInv ==
  /\ OneAccountPerEmail
  /\ \A u \in users : pc[u.id] \notin {"idle", "valid", "burned", "unknown", "refused"}

\* SignedInAsInvited: a call that has given out a session is past changing.
SessionInv ==
  \A v \in Verifies : tokens[v] # None =>
    /\ pc[v] \in {"signed", "done", "lost"}
    /\ User(tokens[v], for[clicked[v]]) \in users /\ used[clicked[v]] # None

\* ClaimsInvited: a Journey is its creator's until a link claims it.
ClaimInv ==
  /\ ClaimsInvited
  /\ \A j \in Journeys : by[j] = None => owner[j] = "absent"
  /\ \A j \in Journeys : owner[j] \in Browsers => owner[j] = by[j]

\* NothingLeftBehind, from the reading of the link on.
BehindInv ==
  \A v \in Verifies, j \in Journeys :
    pc[v] \in Running \cup {"done"} /\ before[v][j] = from[clicked[v]] =>
      \/ owner[j] \in Verifies
      \/ pc[v] \in {"valid", "burned", "unknown", "known"} /\ owner[j] = from[clicked[v]]

\* ReturnsOwnJourney: what is an account's is never claimed away.
ReplyInv ==
  \A v \in Verifies : reply[v] # None =>
    pc[v] = "done" /\ got[v] \in Verifies /\ owner[reply[v]] = got[v]

-----------------------------------------------------------------------------
LEMMA TypeInit == ASSUME Init PROVE TypeOK
BY DEF Init, TypeOK, Stages, Owners, Running

LEMMA TypeStep == ASSUME TypeOK, CallInv, [Next]_vars PROVE TypeOK'
<1> USE DEF linkVars, accountVars, journeyVars, callVars, Goto, Stages, Running
<1>1. CASE UNCHANGED vars BY <1>1 DEF TypeOK, vars
<1>2. ASSUME NEW b \in Browsers, NEW j \in Journeys, BeginJourney(b, j) PROVE TypeOK'
  <2>1. Identity(b) \in Browsers \cup Verifies BY DEF Identity, SignedIn, TypeOK
  <2> QED BY <1>2, <2>1 DEF BeginJourney, TypeOK
<1>3. ASSUME NEW j \in Journeys, CreateJourney(j) PROVE TypeOK'
  BY <1>3 DEF CreateJourney, TypeOK, Owners
<1>4. ASSUME NEW b \in Browsers, NEW l \in Links, NEW e \in Emails, NEW j \in Journeys \cup {None},
             RequestLink(b, l, e, j)
      PROVE  TypeOK'
  BY <1>4 DEF RequestLink, TypeOK
<1>5. ASSUME NEW l \in Links, ExpireLink(l) PROVE TypeOK'
  BY <1>5 DEF ExpireLink, TypeOK
<1>6. ASSUME NEW t \in Verifies, ExpireSession(t) PROVE TypeOK'
  BY <1>6 DEF ExpireSession, TypeOK
<1>7. ASSUME NEW b \in Browsers, Logout(b) PROVE TypeOK'
  BY <1>7 DEF Logout, TypeOK
<1>8. ASSUME NEW v \in Verifies, NEW b \in Browsers, NEW l \in Links, ReadLink(v, b, l) PROVE TypeOK'
  BY <1>8 DEF ReadLink, TypeOK
<1>9. ASSUME NEW v \in Verifies, Verify(v) PROVE TypeOK'
  <2>1. pc[v] # "idle" => clicked[v] \in Links /\ at[v] \in Browsers BY DEF CallInv
  <2>2. CASE BurnLink(v) BY <2>1, <2>2 DEF BurnLink, TypeOK
  <2>3. CASE FindUser(v) BY <2>1, <2>3 DEF FindUser, TypeOK
  <2>4. CASE InsertUser(v)
    <3>1. User(v, Email(v)) \in [id : Verifies, email : Emails]
      BY <2>4 DEF InsertUser, User, Email, CallInv
    <3>2. users' \in SUBSET [id : Verifies, email : Emails]
      BY <2>4, <3>1 DEF InsertUser, TypeOK
    <3>3. got' \in [Verifies -> Verifies \cup {None}] /\ pc' \in [Verifies -> Stages]
      BY <2>4, ZenonT(40) DEF InsertUser, TypeOK
    <3> QED BY <2>4, <3>2, <3>3 DEF InsertUser, TypeOK
  <2>5. CASE ClaimJourneys(v)
    <3>1. got[v] \in Verifies BY <2>5 DEF ClaimJourneys, CallInv, Past
    <3> QED BY <2>5, <3>1 DEF ClaimJourneys, TypeOK, Owners
  <2>6. CASE CreateAuthSession(v) BY <2>6 DEF CreateAuthSession, TypeOK
  <2>7. CASE Respond(v)
    <3>1. Returned(v) \in Journeys \cup {None} BY <2>1, <2>7 DEF Respond, Returned, TypeOK
    <3> QED BY <2>1, <2>7, <3>1 DEF Respond, TypeOK
  <2> QED BY <1>9, <2>2, <2>3, <2>4, <2>5, <2>6, <2>7 DEF Verify
<1>10. CASE Crash
  BY <1>10 DEF Crash, TypeOK
<1> QED BY <1>1, <1>2, <1>3, <1>4, <1>5, <1>6, <1>7, <1>8, <1>9, <1>10 DEF Next

-----------------------------------------------------------------------------
(* What no step undoes *)

LEMMA Monotone ==
  ASSUME TypeOK, CallInv, [Next]_vars
  PROVE  /\ users \subseteq users'
         /\ \A l \in Links : link[l] # "unsent" =>
              /\ link'[l] # "unsent" /\ for'[l] = for[l] /\ from'[l] = from[l] /\ back'[l] = back[l]
              /\ used[l] # None => used'[l] # None
         /\ \A v \in Verifies : pc[v] # "idle" =>
              /\ pc'[v] # "idle" /\ clicked'[v] = clicked[v] /\ at'[v] = at[v]
              /\ before'[v] = before[v]
         /\ \A v \in Verifies : pc[v] \in Past => got'[v] = got[v]
<1> USE DEF linkVars, accountVars, journeyVars, callVars, Goto, Past
<1> DEFINE Users == users \subseteq users'
           Sent == \A l \in Links : link[l] # "unsent" =>
              /\ link'[l] # "unsent" /\ for'[l] = for[l] /\ from'[l] = from[l] /\ back'[l] = back[l]
              /\ used[l] # None => used'[l] # None
           Read == \A v \in Verifies : pc[v] # "idle" =>
              /\ pc'[v] # "idle" /\ clicked'[v] = clicked[v] /\ at'[v] = at[v]
              /\ before'[v] = before[v]
           Got == \A v \in Verifies : pc[v] \in Past => got'[v] = got[v]
           Kept == Users /\ Sent /\ Read /\ Got
<1>1. ASSUME UNCHANGED vars PROVE Kept BY <1>1 DEF vars
<1>2. ASSUME NEW b \in Browsers, NEW j \in Journeys, BeginJourney(b, j) PROVE Kept
  BY <1>2 DEF BeginJourney
<1>3. ASSUME NEW j \in Journeys, CreateJourney(j) PROVE Kept
  BY <1>3 DEF CreateJourney
<1>4. ASSUME NEW b \in Browsers, NEW l \in Links, NEW e \in Emails, NEW j \in Journeys \cup {None},
             RequestLink(b, l, e, j)
      PROVE  Kept
  BY <1>4 DEF RequestLink, TypeOK
<1>5. ASSUME NEW l \in Links, ExpireLink(l) PROVE Kept
  BY <1>5 DEF ExpireLink, TypeOK
<1>6. ASSUME NEW t \in Verifies, ExpireSession(t) PROVE Kept
  BY <1>6 DEF ExpireSession
<1>7. ASSUME NEW b \in Browsers, Logout(b) PROVE Kept
  BY <1>7 DEF Logout
<1>8. ASSUME NEW v \in Verifies, NEW b \in Browsers, NEW l \in Links, ReadLink(v, b, l) PROVE Kept
  BY <1>8 DEF ReadLink, TypeOK
<1>9. ASSUME NEW v \in Verifies, Verify(v) PROVE Kept
  <2>1. ASSUME BurnLink(v) PROVE Kept
    <3>1. v # None BY NoneAssumption
    <3> QED BY <2>1, <3>1 DEF BurnLink, TypeOK
  <2>2. ASSUME FindUser(v) PROVE Kept BY <2>2 DEF FindUser, TypeOK
  <2>3. ASSUME InsertUser(v) PROVE Kept BY <2>3 DEF InsertUser, TypeOK
  <2>4. ASSUME ClaimJourneys(v) PROVE Kept BY <2>4 DEF ClaimJourneys, TypeOK
  <2>5. ASSUME CreateAuthSession(v) PROVE Kept BY <2>5 DEF CreateAuthSession, TypeOK
  <2>6. ASSUME Respond(v) PROVE Kept BY <2>6 DEF Respond, TypeOK
  <2> QED BY <1>9, <2>1, <2>2, <2>3, <2>4, <2>5, <2>6 DEF Verify
<1>10. ASSUME Crash PROVE Kept
  BY <1>10 DEF Crash, TypeOK, Running
<1> QED BY <1>1, <1>2, <1>3, <1>4, <1>5, <1>6, <1>7, <1>8, <1>9, <1>10 DEF Next

\* A call moves only by a step of its own, or is lost in a restart.
LEMMA Moves ==
  ASSUME TypeOK, [Next]_vars, NEW v \in Verifies
  PROVE  \/ pc'[v] = pc[v]
         \/ \E b \in Browsers, l \in Links : ReadLink(v, b, l)
         \/ BurnLink(v) \/ FindUser(v) \/ InsertUser(v)
         \/ ClaimJourneys(v) \/ CreateAuthSession(v) \/ Respond(v)
         \/ pc'[v] = "lost" /\ pc[v] \in Running
<1> USE DEF linkVars, accountVars, journeyVars, callVars, Goto
<1>1. ASSUME UNCHANGED vars PROVE pc' = pc BY <1>1 DEF vars
<1>2. ASSUME NEW b \in Browsers, NEW j \in Journeys, BeginJourney(b, j) PROVE pc' = pc
  BY <1>2 DEF BeginJourney
<1>3. ASSUME NEW j \in Journeys, CreateJourney(j) PROVE pc' = pc
  BY <1>3 DEF CreateJourney
<1>4. ASSUME NEW b \in Browsers, NEW l \in Links, NEW e \in Emails, NEW j \in Journeys \cup {None},
             RequestLink(b, l, e, j)
      PROVE  pc' = pc
  BY <1>4 DEF RequestLink
<1>5. ASSUME NEW l \in Links, ExpireLink(l) PROVE pc' = pc BY <1>5 DEF ExpireLink
<1>6. ASSUME NEW t \in Verifies, ExpireSession(t) PROVE pc' = pc BY <1>6 DEF ExpireSession
<1>7. ASSUME NEW b \in Browsers, Logout(b) PROVE pc' = pc BY <1>7 DEF Logout
<1>8. ASSUME NEW w \in Verifies, NEW b \in Browsers, NEW l \in Links, ReadLink(w, b, l), w # v
      PROVE  pc'[v] = pc[v]
  BY <1>8 DEF ReadLink, TypeOK
<1>9. ASSUME NEW w \in Verifies, Verify(w), w # v PROVE pc'[v] = pc[v]
  BY <1>9 DEF Verify, BurnLink, FindUser, InsertUser, ClaimJourneys, CreateAuthSession, Respond, TypeOK
<1>10. ASSUME Crash PROVE pc'[v] = pc[v] \/ (pc'[v] = "lost" /\ pc[v] \in Running)
  BY <1>10 DEF Crash
<1> QED BY <1>1, <1>2, <1>3, <1>4, <1>5, <1>6, <1>7, <1>8, <1>9, <1>10 DEF Next, Verify

\* A link is mailed once and burned only by a call that read it; a Journey
\* changes hands only when it is claimed; a login session is its call's.
LEMMA LinkMoves ==
  ASSUME TypeOK, [Next]_vars
  PROVE  \A l \in Links :
           /\ used'[l] = used[l] \/ \E v \in Verifies : BurnLink(v) /\ clicked[v] = l
           /\ link[l] = "unsent" => link'[l] = "unsent" \/ for'[l] \in Emails
<1> USE DEF linkVars, accountVars, journeyVars, callVars
<1> DEFINE Goal == \A l \in Links :
                     /\ used'[l] = used[l] \/ \E v \in Verifies : BurnLink(v) /\ clicked[v] = l
                     /\ link[l] = "unsent" => link'[l] = "unsent" \/ for'[l] \in Emails
<1>1. ASSUME link' = link, used' = used PROVE Goal BY <1>1
<1>2. ASSUME NEW b \in Browsers, NEW l \in Links, NEW e \in Emails, NEW j \in Journeys \cup {None},
             RequestLink(b, l, e, j)
      PROVE  Goal
  <2>1. used' = used BY <1>2 DEF RequestLink
  <2>2. for' = [for EXCEPT ![l] = e] /\ link' = [link EXCEPT ![l] = "valid"] BY <1>2 DEF RequestLink
  <2> QED BY <2>1, <2>2 DEF TypeOK
<1>3. ASSUME NEW l \in Links, ExpireLink(l) PROVE Goal
  <2>1. used' = used BY <1>3 DEF ExpireLink
  <2>2. link[l] = "valid" /\ link' = [link EXCEPT ![l] = "expired"] BY <1>3 DEF ExpireLink
  <2> QED BY <2>1, <2>2 DEF TypeOK
<1>4. ASSUME NEW v \in Verifies, BurnLink(v) PROVE Goal
  <2>1. link' = link /\ used' = [used EXCEPT ![clicked[v]] = v] BY <1>4 DEF BurnLink
  <2> QED BY <1>4, <2>1 DEF TypeOK
<1>5. ASSUME NEW v \in Verifies, Verify(v), ~BurnLink(v) PROVE Goal
  <2>1. link' = link /\ used' = used
    BY <1>5 DEF Verify, FindUser, InsertUser, ClaimJourneys, CreateAuthSession, Respond
  <2> QED BY <1>1, <2>1
<1>6. ASSUME \/ UNCHANGED vars
             \/ \E b \in Browsers, j \in Journeys : BeginJourney(b, j)
             \/ \E j \in Journeys : CreateJourney(j)
             \/ \E t \in Verifies : ExpireSession(t)
             \/ \E b \in Browsers : Logout(b)
             \/ \E v \in Verifies, b \in Browsers, l \in Links : ReadLink(v, b, l)
             \/ Crash
      PROVE  Goal
  <2>1. link' = link /\ used' = used
    BY <1>6 DEF vars, BeginJourney, CreateJourney, ExpireSession, Logout, ReadLink, Crash
  <2> QED BY <1>1, <2>1
<1> QED BY <1>2, <1>3, <1>4, <1>5, <1>6 DEF Next

LEMMA JourneyMoves ==
  ASSUME TypeOK, [Next]_vars
  PROVE  \/ UNCHANGED <<owner, by>>
         \/ \E b \in Browsers, j \in Journeys : BeginJourney(b, j)
         \/ \E j \in Journeys : CreateJourney(j)
         \/ \E v \in Verifies : ClaimJourneys(v)
<1> USE DEF linkVars, accountVars, journeyVars, callVars
<1>1. ASSUME \/ UNCHANGED vars
             \/ \E b \in Browsers, l \in Links, e \in Emails, j \in Journeys \cup {None} :
                  RequestLink(b, l, e, j)
             \/ \E l \in Links : ExpireLink(l)
             \/ \E t \in Verifies : ExpireSession(t)
             \/ \E b \in Browsers : Logout(b)
             \/ \E v \in Verifies, b \in Browsers, l \in Links : ReadLink(v, b, l)
             \/ \E v \in Verifies : \/ BurnLink(v) \/ FindUser(v) \/ InsertUser(v)
                                    \/ CreateAuthSession(v) \/ Respond(v)
             \/ Crash
      PROVE  UNCHANGED <<owner, by>>
  BY <1>1 DEF vars, RequestLink, ExpireLink, ExpireSession, Logout, ReadLink, BurnLink, FindUser,
     InsertUser, CreateAuthSession, Respond, Crash
<1> QED BY <1>1 DEF Next, Verify

LEMMA TokenMoves ==
  ASSUME TypeOK, [Next]_vars, NEW v \in Verifies
  PROVE  tokens'[v] = tokens[v] \/ tokens'[v] = None \/ CreateAuthSession(v)
<1> USE DEF linkVars, accountVars, journeyVars, callVars
<1>1. ASSUME NEW t \in Verifies, ExpireSession(t)
      PROVE  tokens'[v] = tokens[v] \/ tokens'[v] = None
  BY <1>1 DEF ExpireSession, TypeOK
<1>2. ASSUME NEW b \in Browsers, Logout(b)
      PROVE  tokens'[v] = tokens[v] \/ tokens'[v] = None
  BY <1>2 DEF Logout, TypeOK
<1>3. ASSUME NEW w \in Verifies, CreateAuthSession(w), w # v PROVE tokens'[v] = tokens[v]
  BY <1>3 DEF CreateAuthSession, TypeOK
<1>4. ASSUME NEW w \in Verifies,
             BurnLink(w) \/ FindUser(w) \/ InsertUser(w) \/ ClaimJourneys(w) \/ Respond(w)
      PROVE  tokens' = tokens
  BY <1>4 DEF BurnLink, FindUser, InsertUser, ClaimJourneys, Respond
<1>5. ASSUME \/ UNCHANGED vars
             \/ \E b \in Browsers, j \in Journeys : BeginJourney(b, j)
             \/ \E j \in Journeys : CreateJourney(j)
             \/ \E b \in Browsers, l \in Links, e \in Emails, j \in Journeys \cup {None} :
                  RequestLink(b, l, e, j)
             \/ \E l \in Links : ExpireLink(l)
             \/ \E w \in Verifies, b \in Browsers, l \in Links : ReadLink(w, b, l)
             \/ Crash
      PROVE  tokens' = tokens
  BY <1>5 DEF vars, BeginJourney, CreateJourney, RequestLink, ExpireLink, ReadLink, Crash
<1> QED BY <1>1, <1>2, <1>3, <1>4, <1>5 DEF Next, Verify

LEMMA UserMoves ==
  ASSUME TypeOK, [Next]_vars
  PROVE  users' = users \/ \E v \in Verifies : /\ InsertUser(v)
                                               /\ \A u \in users : u.email # Email(v)
                                               /\ users' = users \cup {User(v, Email(v))}
<1> USE DEF linkVars, accountVars, journeyVars, callVars
<1>1. ASSUME NEW v \in Verifies, InsertUser(v)
      PROVE  users' = users \/ (/\ \A u \in users : u.email # Email(v)
                                /\ users' = users \cup {User(v, Email(v))})
  BY <1>1 DEF InsertUser
<1>2. ASSUME NEW w \in Verifies, Verify(w), ~InsertUser(w) PROVE users' = users
  BY <1>2 DEF Verify, BurnLink, FindUser, ClaimJourneys, CreateAuthSession, Respond
<1>3. ASSUME \/ UNCHANGED vars
             \/ \E b \in Browsers, j \in Journeys : BeginJourney(b, j)
             \/ \E j \in Journeys : CreateJourney(j)
             \/ \E b \in Browsers, l \in Links, e \in Emails, j \in Journeys \cup {None} :
                  RequestLink(b, l, e, j)
             \/ \E l \in Links : ExpireLink(l)
             \/ \E t \in Verifies : ExpireSession(t)
             \/ \E b \in Browsers : Logout(b)
             \/ \E w \in Verifies, b \in Browsers, l \in Links : ReadLink(w, b, l)
             \/ Crash
      PROVE  users' = users
  BY <1>3 DEF vars, BeginJourney, CreateJourney, RequestLink, ExpireLink, ExpireSession, Logout,
     ReadLink, Crash
<1> QED BY <1>1, <1>2, <1>3 DEF Next

LEMMA CallInit == ASSUME Init PROVE CallInv
BY DEF Init, CallInv, Past, PastTheLink

LEMMA CallStep == ASSUME TypeOK, CallInv, [Next]_vars PROVE CallInv'
<1> USE DEF Goto
<1>1. /\ users \subseteq users'
      /\ \A l \in Links : link[l] # "unsent" =>
           /\ link'[l] # "unsent" /\ for'[l] = for[l] /\ from'[l] = from[l] /\ back'[l] = back[l]
           /\ used[l] # None => used'[l] # None
      /\ \A v \in Verifies : pc[v] # "idle" =>
           /\ pc'[v] # "idle" /\ clicked'[v] = clicked[v] /\ at'[v] = at[v]
           /\ before'[v] = before[v]
      /\ \A v \in Verifies : pc[v] \in Past => got'[v] = got[v]
  BY Monotone
<1>2. ASSUME NEW v \in Verifies, pc'[v] # "idle"
      PROVE  clicked'[v] \in Links /\ at'[v] \in Browsers /\ link'[clicked'[v]] # "unsent"
  <2>1. CASE pc[v] # "idle" BY <1>1, <2>1 DEF CallInv
  <2>2. CASE pc[v] = "idle"
    <3>1. PICK b \in Browsers, l \in Links : ReadLink(v, b, l)
      BY <1>2, <2>2, Moves DEF BurnLink, FindUser, InsertUser, ClaimJourneys, CreateAuthSession,
         Respond, Running
    <3> QED BY <3>1 DEF ReadLink, linkVars, TypeOK
  <2> QED BY <2>1, <2>2
<1>3. ASSUME NEW v \in Verifies, pc'[v] \in PastTheLink
      PROVE  used'[clicked'[v]] # None
  <2>1. CASE pc[v] \in PastTheLink BY <1>1, <2>1 DEF CallInv, PastTheLink
  <2>2. CASE pc[v] \notin PastTheLink
    <3>1. BurnLink(v)
      <4>1. ASSUME NEW b \in Browsers, NEW l \in Links, ReadLink(v, b, l) PROVE FALSE
        BY <1>3, <4>1 DEF ReadLink, TypeOK, PastTheLink
      <4> QED BY <1>3, <2>2, <4>1, Moves DEF FindUser, InsertUser, ClaimJourneys, CreateAuthSession,
                 Respond, PastTheLink
    <3>2. clicked[v] \in Links BY <3>1 DEF BurnLink, CallInv
    <3> QED BY <3>1, <3>2, NoneAssumption DEF BurnLink, TypeOK
  <2> QED BY <2>1, <2>2
<1>4. ASSUME NEW v \in Verifies, pc'[v] \in Past
      PROVE  got'[v] \in Verifies /\ User(got'[v], for'[clicked'[v]]) \in users'
  <2>1. CASE pc[v] \in Past
    <3>1. for'[clicked'[v]] = for[clicked[v]] BY <1>1, <2>1 DEF CallInv, Past
    <3> QED BY <1>1, <2>1, <3>1 DEF CallInv
  <2>2. CASE pc[v] \notin Past
    <3>1. FindUser(v) \/ InsertUser(v)
      <4>1. ASSUME NEW b \in Browsers, NEW l \in Links, ReadLink(v, b, l) PROVE FALSE
        BY <1>4, <4>1 DEF ReadLink, TypeOK, Past
      <4>2. ~BurnLink(v) BY <1>4 DEF BurnLink, TypeOK, Past
      <4> QED BY <1>4, <2>2, <4>1, <4>2, Moves DEF ClaimJourneys, CreateAuthSession, Respond, Past
    <3>2. /\ clicked[v] \in Links /\ clicked'[v] = clicked[v] /\ for'[clicked[v]] = for[clicked[v]]
      BY <1>1, <3>1 DEF FindUser, InsertUser, CallInv
    <3>3. CASE FindUser(v)
      <4>1. PICK u \in users : u.email = Email(v) /\ got' = [got EXCEPT ![v] = u.id]
        BY <1>4, <3>3 DEF FindUser, TypeOK, Past
      <4>2. u.id \in Verifies /\ u = User(u.id, u.email) BY <4>1 DEF TypeOK, User
      <4> QED BY <1>1, <3>2, <4>1, <4>2 DEF Email, TypeOK
    <3>4. CASE InsertUser(v)
      <4>1. users' = users \cup {User(v, Email(v))} /\ got' = [got EXCEPT ![v] = v]
        BY <1>4, <3>4 DEF InsertUser, TypeOK, Past
      <4> QED BY <3>2, <4>1 DEF Email, TypeOK
    <3> QED BY <3>1, <3>3, <3>4
  <2> QED BY <2>1, <2>2
<1>5. ASSUME NEW l \in Links
      PROVE  /\ used'[l] # None => link'[l] # "unsent"
             /\ link'[l] # "unsent" => for'[l] \in Emails
  <2>1. CASE link[l] # "unsent" BY <1>1, <2>1 DEF CallInv
  <2>2. CASE link[l] = "unsent"
    <3>1. used[l] = None BY <2>2 DEF CallInv
    <3>2. used'[l] = None BY <2>2, <3>1, LinkMoves DEF CallInv, BurnLink
    <3>3. link'[l] = "unsent" \/ for'[l] \in Emails BY <2>2, LinkMoves
    <3> QED BY <3>2, <3>3
  <2> QED BY <2>1, <2>2
<1> QED BY <1>2, <1>3, <1>4, <1>5 DEF CallInv

-----------------------------------------------------------------------------
(* The invariants *)

LEMMA AccountStep ==
  ASSUME TypeOK, CallInv, AccountInv, [Next]_vars PROVE AccountInv'
<1>1. ASSUME NEW v \in Verifies, pc[v] \notin {"idle", "valid", "burned", "unknown", "refused"}
      PROVE  pc'[v] \notin {"idle", "valid", "burned", "unknown", "refused"}
  BY <1>1, Moves DEF ReadLink, BurnLink, FindUser, InsertUser, ClaimJourneys, CreateAuthSession,
     Respond, Goto, TypeOK, Stages, Running
<1>2. \A u \in users : u.id \in Verifies /\ u = User(u.id, u.email) BY DEF TypeOK, User
<1>3. CASE users' = users
  BY <1>1, <1>2, <1>3 DEF AccountInv, OneAccountPerEmail
<1>4. CASE \E v \in Verifies : /\ InsertUser(v)
                               /\ \A u \in users : u.email # Email(v)
                               /\ users' = users \cup {User(v, Email(v))}
  <2>1. PICK v \in Verifies : /\ InsertUser(v)
                              /\ \A u \in users : u.email # Email(v)
                              /\ users' = users \cup {User(v, Email(v))}
    BY <1>4
  <2> DEFINE row == User(v, Email(v))
  <2>2. pc[v] = "unknown" BY <2>1 DEF InsertUser, Goto
  <2>3. \A u \in users : u.id # v BY <2>2 DEF AccountInv
  <2>4. row.id = v /\ row.email = Email(v) BY DEF User
  <2>5. \A u \in users' : u \in users \/ u = row BY <2>1
  <2> HIDE DEF row
  <2>6. OneAccountPerEmail'
    <3>1. SUFFICES ASSUME NEW u \in users', NEW w \in users', u.email = w.email \/ u.id = w.id
                   PROVE  u = w
      BY DEF OneAccountPerEmail
    <3>2. CASE u \in users /\ w \in users BY <3>1, <3>2 DEF AccountInv, OneAccountPerEmail
    <3>3. CASE u \in users /\ w = row BY <2>1, <2>3, <2>4, <3>1, <3>3
    <3>4. CASE u = row /\ w \in users BY <2>1, <2>3, <2>4, <3>1, <3>4
    <3> QED BY <2>5, <3>1, <3>2, <3>3, <3>4
  <2>7. pc'[v] \in {"known", "failed"} BY <2>1 DEF InsertUser, Goto, TypeOK
  <2>8. \A u \in users' : pc'[u.id] \notin {"idle", "valid", "burned", "unknown", "refused"}
    <3>1. ASSUME NEW u \in users
          PROVE  pc'[u.id] \notin {"idle", "valid", "burned", "unknown", "refused"}
      BY <1>1, <1>2 DEF AccountInv
    <3>2. pc'[row.id] \notin {"idle", "valid", "burned", "unknown", "refused"}
      BY <2>4, <2>7
    <3> QED BY <2>5, <3>1, <3>2
  <2> QED BY <2>6, <2>8 DEF AccountInv
<1> QED BY <1>3, <1>4, UserMoves

LEMMA SessionStep ==
  ASSUME TypeOK, CallInv, SessionInv, [Next]_vars PROVE SessionInv'
<1>1. SUFFICES ASSUME NEW v \in Verifies, tokens'[v] # None
               PROVE  /\ pc'[v] \in {"signed", "done", "lost"}
                      /\ User(tokens'[v], for'[clicked'[v]]) \in users' /\ used'[clicked'[v]] # None
  BY DEF SessionInv
<1>2. CASE tokens'[v] = tokens[v]
  <2>1. /\ pc[v] \in {"signed", "done", "lost"}
        /\ User(tokens[v], for[clicked[v]]) \in users /\ used[clicked[v]] # None
    BY <1>1, <1>2 DEF SessionInv
  <2>2. clicked[v] \in Links /\ link[clicked[v]] # "unsent" BY <2>1 DEF CallInv
  <2>3. /\ clicked'[v] = clicked[v] /\ for'[clicked[v]] = for[clicked[v]]
        /\ used'[clicked[v]] # None /\ users \subseteq users'
    BY <2>1, <2>2, Monotone
  <2>4. pc'[v] \in {"signed", "done", "lost"}
    BY <2>1, Moves DEF ReadLink, BurnLink, FindUser, InsertUser, ClaimJourneys, CreateAuthSession,
       Respond, Goto, TypeOK, Stages, Running
  <2> QED BY <1>2, <2>1, <2>3, <2>4
<1>3. CASE CreateAuthSession(v)
  <2>1. /\ pc[v] = "claimed" /\ pc'[v] = "signed" /\ tokens'[v] = got[v]
        /\ UNCHANGED <<users, for, used, clicked>>
    BY <1>3 DEF CreateAuthSession, Goto, TypeOK, linkVars
  <2> QED BY <2>1 DEF CallInv, Past, PastTheLink
<1> QED BY <1>1, <1>2, <1>3, TokenMoves

LEMMA ClaimStep ==
  ASSUME TypeOK, CallInv, ClaimInv, [Next]_vars PROVE ClaimInv'
<1> DEFINE Invited(j, l) == used[l] # None /\ from[l] = by[j] /\ User(owner[j], for[l]) \in users
<1>1. \A j \in Journeys : by[j] \in Browsers /\ owner[j] \in Verifies => \E l \in Links : Invited(j, l)
  BY DEF ClaimInv, ClaimsInvited
<1>2. ASSUME NEW j \in Journeys, NEW l \in Links, Invited(j, l), by'[j] = by[j], owner'[j] = owner[j]
      PROVE  Invited(j, l)'
  <2>1. link[l] # "unsent" BY <1>2 DEF CallInv
  <2>2. for'[l] = for[l] /\ from'[l] = from[l] /\ used'[l] # None /\ users \subseteq users'
    BY <1>2, <2>1, Monotone
  <2> QED BY <1>2, <2>2
<1>3. ASSUME NEW j \in Journeys, by'[j] = by[j], owner'[j] = owner[j]
      PROVE  /\ by'[j] \in Browsers /\ owner'[j] \in Verifies => \E l \in Links : Invited(j, l)'
             /\ by'[j] = None => owner'[j] = "absent"
             /\ owner'[j] \in Browsers => owner'[j] = by'[j]
  BY <1>1, <1>2, <1>3 DEF ClaimInv
<1>4. ASSUME NEW j \in Journeys, by[j] = None, by'[j] \in Browsers \cup Verifies, owner' = owner
      PROVE  /\ by'[j] \in Browsers /\ owner'[j] \in Verifies => \E l \in Links : Invited(j, l)'
             /\ by'[j] = None => owner'[j] = "absent"
             /\ owner'[j] \in Browsers => owner'[j] = by'[j]
  BY <1>4, IdAssumption, NoneAssumption DEF ClaimInv
<1>5. ASSUME NEW j \in Journeys, by[j] # None, by' = by, owner'[j] = by[j]
      PROVE  /\ by'[j] \in Browsers /\ owner'[j] \in Verifies => \E l \in Links : Invited(j, l)'
             /\ by'[j] = None => owner'[j] = "absent"
             /\ owner'[j] \in Browsers => owner'[j] = by'[j]
  BY <1>5, IdAssumption
<1>6. ASSUME NEW v \in Verifies, ClaimJourneys(v), NEW j \in Journeys
      PROVE  /\ by'[j] \in Browsers /\ owner'[j] \in Verifies => \E l \in Links : Invited(j, l)'
             /\ by'[j] = None => owner'[j] = "absent"
             /\ owner'[j] \in Browsers => owner'[j] = by'[j]
  <2>1. /\ by' = by /\ UNCHANGED <<users, for, from, used>>
        /\ owner'[j] = IF owner[j] = from[clicked[v]] THEN got[v] ELSE owner[j]
        /\ pc[v] = "known"
    BY <1>6 DEF ClaimJourneys, Goto, linkVars, accountVars
  <2>2. CASE owner[j] = from[clicked[v]]
    <3>1. clicked[v] \in Links /\ used[clicked[v]] # None /\ got[v] \in Verifies
          /\ User(got[v], for[clicked[v]]) \in users
      BY <2>1 DEF CallInv, Past, PastTheLink
    <3>2. owner[j] \in Browsers BY <2>2, <3>1, NoneAssumption DEF TypeOK, Owners
    <3>3. by[j] = owner[j] BY <3>2 DEF ClaimInv
    <3>4. PICK l \in Links : l = clicked[v] BY <3>1
    <3>5. owner'[j] = got[v] BY <2>1, <2>2
    <3>6. used'[l] # None /\ from'[l] = by'[j] /\ User(owner'[j], for'[l]) \in users'
      BY <2>1, <2>2, <3>1, <3>3, <3>4, <3>5
    <3>7. \E k \in Links : Invited(j, k)' BY <3>6
    <3>8. by'[j] # None BY <2>1, <3>2, <3>3, NoneAssumption
    <3>9. owner'[j] \notin Browsers BY <3>1, <3>5, IdAssumption
    <3> HIDE DEF Invited
    <3> QED BY <3>7, <3>8, <3>9
  <2>3. CASE owner[j] # from[clicked[v]] BY <1>3, <2>1, <2>3
  <2> QED BY <2>2, <2>3
<1>7. ASSUME NEW j \in Journeys
      PROVE  /\ by'[j] \in Browsers /\ owner'[j] \in Verifies => \E l \in Links : Invited(j, l)'
             /\ by'[j] = None => owner'[j] = "absent"
             /\ owner'[j] \in Browsers => owner'[j] = by'[j]
  <2>1. CASE UNCHANGED <<owner, by>> BY <1>3, <2>1
  <2>2. ASSUME NEW b \in Browsers, NEW i \in Journeys, BeginJourney(b, i)
        PROVE  \/ by'[j] = by[j] /\ owner'[j] = owner[j]
               \/ by[j] = None /\ by'[j] \in Browsers \cup Verifies /\ owner' = owner
    <3>1. Identity(b) \in Browsers \cup Verifies BY DEF Identity, SignedIn, TypeOK
    <3> QED BY <2>2, <3>1 DEF BeginJourney, TypeOK
  <2>3. ASSUME NEW i \in Journeys, CreateJourney(i)
        PROVE  \/ by'[j] = by[j] /\ owner'[j] = owner[j]
               \/ by[j] # None /\ by' = by /\ owner'[j] = by[j]
    BY <2>3 DEF CreateJourney, TypeOK
  <2> QED BY <1>3, <1>4, <1>5, <1>6, <2>1, <2>2, <2>3, JourneyMoves
<1> QED BY <1>7 DEF ClaimInv, ClaimsInvited

\* Only a claim takes a Journey from its browser, and none from an account.
LEMMA Handed ==
  ASSUME TypeOK, CallInv, [Next]_vars, NEW j \in Journeys
  PROVE  /\ owner[j] \in Verifies => owner'[j] = owner[j]
         /\ owner[j] \in Browsers => owner'[j] = owner[j] \/ owner'[j] \in Verifies
<1>1. ASSUME NEW b \in Browsers, NEW i \in Journeys, BeginJourney(b, i) PROVE owner'[j] = owner[j]
  BY <1>1 DEF BeginJourney
<1>2. ASSUME NEW i \in Journeys, CreateJourney(i)
      PROVE  owner'[j] = owner[j] \/ owner[j] = "absent"
  BY <1>2 DEF CreateJourney, TypeOK
<1>3. ASSUME NEW v \in Verifies, ClaimJourneys(v)
      PROVE  owner'[j] = owner[j] \/ (owner[j] \notin Verifies /\ owner'[j] \in Verifies)
  <2>1. owner'[j] = IF owner[j] = from[clicked[v]] THEN got[v] ELSE owner[j]
    BY <1>3 DEF ClaimJourneys
  <2>2. got[v] \in Verifies /\ clicked[v] \in Links
    BY <1>3 DEF ClaimJourneys, Goto, CallInv, Past
  <2>3. from[clicked[v]] \notin Verifies BY <2>2, IdAssumption, NoneAssumption DEF TypeOK
  <2> QED BY <2>1, <2>2, <2>3
<1> QED BY <1>1, <1>2, <1>3, IdAssumption, JourneyMoves

LEMMA BehindStep ==
  ASSUME TypeOK, CallInv, BehindInv, [Next]_vars PROVE BehindInv'
<1>1. SUFFICES ASSUME NEW v \in Verifies, NEW j \in Journeys, pc'[v] \in Running \cup {"done"},
                      before'[v][j] = from'[clicked'[v]]
               PROVE  \/ owner'[j] \in Verifies
                      \/ /\ pc'[v] \in {"valid", "burned", "unknown", "known"}
                         /\ owner'[j] = from'[clicked'[v]]
  BY DEF BehindInv
<1>2. CASE pc[v] = "idle"
  <2>1. PICK b \in Browsers, l \in Links : ReadLink(v, b, l)
    BY <1>1, <1>2, Moves DEF BurnLink, FindUser, InsertUser, ClaimJourneys, CreateAuthSession,
       Respond, Goto, Running
  <2>2. /\ pc'[v] \in {"valid", "refused"} /\ before'[v] = owner /\ owner' = owner
    BY <2>1 DEF ReadLink, Goto, TypeOK, journeyVars
  <2> QED BY <1>1, <2>2 DEF Running
<1>3. CASE pc[v] # "idle"
  <2>1. /\ clicked'[v] = clicked[v] /\ before'[v] = before[v] /\ clicked[v] \in Links
        /\ from'[clicked[v]] = from[clicked[v]]
    BY <1>3, Monotone DEF CallInv
  <2>2. before[v][j] = from[clicked[v]] BY <1>1, <2>1
  <2>3. from[clicked[v]] \in Browsers
    BY <2>1, <2>2, NoneAssumption DEF TypeOK, Owners
  <2>4. /\ pc[v] \in Running \cup {"done"}
        /\ pc'[v] \in {"valid", "burned", "unknown", "known"} =>
             pc[v] \in {"valid", "burned", "unknown", "known"}
        /\ (pc[v] \in {"valid", "burned", "unknown", "known"}
            /\ pc'[v] \notin {"valid", "burned", "unknown", "known"}) => ClaimJourneys(v)
    BY <1>1, <1>3, Moves DEF ReadLink, BurnLink, FindUser, InsertUser, ClaimJourneys,
       CreateAuthSession, Respond, Goto, TypeOK, Stages, Running
  <2>5. CASE owner[j] \in Verifies BY <2>5, Handed
  <2>6. CASE owner[j] \notin Verifies
    <3>1. pc[v] \in {"valid", "burned", "unknown", "known"} /\ owner[j] = from[clicked[v]]
      BY <2>2, <2>4, <2>6 DEF BehindInv
    <3>2. CASE ClaimJourneys(v)
      BY <3>1, <3>2 DEF ClaimJourneys, Goto, CallInv, Past
    <3>3. CASE ~ClaimJourneys(v) BY <2>1, <2>3, <2>4, <3>1, <3>3, Handed
    <3> QED BY <3>2, <3>3
  <2> QED BY <2>5, <2>6
<1> QED BY <1>2, <1>3

\* The answer of a call is its own doing.
LEMMA ReplyMoves ==
  ASSUME TypeOK, [Next]_vars, NEW v \in Verifies
  PROVE  reply'[v] = reply[v] \/ Respond(v)
<1> USE DEF linkVars, accountVars, journeyVars, callVars
<1>1. ASSUME NEW w \in Verifies, Respond(w), w # v PROVE reply'[v] = reply[v]
  BY <1>1 DEF Respond, TypeOK
<1>2. ASSUME NEW w \in Verifies,
             BurnLink(w) \/ FindUser(w) \/ InsertUser(w) \/ ClaimJourneys(w) \/ CreateAuthSession(w)
      PROVE  reply' = reply
  BY <1>2 DEF BurnLink, FindUser, InsertUser, ClaimJourneys, CreateAuthSession
<1>3. ASSUME \/ UNCHANGED vars
             \/ \E b \in Browsers, j \in Journeys : BeginJourney(b, j)
             \/ \E j \in Journeys : CreateJourney(j)
             \/ \E b \in Browsers, l \in Links, e \in Emails, j \in Journeys \cup {None} :
                  RequestLink(b, l, e, j)
             \/ \E l \in Links : ExpireLink(l)
             \/ \E t \in Verifies : ExpireSession(t)
             \/ \E b \in Browsers : Logout(b)
             \/ \E w \in Verifies, b \in Browsers, l \in Links : ReadLink(w, b, l)
             \/ Crash
      PROVE  reply' = reply
  BY <1>3 DEF vars, BeginJourney, CreateJourney, RequestLink, ExpireLink, ExpireSession, Logout,
     ReadLink, Crash
<1> QED BY <1>1, <1>2, <1>3 DEF Next, Verify

LEMMA ReplyStep ==
  ASSUME TypeOK, CallInv, ReplyInv, [Next]_vars PROVE ReplyInv'
<1>1. SUFFICES ASSUME NEW v \in Verifies, reply'[v] # None
               PROVE  pc'[v] = "done" /\ got'[v] \in Verifies /\ owner'[reply'[v]] = got'[v]
  BY DEF ReplyInv
<1>2. CASE reply'[v] = reply[v]
  <2>1. /\ pc[v] = "done" /\ got[v] \in Verifies /\ owner[reply[v]] = got[v]
        /\ reply[v] \in Journeys
    BY <1>1, <1>2 DEF ReplyInv, TypeOK
  <2>2. got'[v] = got[v] BY <2>1, Monotone DEF Past
  <2>3. pc'[v] = "done"
    BY <2>1, Moves DEF ReadLink, BurnLink, FindUser, InsertUser, ClaimJourneys, CreateAuthSession,
       Respond, Goto, Running
  <2>4. owner'[reply[v]] = owner[reply[v]] BY <2>1, Handed
  <2> QED BY <1>2, <2>1, <2>2, <2>3, <2>4
<1>3. CASE Respond(v)
  <2>1. /\ pc[v] = "signed" /\ pc'[v] = "done" /\ reply'[v] = Returned(v)
        /\ UNCHANGED <<got, owner>>
    BY <1>3 DEF Respond, Goto, TypeOK, journeyVars
  <2>2. got[v] \in Verifies BY <2>1 DEF CallInv, Past
  <2>3. owner[Returned(v)] = got[v] BY <1>1, <2>1 DEF Returned
  <2> QED BY <2>1, <2>2, <2>3
<1> QED BY <1>2, <1>3, ReplyMoves

-----------------------------------------------------------------------------
(* The theorems *)

Inv == TypeOK /\ CallInv /\ AccountInv /\ SessionInv /\ ClaimInv /\ BehindInv /\ ReplyInv

LEMMA InvInit == ASSUME Init PROVE Inv
<1>1. AccountInv BY DEF Init, AccountInv, OneAccountPerEmail
<1>2. SessionInv BY DEF Init, SessionInv
<1>3. ClaimInv
  <2>1. \A j \in Journeys : owner[j] = "absent" /\ by[j] = None BY DEF Init
  <2> QED BY <2>1, IdAssumption, NoneAssumption DEF ClaimInv, ClaimsInvited
<1>4. BehindInv BY DEF Init, BehindInv, Running
<1>5. ReplyInv BY DEF Init, ReplyInv
<1> QED BY <1>1, <1>2, <1>3, <1>4, <1>5, TypeInit, CallInit DEF Inv

LEMMA InvStep == ASSUME Inv, [Next]_vars PROVE Inv'
BY TypeStep, CallStep, AccountStep, SessionStep, ClaimStep, BehindStep, ReplyStep DEF Inv

LEMMA Invariance == Spec => []Inv
<1>1. Init => Inv BY InvInit
<1>2. Inv /\ [Next]_vars => Inv' BY InvStep
<1> QED BY <1>1, <1>2, PTL DEF Spec

\* Every table and every local of a sign-in keeps the values its code gives it.
THEOREM SignInTypes == Spec => []TypeOK
<1>1. Inv => TypeOK BY DEF Inv
<1> QED BY <1>1, Invariance, PTL

\* However the five database calls of any number of sign-ins interleave, and
\* whichever of them a restart cuts off, an address has one account and a login
\* session belongs to the account of the address its burned link was mailed to.
THEOREM InvitedOnly == Spec => []SignedInAsInvited
<1>1. Inv => SignedInAsInvited BY DEF Inv, AccountInv, SessionInv, SignedInAsInvited
<1> QED BY <1>1, Invariance, PTL

\* Signing in takes over what the browser that asked for the link had when the
\* link was read, all of it, and no other browser's Journey, wherever the mail
\* was opened and however many sign-ins run at once.
THEOREM ClaimedExactly == Spec => []ClaimsExactly
<1>1. Inv => ClaimsExactly
  <2>1. BehindInv => NothingLeftBehind BY DEF BehindInv, NothingLeftBehind, Running
  <2> QED BY <2>1 DEF Inv, ClaimInv, ClaimsExactly
<1> QED BY <1>1, Invariance, PTL

\* The Journey a sign-in answers with is its account's for good.
THEOREM BackToOwn == Spec => []ReturnsOwnJourney
<1>1. Inv => ReturnsOwnJourney BY DEF Inv, ReplyInv, ReturnsOwnJourney
<1> QED BY <1>1, Invariance, PTL
=============================================================================
