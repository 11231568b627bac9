------------------------------- MODULE SignIn -------------------------------
(***************************************************************************)
(* Signing in by mailed link: /auth/request-link, /auth/verify,            *)
(* /auth/logout (api/server.py) and the tables users, magic_links,         *)
(* auth_sessions and sessions behind them (api/db.py).                     *)
(*                                                                         *)
(* Every route runs in a thread of its own; a SELECT commits by itself and *)
(* an INSERT or UPDATE opens its transaction only then, so the two halves  *)
(* of consume_magic_link and of get_or_create_user are two steps, and so   *)
(* is each later call of /auth/verify.                                     *)
(*                                                                         *)
(* A browser stands for its anonymous id, which it keeps for good; a call  *)
(* of /auth/verify stands for the user id and the session token it may     *)
(* mint.  Rate limits only refuse requests and are left out.               *)
(*                                                                         *)
(* A definition headed "Fault:" is no part of the specification.           *)
(***************************************************************************)
CONSTANTS
  Browsers,  \* and their anonymous ids
  Emails,
  Links,     \* tokens of mailed links
  Verifies,  \* POST /auth/verify calls; their user ids and session tokens
  Journeys,  \* POST /sessions calls; the ids they return
  None       \* NULL

ASSUME IdAssumption == Browsers \cap Verifies = {} /\ "absent" \notin Browsers \cup Verifies
ASSUME NoneAssumption ==
  None \notin Browsers \cup Verifies \cup Journeys \cup Links \cup Emails \cup {"absent"}

VARIABLES
  link,    \* link[l]: "unsent", "valid", "expired"
  for,     \* for[l]: the address l was mailed to
  from,    \* from[l]: magic_links.anonymous_id
  back,    \* back[l]: magic_links.return_session_id
  used,    \* used[l]: the call that set used_at last
  users,   \* rows of `users`
  tokens,  \* tokens[t]: the user_id of auth_sessions row t, None when gone
  owner,   \* owner[j]: the owner column of sessions row j, or "absent"
  by,      \* by[j]: the identity POST /sessions resolved for j
  cookie,  \* cookie[b]: the session cookie of b
  pc, clicked, at, got, reply,  \* /auth/verify: its progress, token, browser, locals
  before   \* history: before[v]: the owners when v read its link

accountVars == <<users, tokens>>
journeyVars == <<owner, by>>
linkVars == <<link, for, from, back, used>>
callVars == <<pc, clicked, at, got, reply, before>>
vars == <<linkVars, accountVars, journeyVars, cookie, callVars>>

-----------------------------------------------------------------------------
User(i, e) == [id |-> i, email |-> e]

Init ==
  /\ link = [l \in Links |-> "unsent"]
  /\ for = [l \in Links |-> None]
  /\ from = [l \in Links |-> None]
  /\ back = [l \in Links |-> None]
  /\ used = [l \in Links |-> None]
  /\ users = {}
  /\ tokens = [t \in Verifies |-> None]
  /\ owner = [j \in Journeys |-> "absent"]
  /\ by = [j \in Journeys |-> None]
  /\ cookie = [b \in Browsers |-> None]
  /\ pc = [v \in Verifies |-> "idle"]
  /\ clicked = [v \in Verifies |-> None]
  /\ at = [v \in Verifies |-> None]
  /\ got = [v \in Verifies |-> None]
  /\ reply = [v \in Verifies |-> None]
  /\ before = [v \in Verifies |-> owner]

-----------------------------------------------------------------------------
\* get_user_id_for_auth_session and resolve_identity.
SignedIn(b) == cookie[b] # None /\ tokens[cookie[b]] # None
Identity(b) == IF SignedIn(b) THEN tokens[cookie[b]] ELSE b

\* POST /sessions: the identity is resolved ...
BeginJourney(b, j) ==
  /\ by[j] = None
  /\ by' = [by EXCEPT ![j] = Identity(b)]
  /\ UNCHANGED <<linkVars, accountVars, owner, cookie, callVars>>

\* ... and the row inserted for it.
CreateJourney(j) ==
  /\ owner[j] = "absent" /\ by[j] # None
  /\ owner' = [owner EXCEPT ![j] = by[j]]
  /\ UNCHANGED <<linkVars, accountVars, by, cookie, callVars>>

\* POST /auth/request-link, the mail included.  The client may name any
\* Journey to return to.
RequestLink(b, l, e, j) ==
  /\ link[l] = "unsent"
  /\ link' = [link EXCEPT ![l] = "valid"]
  /\ for' = [for EXCEPT ![l] = e]
  /\ from' = [from EXCEPT ![l] = IF SignedIn(b) THEN None ELSE b]
  /\ back' = [back EXCEPT ![l] = j]
  /\ UNCHANGED <<used, accountVars, journeyVars, cookie, callVars>>

\* Fifteen minutes pass.
ExpireLink(l) ==
  /\ link[l] = "valid"
  /\ link' = [link EXCEPT ![l] = "expired"]
  /\ UNCHANGED <<for, from, back, used, accountVars, journeyVars, cookie, callVars>>

\* Thirty days pass.
ExpireSession(t) ==
  /\ tokens[t] # None
  /\ tokens' = [tokens EXCEPT ![t] = None]
  /\ UNCHANGED <<linkVars, users, journeyVars, cookie, callVars>>

Logout(b) ==
  /\ cookie[b] # None
  /\ tokens' = [tokens EXCEPT ![cookie[b]] = None]
  /\ cookie' = [cookie EXCEPT ![b] = None]
  /\ UNCHANGED <<linkVars, users, journeyVars, callVars>>

-----------------------------------------------------------------------------
(* POST /auth/verify, from whichever browser the mail is opened in.        *)

Goto(v, a, b) ==
  /\ pc[v] = a
  /\ pc' = [pc EXCEPT ![v] = b]

Honoured(l) == link[l] = "valid" /\ used[l] = None

\* consume_magic_link, the SELECT and the checks on the row.
ReadLink(v, b, l) ==
  /\ link[l] # "unsent"
  /\ Goto(v, "idle", IF Honoured(l) THEN "valid" ELSE "refused")
  /\ clicked' = [clicked EXCEPT ![v] = l]
  /\ at' = [at EXCEPT ![v] = b]
  /\ before' = [before EXCEPT ![v] = owner]
  /\ UNCHANGED <<linkVars, accountVars, journeyVars, cookie, got, reply>>

\* consume_magic_link, the UPDATE.
BurnLink(v) ==
  /\ Goto(v, "valid", "burned")
  /\ used' = [used EXCEPT ![clicked[v]] = v]
  /\ UNCHANGED <<link, for, from, back, accountVars, journeyVars, cookie,
                 clicked, at, got, reply, before>>

Email(v) == for[clicked[v]]

\* get_or_create_user, the SELECT.
FindUser(v) ==
  /\ \/ /\ Goto(v, "burned", "known")
        /\ \E u \in users : u.email = Email(v) /\ got' = [got EXCEPT ![v] = u.id]
     \/ /\ Goto(v, "burned", "unknown")
        /\ \A u \in users : u.email # Email(v)
        /\ UNCHANGED got
  /\ UNCHANGED <<linkVars, accountVars, journeyVars, cookie, clicked, at, reply, before>>

\* Fault: INSERT OR IGNORE, the id kept anyway.
InsertOrIgnore(v) ==
  /\ Goto(v, "unknown", "known")
  /\ users' = IF \E u \in users : u.email = Email(v) THEN users
              ELSE users \cup {User(v, Email(v))}
  /\ got' = [got EXCEPT ![v] = v]
  /\ UNCHANGED <<linkVars, tokens, journeyVars, cookie, clicked, at, reply, before>>

\* get_or_create_user, the INSERT: email is UNIQUE, the loser of a race gets
\* an IntegrityError and the request ends in a 500.
InsertUser(v) ==
  /\ \/ /\ Goto(v, "unknown", "failed")
        /\ \E u \in users : u.email = Email(v)
        /\ UNCHANGED <<users, got>>
     \/ /\ Goto(v, "unknown", "known")
        /\ \A u \in users : u.email # Email(v)
        /\ users' = users \cup {User(v, Email(v))}
        /\ got' = [got EXCEPT ![v] = v]
  /\ UNCHANGED <<linkVars, tokens, journeyVars, cookie, clicked, at, reply, before>>

\* Fault: the Journeys of the browser the link was opened in.
ClaimWhereOpened(v) ==
  /\ Goto(v, "known", "claimed")
  /\ owner' = [j \in Journeys |-> IF owner[j] = at[v] THEN got[v] ELSE owner[j]]
  /\ UNCHANGED <<linkVars, accountVars, by, cookie, clicked, at, got, reply, before>>

\* claim_anonymous_sessions, for the browser that asked for the link.
ClaimJourneys(v) ==
  /\ Goto(v, "known", "claimed")
  /\ owner' = [j \in Journeys |-> IF owner[j] = from[clicked[v]] THEN got[v] ELSE owner[j]]
  /\ UNCHANGED <<linkVars, accountVars, by, cookie, clicked, at, got, reply, before>>

CreateAuthSession(v) ==
  /\ Goto(v, "claimed", "signed")
  /\ tokens' = [tokens EXCEPT ![v] = got[v]]
  /\ UNCHANGED <<linkVars, users, journeyVars, cookie, clicked, at, got, reply, before>>

\* Fault: the Journey asked for is handed back as it is.
AskedFor(v) == back[clicked[v]]

\* The Journey to return to, if it belongs to the account by now.
Returned(v) ==
  LET j == back[clicked[v]] IN
    IF j # None /\ owner[j] = got[v] THEN j ELSE None

\* The response, which the browser may not be there to receive.
Respond(v) ==
  /\ Goto(v, "signed", "done")
  /\ reply' = [reply EXCEPT ![v] = Returned(v)]
  /\ \/ cookie' = [cookie EXCEPT ![at[v]] = v]
     \/ UNCHANGED cookie
  /\ UNCHANGED <<linkVars, accountVars, journeyVars, clicked, at, got, before>>

Running == {"valid", "burned", "unknown", "known", "claimed", "signed"}

\* The process restarts; calls under way are gone.
Crash ==
  /\ \E v \in Verifies : pc[v] \in Running
  /\ pc' = [v \in Verifies |-> IF pc[v] \in Running THEN "lost" ELSE pc[v]]
  /\ UNCHANGED <<linkVars, accountVars, journeyVars, cookie, clicked, at, got, reply, before>>

-----------------------------------------------------------------------------
Verify(v) ==
  \/ BurnLink(v) \/ FindUser(v) \/ InsertUser(v) \/ ClaimJourneys(v)
  \/ CreateAuthSession(v) \/ Respond(v)

Next ==
  \/ \E b \in Browsers, j \in Journeys : BeginJourney(b, j)
  \/ \E j \in Journeys : CreateJourney(j)
  \/ \E b \in Browsers, l \in Links, e \in Emails, j \in Journeys \cup {None} :
        RequestLink(b, l, e, j)
  \/ \E l \in Links : ExpireLink(l)
  \/ \E t \in Verifies : ExpireSession(t)
  \/ \E b \in Browsers : Logout(b)
  \/ \E v \in Verifies, b \in Browsers, l \in Links : ReadLink(v, b, l)
  \/ \E v \in Verifies : Verify(v)
  \/ Crash

Spec == Init /\ [][Next]_vars

-----------------------------------------------------------------------------
(* Correctness.                                                            *)

Stages == {"idle", "refused", "failed", "done", "lost"} \cup Running
Owners == Browsers \cup Verifies \cup {"absent"}

TypeOK ==
  /\ link \in [Links -> {"unsent", "valid", "expired"}]
  /\ for \in [Links -> Emails \cup {None}]
  /\ from \in [Links -> Browsers \cup {None}]
  /\ back \in [Links -> Journeys \cup {None}]
  /\ used \in [Links -> Verifies \cup {None}]
  /\ users \in SUBSET [id : Verifies, email : Emails]
  /\ tokens \in [Verifies -> Verifies \cup {None}]
  /\ owner \in [Journeys -> Owners]
  /\ by \in [Journeys -> Browsers \cup Verifies \cup {None}]
  /\ cookie \in [Browsers -> Verifies \cup {None}]
  /\ pc \in [Verifies -> Stages]
  /\ clicked \in [Verifies -> Links \cup {None}]
  /\ at \in [Verifies -> Browsers \cup {None}]
  /\ got \in [Verifies -> Verifies \cup {None}]
  /\ reply \in [Verifies -> Journeys \cup {None}]
  /\ before \in [Verifies -> [Journeys -> Owners]]

\* However many calls look the same new address up at once, it gets one
\* account, and no id is given to two addresses.
OneAccountPerEmail ==
  \A u, w \in users : (u.email = w.email \/ u.id = w.id) => u = w

\* A login session belongs to the account of the address the link was mailed
\* to, the only account of that address, and that link has been burned, whatever
\* the other calls did between the five database calls of this one.
SignedInAsInvited ==
  OneAccountPerEmail /\ \A v \in Verifies : tokens[v] # None =>
    /\ User(tokens[v], for[clicked[v]]) \in users
    /\ used[clicked[v]] # None

\* A Journey begun anonymously is handed to an account only by a burned link
\* which that very browser asked for, and only to the account of the address
\* the link was mailed to, wherever the mail was opened.
ClaimsInvited ==
  \A j \in Journeys : by[j] \in Browsers /\ owner[j] \in Verifies =>
    \E l \in Links :
      /\ used[l] # None /\ from[l] = by[j]
      /\ User(owner[j], for[l]) \in users

\* "Signing up must not cost a person the Journeys they were already in the
\* middle of": once the account is signed in, no Journey the asking browser
\* had when the link was opened is still an anonymous one.
NothingLeftBehind ==
  \A v \in Verifies : pc[v] \in {"signed", "done"} =>
    \A j \in Journeys :
      before[v][j] = from[clicked[v]] => owner[j] \in Verifies

\* Signing in claims what the asking browser had, all of it, and nothing else.
ClaimsExactly == ClaimsInvited /\ NothingLeftBehind

\* The Journey a sign-in sends the browser back to is the account's, whatever
\* id the client asked for and whatever is claimed meanwhile.
ReturnsOwnJourney ==
  \A v \in Verifies : reply[v] # None => owner[reply[v]] = got[v]

\* "Single-use: ... a token can't be raced or replayed": no two calls got past
\* consume_magic_link with one token.
PastTheLink == {"burned", "unknown", "known", "claimed", "signed", "done", "failed"}
SingleUse ==
  \A v, w \in Verifies :
    clicked[v] = clicked[w] /\ pc[v] \in PastTheLink /\ pc[w] \in PastTheLink => v = w
=============================================================================
