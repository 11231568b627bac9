----------------------------- MODULE PrivacyScreen -----------------------------
(***************************************************************************)
(* The two privacy switches of the Settings screen (Settings.svelte,       *)
(* lib/api.js) and the preferences they stand for on the server            *)
(* (server.py, db.py).  The screen starts from defaults and asks for the   *)
(* stored preferences; each touch of a switch posts both; the server       *)
(* reads, and writes, the two in transactions of their own; a request may  *)
(* fail, or its server die between the two; and the screen may be left     *)
(* and opened again while requests are under way.                          *)
(***************************************************************************)
EXTENDS Naturals, FiniteSets

CONSTANTS
  Posts,      \* identities of POST requests
  MaxOpenings \* bound: how often the screen is opened

VARIABLES
  kept,     \* privacy_settings of the account, defaults where there is no row
  switches, \* crossSessionLearning and reflectionPromptEnabled
  load,     \* getPrivacySettings: "none", "asked", "half", "answered", "done", "failed"
  answer,   \* what the server read for it
  post,     \* post[p]: how far it is and what it carries
  openings,
  mingled,  \* history: two POSTs were under way at a time
  torn,     \* history: the server died between the two writes
  hasty,    \* history: a switch was touched, or the screen opened, too early
  denied    \* history: a POST failed

privacyVars == <<kept, switches, load, answer, post, openings, mingled, torn, hasty, denied>>

Settings(learning, prompt) == [learning |-> learning, prompt |-> prompt]
Defaults == Settings(TRUE, FALSE)

Running == {p \in Posts : post[p].at \in {"sent", "half"}}
Loading == load \in {"asked", "half", "answered"}

PrivacyInit ==
  /\ kept = Defaults /\ switches = Defaults /\ answer = Defaults
  /\ load = "none" /\ openings = 0
  /\ post = [p \in Posts |-> [at |-> "unsent", body |-> Defaults]]
  /\ mingled = FALSE /\ torn = FALSE /\ hasty = FALSE /\ denied = FALSE

\* A fresh component: onMount asks for what is stored.  The answer to an
\* earlier opening reaches a component that is gone.
OpenSettings ==
  /\ openings < MaxOpenings /\ openings' = openings + 1
  /\ switches' = Defaults /\ load' = "asked"
  /\ hasty' = (hasty \/ Running # {})
  /\ UNCHANGED <<kept, answer, post, mingled, torn, denied>>

ReadLearning ==
  /\ load = "asked" /\ load' = "half" /\ answer' = [answer EXCEPT !.learning = kept.learning]
  /\ UNCHANGED <<kept, switches, post, openings, mingled, torn, hasty, denied>>
ReadPrompt ==
  /\ load = "half" /\ load' = "answered" /\ answer' = [answer EXCEPT !.prompt = kept.prompt]
  /\ UNCHANGED <<kept, switches, post, openings, mingled, torn, hasty, denied>>
ShowStored ==
  /\ load = "answered" /\ load' = "done" /\ switches' = answer
  /\ UNCHANGED <<kept, answer, post, openings, mingled, torn, hasty, denied>>
LoadFails ==
  /\ Loading /\ load' = "failed"
  /\ UNCHANGED <<kept, switches, answer, post, openings, mingled, torn, hasty, denied>>

\* The screen has the new value at once, whatever becomes of the request.
Send(now) ==
  /\ load # "none" /\ switches' = now
  /\ \E p \in Posts :
       /\ post[p].at = "unsent"
       /\ post' = [post EXCEPT ![p] = [at |-> "sent", body |-> now]]
  /\ mingled' = (mingled \/ Running # {})
  /\ hasty' = (hasty \/ load # "done")
  /\ UNCHANGED <<kept, load, answer, openings, torn, denied>>

\* Fault: switching learning off leaves the reflection prompt as it was.
AfterLearningAlone(s) == [s EXCEPT !.learning = ~@]

\* Without learning there is nothing to ask a reflection for.
AfterLearning(s) == Settings(~s.learning, s.prompt /\ ~s.learning)

ToggleLearning == Send(AfterLearning(switches))
\* This switch is only there while learning is on.
TogglePrompt == switches.learning /\ Send([switches EXCEPT !.prompt = ~@])

WriteLearning(p) ==
  /\ post[p].at = "sent" /\ post' = [post EXCEPT ![p].at = "half"]
  /\ kept' = [kept EXCEPT !.learning = post[p].body.learning]
  /\ UNCHANGED <<switches, load, answer, openings, mingled, torn, hasty, denied>>
WritePrompt(p) ==
  /\ post[p].at = "half" /\ post' = [post EXCEPT ![p].at = "done"]
  /\ kept' = [kept EXCEPT !.prompt = post[p].body.prompt]
  /\ UNCHANGED <<switches, load, answer, openings, mingled, torn, hasty, denied>>

\* The request never arrives or is refused, or the server stops half way:
\* the handlers await it and undo nothing.
PostFails(p) ==
  /\ p \in Running /\ post' = [post EXCEPT ![p].at = "failed"]
  /\ torn' = (torn \/ post[p].at = "half") /\ denied' = TRUE
  /\ UNCHANGED <<kept, switches, load, answer, openings, mingled, hasty>>

PrivacyNext ==
  \/ OpenSettings \/ ReadLearning \/ ReadPrompt \/ ShowStored \/ LoadFails
  \/ ToggleLearning \/ TogglePrompt
  \/ \E p \in Posts : WriteLearning(p) \/ WritePrompt(p) \/ PostFails(p)

PrivacySpec == PrivacyInit /\ [][PrivacyNext]_privacyVars

-----------------------------------------------------------------------------
\* Even if requests fail, switches are touched too early or the screen is left
\* half way: as long as no two of them mingle and none is torn, nobody is ever
\* left to be asked for reflections that nothing will learn from.
NoPromptWithoutLearning ==
  (Running = {} /\ ~mingled /\ ~torn) => (kept.prompt => kept.learning)

\* Whoever waits for the screen to load and for each request to end sees, when
\* nothing is under way, what is stored, and nothing they did not set.
ShownIsKept ==
  (load = "done" /\ Running = {} /\ ~mingled /\ ~hasty /\ ~denied) => switches = kept

\* The switches mean what they say.
SwitchesKeep == NoPromptWithoutLearning /\ ShownIsKept
=============================================================================
