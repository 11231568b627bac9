------------------------------- MODULE Coaching -------------------------------
(***************************************************************************)
(* How a Journey is coached: the mode its owner chose and what it adds to  *)
(* each response (orchestrator/modes.py), which depends on what the        *)
(* Personal Operating Model has read so far; and how that model is         *)
(* computed between the turns (pom/engine.py), from what the account said  *)
(* and from how its goals and decisions ended.                             *)
(*                                                                         *)
(* The wording of a mode is abstracted to which clauses a response gets.   *)
(***************************************************************************)
EXTENDS Naturals, FiniteSets

CONSTANTS
  Readings,     \* readings of one system the model may answer with
  MinFollowed,  \* MIN_BEHAVIORAL_EVIDENCE
  MaxFollowed,  \* bound: goals and decisions that ended
  LastReply     \* bound: turns of a Journey

ASSUME CoachingAssumption == {MinFollowed, MaxFollowed, LastReply} \subseteq Nat /\ MinFollowed > 0

VARIABLES
  mode,       \* sessions.mode of the Journey, "none" = NULL
  reply,      \* WorldState.turn_count
  followed,   \* behavioral_events: how many ended well, how many did not
  profile,    \* personal_operating_model, or NoProfile
  optedIn,    \* cross_session_learning_enabled
  note,       \* clauses the last response was given
  probed,     \* history: turns whose response probed
  raised,     \* history: turn each realign concept was last used in, 0 = none
  settled     \* history: the stored profile knew enough endings

coachingVars == <<mode, reply, followed, profile, optedIn, note, probed, raised, settled>>

ConcreteLenses == {"vent", "strategize", "commit", "explore", "realign"}
Modes == ConcreteLenses \cup {"adaptive", "none"}
Systems == {"autonomy", "competence", "learning", "stress"}

\* PLANNER_MODE_FOCUS: only "adaptive" leaves the Planner a choice of lens.
LensesOffered(m) == IF m = "adaptive" THEN ConcreteLenses ELSE {}

\* RESPONSE_MODE_FOCUS: "adaptive" has no text of its own.
Focused == ConcreteLenses
\* _POM_SEED_CLAUSES
Seeded == {"vent", "strategize", "commit", "explore"}

NoProfile == [s \in {} |-> 0]
Unread == [level |-> "unclear", evidence |-> {}]
NoNote == [lens |-> "none", probe |-> FALSE, concept |-> 0, callback |-> FALSE]
Concepts == 1..5

CoachingInit ==
  /\ mode = "none" /\ reply = 0 /\ optedIn = TRUE
  /\ followed = [well |-> 0, badly |-> 0]
  /\ profile = NoProfile /\ settled = FALSE
  /\ note = NoNote /\ probed = {} /\ raised = [c \in Concepts |-> 0]

NewJourney(m) ==
  /\ mode' = m /\ reply' = 0
  /\ note' = NoNote /\ probed' = {} /\ raised' = [c \in Concepts |-> 0]
  /\ UNCHANGED <<followed, profile, optedIn, settled>>

-----------------------------------------------------------------------------
(* The model of the account, computed offline.                             *)

\* compute_behavioral_competence
Followed == followed.well + followed.badly
Competence ==
  [level |-> CASE followed.well * 3 >= 2 * Followed -> "high"
               [] followed.well * 3 <= Followed -> "low"
               [] OTHER -> "moderate",
   evidence |-> {"followed"}]

\* _ground_batch: evidence nobody said goes, and with the last of it the reading.
Grounded(reading) ==
  LET real == reading.evidence \cap {"said"}
  IN [level |-> IF real = {} THEN "unclear" ELSE reading.level, evidence |-> real]

\* Fault: how things ended only supplements an account nothing was read of.
OverrideUnread(batch) ==
  IF Followed < MinFollowed \/ batch["competence"].level # "unclear" THEN batch
  ELSE [batch EXCEPT !["competence"].level = Competence.level]

\* compute_personal_operating_model: how things ended outweighs what was read.
Override(batch) ==
  IF Followed < MinFollowed THEN batch ELSE [batch EXCEPT !["competence"] = Competence]

\* run_inferred_pom; an account that said nothing yet is not sent to a model.
ComputePOM(batch) ==
  /\ optedIn
  /\ profile' = Override([s \in Systems |-> Grounded(batch[s])])
  /\ settled' = (Followed >= MinFollowed)
  /\ UNCHANGED <<mode, reply, followed, optedIn, note, probed, raised>>

\* A goal completed or abandoned, a decision resolved, deferred or expired.
End(how) ==
  /\ Followed < MaxFollowed
  /\ followed' = [followed EXCEPT ![how] = @ + 1]
  /\ UNCHANGED <<mode, reply, profile, optedIn, note, probed, raised, settled>>

SetLearning ==
  /\ optedIn' = ~optedIn
  /\ UNCHANGED <<mode, reply, followed, profile, note, probed, raised, settled>>

-----------------------------------------------------------------------------
(* One turn.                                                               *)

SystemsRead(lens) ==
  CASE lens = "vent" -> {"stress"}
    [] lens = "strategize" -> {"autonomy", "competence"}
    [] lens = "commit" -> {"competence"}
    [] lens = "explore" -> {"learning"}
    [] OTHER -> {}

\* _pom_dimension_is_thin, of the profile the turn was given.
Thin(lens) ==
  \/ profile = NoProfile \/ ~optedIn
  \/ \E s \in SystemsRead(lens) : profile[s].level = "unclear" \/ profile[s].evidence = {}

\* _should_seed_pom
ShouldSeed(lens, turn) == lens \in Seeded /\ turn % 3 = 0 /\ Thin(lens)

\* _realign_concept_for_turn
ConceptFor(turn) == 1 + (turn % 5)

\* response_mode_focus_note
NoteFor(lens, turn, relevant) ==
  [lens |-> IF lens \in Focused THEN lens ELSE "none",
   probe |-> ShouldSeed(lens, turn),
   concept |-> IF lens = "realign" THEN ConceptFor(turn) ELSE 0,
   callback |-> turn = 1 /\ relevant /\ optedIn]

\* In an adaptive Journey the Planner's lens of this turn, if it named one.
Respond(active, relevant) ==
  /\ reply < LastReply /\ active \in LensesOffered(mode) \cup {"none"}
  /\ LET turn == reply + 1
         lens == IF mode = "adaptive" /\ active # "none" THEN active ELSE mode
         given == NoteFor(lens, turn, relevant)
     IN /\ reply' = turn /\ note' = given
        /\ probed' = IF given.probe THEN probed \cup {turn} ELSE probed
        /\ raised' = [c \in Concepts |-> IF c = given.concept THEN turn ELSE raised[c]]
  /\ UNCHANGED <<mode, followed, profile, optedIn, settled>>

\* A turn that is counted but ends before Response.
FailAfterCounting ==
  /\ reply < LastReply
  /\ reply' = reply + 1 /\ note' = NoNote
  /\ UNCHANGED <<mode, followed, profile, optedIn, probed, raised, settled>>

CoachingNext ==
  \/ \E m \in Modes : NewJourney(m)
  \/ \E batch \in [Systems -> Readings] : ComputePOM(batch)
  \/ \E how \in {"well", "badly"} : End(how)
  \/ SetLearning
  \/ \E active \in ConcreteLenses \cup {"none"}, relevant \in BOOLEAN : Respond(active, relevant)
  \/ FailAfterCounting

CoachingSpec == CoachingInit /\ [][CoachingNext]_coachingVars

\* Nothing is held of a person that rests on nothing: each reading of a stored
\* profile has evidence that was said, or seen in how things ended.
ReadingsEvidenced ==
  \A s \in DOMAIN profile :
    profile[s].level # "unclear" => profile[s].evidence # {} /\ profile[s].evidence \subseteq {"said", "followed"}

\* Whatever the model made of what was said, an account whose endings have been
\* counted is not asked why it cannot follow through.
AskedWhatIsKnown == note'.probe /\ note'.lens = "commit" /\ settled /\ optedIn

\* Over a Journey, whichever lens each turn has, two probes lie three turns
\* apart and a concept does not return within five.
TooSoon ==
  \/ note'.probe /\ \E t \in probed : reply' - t < 3
  \/ \E c \in Concepts : note'.concept = c /\ raised[c] > 0 /\ reply' - raised[c] < 5

\* What coaching goes by is evidence, and it does not nag.
CoachesOnEvidence ==
  [][ReadingsEvidenced' /\ (reply' > reply => ~AskedWhatIsKnown /\ ~TooSoon)]_coachingVars
=============================================================================
