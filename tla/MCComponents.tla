----------------------------- MODULE MCComponents -----------------------------
(***************************************************************************)
(* The components that run within one call, or among calls of their own    *)
(* kind, each for itself: a behaviour picks one of them and the others     *)
(* stay as they started.                                                   *)
(***************************************************************************)
EXTENDS Understanding, ClarityBrief, StreamText, RateLimit, Coaching, StageOutputs,
  UsageLog, Storage, Trajectory, People, PrivacyScreen, TLC

CONSTANTS p1, p2, p3, t1, t2, s1, s2, i1, i2, q1, q2, q3, m1, m2, c1, c2, c3, c4

VARIABLE focus

Parts == {"understanding", "brief", "stream", "limiter", "coaching", "outputs", "usage",
          "storage", "trajectory", "people", "privacy"}

Init ==
  /\ focus \in Parts
  /\ UnderstandingInit /\ BriefInit /\ StreamTextInit /\ LimiterInit /\ CoachingInit
  /\ StageOutputsInit /\ UsageLogInit /\ StorageInit
  /\ TrajectoryInit /\ PeopleInit /\ PrivacyInit
  /\ focus # "usage" => tracking /\ Actors = Requests
  /\ focus # "trajectory" => recording
  /\ focus # "storage" => columns = {} /\ \A t \in Tables : shape[t] = "old"

vars ==
  <<focus, understandingVars, briefVars, streamTextVars, limiterVars, coachingVars,
    stageOutputsVars, usageLogVars, storageVars, trajectoryVars, peopleVars,
    privacyVars>>

\* Nothing but what is in focus moves.
Still(part, partVars) == focus # part => UNCHANGED partVars
Stills ==
  /\ Still("understanding", understandingVars) /\ Still("brief", briefVars)
  /\ Still("stream", streamTextVars) /\ Still("limiter", limiterVars)
  /\ Still("coaching", coachingVars)
  /\ Still("trajectory", trajectoryVars) /\ Still("people", peopleVars)
  /\ Still("privacy", privacyVars)
  /\ Still("storage", storageVars) /\ Still("outputs", stageOutputsVars) /\ Still("usage", usageLogVars)

Next ==
  /\ UNCHANGED focus
  /\ \/ focus = "understanding" /\ UnderstandingNext
     \/ focus = "brief" /\ BriefNext
     \/ focus = "stream" /\ StreamTextNext
     \/ focus = "limiter" /\ LimiterNext
     \/ focus = "coaching" /\ CoachingNext
     \/ focus = "outputs" /\ StageOutputsNext
     \/ focus = "usage" /\ UsageLogNext
     \/ focus = "storage" /\ StorageNext
     \/ focus = "trajectory" /\ TrajectoryNext
     \/ focus = "people" /\ PeopleNext
     \/ focus = "privacy" /\ PrivacyNext
  /\ Stills

Spec == Init /\ [][Next]_vars

\* Before the marker, around it and in the value: quotes, escapes and text.
AllPreambles == {<<>>, <<"x">>, <<"k1", "x">>, <<"q", "x", ":">>}
AllValues == UNION {[1..n -> {"x", "e"}] : n \in 0..2} \cup
             {<<"b", "q">>, <<"b", "b">>, <<"x", "b", "q", "x">>, <<"b", "b", "x">>, <<":">>}

\* A reading borne out, whatever else is cited for it, and one made up.
AllReadings == {[level |-> "moderate", evidence |-> {"said", "invented"}],
                [level |-> "high", evidence |-> {"invented"}]}

\* One interpretation with everything grounded, one with nothing, and between.
Interpretation(assumptions, flagged, biases, options, confidence) ==
  [assumptions |-> assumptions, hasAssumption |-> flagged, check |-> {"comment"},
   tiers |-> {"gist"}, biases |-> biases, goals |-> biases, options |-> options,
   entities |-> {"pronoun", "quote"}, unknowns |-> {"planning", "gap"},
   hasEvent |-> flagged, event |-> [option |-> "quote", status |-> "chosen"], events |-> {},
   inferences |-> {[hedged |-> flagged, confidence |-> confidence]}]
AllInterpretations ==
  {Interpretation({"pretext", "question"}, TRUE, {"quote", "gist"}, {"quote", "gist"}, 60),
   Interpretation({"reason", "gist"}, TRUE, {"invention"}, {"invention"}, 8),
   Interpretation({"invention", "quote"}, FALSE, {"reason"}, {"reason"}, 15),
   Interpretation({}, TRUE, {"quote"}, {}, 200)}

Free(words, leaks) == [text |-> words, leaks |-> leaks]
Judgment(flagged, risks, correction, confidence) ==
  [hasRisk |-> flagged, scan |-> {Free("scan", TRUE)}, risks |-> risks,
   hasResolution |-> flagged, resolution |-> [option |-> "open", status |-> "resolved"], resolutions |-> {},
   hasCorrection |-> flagged, correction |-> correction, corrections |-> {},
   insights |-> {Free("insight", TRUE)}, evidence |-> {"known", "stale"}, confidence |-> confidence]
AllJudgments ==
  {Judgment(TRUE, {}, [target |-> "fact", kind |-> "superseded", content |-> "new"], 8),
   Judgment(TRUE, {Free("risk", FALSE)}, [target |-> "fact", kind |-> "superseded", content |-> ""], 8),
   Judgment(FALSE, {}, [target |-> "", kind |-> "", content |-> ""], 60)}

Ask(topic, leaks) == [topic |-> topic, leaks |-> leaks]
AllPlans ==
  {[questions |-> q, confidence |-> 8] :
     q \in {<<>>, <<Ask("pay", FALSE)>>, <<Ask("pay", TRUE), Ask("boss", FALSE)>>,
            <<Ask("hardest part", FALSE), Ask("pay", FALSE)>>}}
AllReplies ==
  {[text |-> t, options |-> o, confidence |-> 8] :
     t \in {"", "reply"}, o \in {<<>>, <<"go", "stay", "wait">>, <<"go", "stay", "wait", "ask">>}}

Call(component, model, outcome, content) ==
  [component |-> component, model |-> model, outcome |-> outcome, content |-> content,
   reached |-> TRUE, tokens |-> 2]
AllAttempts ==
  {Call("Judgment", "qwen3", "success", TRUE), Call("Judgment", "free", "invalid_json", TRUE),
   Call("Response", "qwen3", "provider_call_error", FALSE)}

Extract(goals, updates, options, outcomes, unknowns, heard) ==
  [goals |-> goals, updates |-> updates, options |-> options, outcomes |-> outcomes,
   unknowns |-> unknowns, heard |-> heard, complaint |-> goals # <<>>, question |-> heard # {}]
Becomes(t, s) == [topic |-> t, status |-> s]
AllRelated == {<<"move", "move">>, <<"job", "job">>, <<"move", "new job">>, <<"new job", "move">>,
               <<"new job", "new job">>}
AllExtracts ==
  {Extract(<<"move">>, <<>>, <<>>, <<>>, {"job"}, {}),
   Extract(<<"new job">>, <<Becomes("move", "paused")>>, <<>>, <<>>, {}, {"job"}),
   Extract(<<>>, <<Becomes("new job", "paused"), Becomes("move", "active")>>, <<>>, <<>>, {}, {}),
   Extract(<<>>, <<>>, <<"job">>, <<Becomes("job", "deferred")>>, {"job"}, {})}
AllVerdicts ==
  {[resolutions |-> <<>>, noted |-> FALSE],
   [resolutions |-> <<Becomes("job", "resolved")>>, noted |-> TRUE],
   [resolutions |-> <<Becomes("job", "deferred")>>, noted |-> FALSE]}

\* Named in passing, described, described anew, and described in one breath twice.
About(name, attribute, value) == [name |-> name, attribute |-> attribute, value |-> value]
Signal(emotion, strength) == [emotion |-> emotion, intensity |-> strength]
AllMessages ==
  {[names |-> <<"ada">>, updates |-> <<>>, feelings |-> <<Signal("worry", 1)>>],
   [names |-> <<"ben", "ada">>, updates |-> <<About("ada", "role", "boss")>>, feelings |-> <<>>],
   [names |-> <<>>, updates |-> <<About("ada", "role", "friend"), About("ben", "age", "old")>>,
    feelings |-> <<Signal("worry", 3), Signal("hope", 2)>>],
   [names |-> <<"ada", "ada">>, updates |-> <<About("ben", "age", "young"), About("ben", "age", "old"),
    About("ben", "role", "son")>>, feelings |-> <<Signal("hope", 1), Signal("hope", 2)>>]}

RebuiltTables == <<"learned_patterns", "insights">>
=============================================================================
