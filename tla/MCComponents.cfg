SPECIFICATION Spec
CONSTANTS
  i1 = i1  i2 = i2  t1 = t1  t2 = t2  s1 = s1  s2 = s2
  q1 = q1  q2 = q2  q3 = q3  m1 = m1  m2 = m2
  p1 = p1  p2 = p2  p3 = p3
  c1 = c1  c2 = c2  c3 = c3  c4 = c4
  Goals = {i1}
  Decisions = {}
  Unknowns = {}
  Facts = {i2}
  Renewables = {m1}
  RecencyWindow = 1
  StalenessTurns = 2
  MinGrounding = 2
  LastTurn = 5
  Rebuilt <- RebuiltTables
  Columns = {m1}
  Server = p1
  Script = p2
  Turns = {t1,t2}
  Sessions = {s1,s2}
  MaxItems = 2
  MaxIds = 4
  Looks = {q1,q2,q3}
  Matters = {m1}
  Tensions = {m2}
  MaxBriefs = 3
  Preambles <- AllPreambles
  Values <- AllValues
  MaxDelta = 5
  Callers = {c1,c2,c3,c4}
  Limit = 2
  WindowTicks = 1
  LastTick = 4
  Readings <- AllReadings
  MinFollowed = 2
  MaxFollowed = 2
  LastReply = 6
  Interpretations <- AllInterpretations
  Judgments <- AllJudgments
  Plans <- AllPlans
  Replies <- AllReplies
  QuestionWindow = 2
  LastExchange = 4
  Requests = {p1,p2}
  Runner = p3
  Priced = {"qwen3"}
  Unpriced = {"free"}
  Attempts <- AllAttempts
  MaxAttempts = 2
  MaxRecorded = 4
  Extracts <- AllExtracts
  Verdicts <- AllVerdicts
  Related <- AllRelated
  StallAfter = 2
  MinEvidence = 2
  FinalTurn = 4
  Messages <- AllMessages
  RecallWindow = 2
  LastMessage = 6
  Posts = {p1,p2,p3}
  MaxOpenings = 2
CHECK_DEADLOCK FALSE
INVARIANTS SynthesisStands UpgradesKeepWhatIsThere ToldSinceLastLook ValueAsStreamed WindowKept AnswersMadeSafe
  EachCallAccounted ToldAsItWent PeopleAsTold SwitchesKeep
PROPERTIES CoachesOnEvidence
