SPECIFICATION ScopedSpec
CONSTANTS
  r1 = r1  r2 = r2  r3 = r3  s1 = s1  s2 = s2  u1 = u1  u2 = u2
  Requests = {r1,r2}
  Sessions = {s1,s2}
  Users = {u1,u2}
  Kinds = {"turn", "delete", "reset", "reflect", "feedback", "settings", "export"}
  Scripts = {"learned_patterns", "insights", "personal_operating_model"}
  MinEvents = 2
  MaxEvents = 1
  RecentCap = 2
  MinSessions = 2
  MaxRuns = 2
SYMMETRY AccountSymmetry
CHECK_DEADLOCK FALSE
INVARIANTS OwnDataOnly ForgottenStaysForgotten ConsentRespected EvidenceAccounted
