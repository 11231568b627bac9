SPECIFICATION Spec
CONSTANTS
  r1 = r1  r2 = r2  r3 = r3  s1 = s1  s2 = s2  u1 = u1  u2 = u2
  Requests = {r1,r2,r3}
  Sessions = {s1}
  Users = {u1}
  Kinds = {"settings", "reflect", "delete"}
  Scripts = {}
  MinEvents = 2
  MaxEvents = 1
  RecentCap = 2
  MinSessions = 2
  MaxRuns = 0
CHECK_DEADLOCK FALSE
INVARIANT LeavesNoRow
