SPECIFICATION PatientSpec
CONSTANTS
  r1 = r1  r2 = r2  s1 = s1  s2 = s2  u1 = u1  u2 = u2  a1 = a1
  Requests = {r1,r2}
  Sessions = {s1}
  Users = {u1}
  Anons = {a1}
  AnonLimit = 1
  MaxCrashes = 1
INVARIANTS AnonymousCap NothingSilentlyDeleted BriefAgreesWithWorld
PROPERTY EveryRequestSettles
