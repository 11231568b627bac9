SPECIFICATION ScopedSpec
CONSTANTS
  r1 = r1  r2 = r2  s1 = s1  s2 = s2  u1 = u1  u2 = u2  a1 = a1
  Requests = {r1,r2}
  Sessions = {s1,s2}
  Users = {u1,u2}
  Anons = {a1}
  AnonLimit = 1
  MaxCrashes = 1
SYMMETRY JourneySymmetry
INVARIANTS WriteOrder ReplyIsDurable UnderstandingGrounded OnlyOwnersSpeak DeleteStillAuthorised
PROPERTY ConversationPromised
