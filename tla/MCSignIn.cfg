SPECIFICATION MCSpec
CONSTANTS
  b1 = b1  b2 = b2  e1 = e1  e2 = e2  l1 = l1  l2 = l2
  v1 = v1  v2 = v2  j1 = j1  None = None
  Browsers = {b1,b2}
  Emails = {e1,e2}
  Links = {l1,l2}
  Verifies = {v1,v2}
  Journeys = {j1}
SYMMETRY SignInSymmetry
INVARIANTS SignedInAsInvited ClaimsExactly ReturnsOwnJourney
