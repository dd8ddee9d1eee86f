CONSTANTS
  r1 = r1
  c1 = c1
  d1 = d1
  Requests = {c1}
  Ctors = {c1}
  Destroyers = {d1}
  MaxClaims = 2
  Stoppable = TRUE
SPECIFICATION Spec
CONSTRAINT JoinMeetsOneRequest
INVARIANTS
  NoActiveContextWithoutThread
CHECK_DEADLOCK FALSE
