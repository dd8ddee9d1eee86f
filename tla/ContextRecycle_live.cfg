CONSTANTS
  r1 = r1
  c1 = c1
  d1 = d1
  Requests = {c1}
  Ctors = {c1}
  Destroyers = {d1}
  MaxClaims = 3
  Stoppable = FALSE
SPECIFICATION FairSpec
CONSTRAINT ReapMeetsOneCall
PROPERTIES
  RecycleEnds
  DestroyReturns
  AcceptedIsServed
CHECK_DEADLOCK FALSE
