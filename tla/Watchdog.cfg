CONSTANTS
  p1 = p1
  p2 = p2
  Pollers = {p1, p2}
  StaleThreshold = 1
  StartDelay = 2
  MaxClaims = 2
  MaxTime = 6
SPECIFICATION Spec
SYMMETRY PollerSymmetry
INVARIANTS
  StallsAreReal
  LatchesOfOwner
  GraceOfOwner
