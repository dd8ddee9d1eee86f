CONSTANTS
  h1 = h1
  h2 = h2
  h3 = h3
  Hosts = {h1, h2, h3}
  MaxContexts = 2
  MaxClaims = 4
  Faults = TRUE
  NimApi = TRUE
SPECIFICATION Spec
SYMMETRY HostSymmetry
INVARIANTS
  OneOwner
  HeldHasThreads
  NoSecondPair
PROPERTIES
  ImplementsSlots
CHECK_DEADLOCK FALSE
