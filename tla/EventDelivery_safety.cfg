CONSTANTS
  l1 = l1
  l2 = l2
  w = w
  Listeners = {l1, l2, w}
  Watchers = {w}
  Capacity = 2
  MaxEvents = 3
  MaxClaims = 2
SPECIFICATION Spec
SYMMETRY ListenerSymmetry
INVARIANTS
  
  PayloadPinned
  OnceInOrder
  DrainedAtExit
  StuckIsOwners
CHECK_DEADLOCK FALSE
