SPECIFICATION Spec
CONSTANTS
  p1 = p1
  p2 = p2
  FFI = FFI
  Nil = Nil
  Producers = {p1, p2}
  RequestQueueCount = 2
  RequestQueueDepth = 2
  MaxSubmits = 2
SYMMETRY ProducerSymmetry
INVARIANTS
  ProducerOrder
  WakeIsPending
PROPERTIES
  ImplementsBank
CHECK_DEADLOCK FALSE
