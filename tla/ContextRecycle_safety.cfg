CONSTANTS
  r1 = r1
  c1 = c1
  d1 = d1
  Requests = {r1, c1}
  Ctors = {c1}
  Destroyers = {d1}
  MaxClaims = 2
  Stoppable = TRUE
SPECIFICATION Spec
CONSTRAINT JoinMeetsOneRequest
INVARIANTS
  RequestOwnedOnce
  LibraryOfOwnClaim
  EndedMeansTornDown
  OkMeansTornDown
PROPERTIES
  NoAnswerAfterDestroy
  QuarantineIsFinal
  ImplementsSlotLifecycle
CHECK_DEADLOCK FALSE
