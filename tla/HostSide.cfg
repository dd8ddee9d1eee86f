SPECIFICATION SideSpec
CONSTANTS
  Languages = {"c", "cpp"}
  c1 = c1
  c2 = c2
  s1 = s1
  l1 = l1
  l2 = l2
  Calls = {c1, c2}
  Statics = {s1}
  Silent = {s1}
  Listeners = {l1, l2}
  MaxNeed = 5
CONSTRAINT InOrder
INVARIANTS
  ToldOnce
  UserDataLives
  UserDataReclaimed
  RequestMeansValue
  AcceptsExactly
  ReclaimedOnce
PROPERTIES
  CallReturns
  EncodingEnds
CHECK_DEADLOCK FALSE
