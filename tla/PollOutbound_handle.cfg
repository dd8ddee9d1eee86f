CONSTANTS
  h1 = h1
  h2 = h2
  r1 = r1
  r2 = r2
  r3 = r3
  NoRequest = NoRequest
  Hosts = {h1}
  Requests = {r1}
  MaxOutstanding = 1
  MaxNumber = 2
  MaxClaims = 2
SPECIFICATION Spec
INVARIANTS
  HandleReady
CHECK_DEADLOCK FALSE
