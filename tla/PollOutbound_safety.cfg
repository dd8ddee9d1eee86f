CONSTANTS
  h1 = h1
  h2 = h2
  r1 = r1
  r2 = r2
  r3 = r3
  NoRequest = NoRequest
  Hosts = {h1, h2}
  Requests = {r1, r2, r3}
  MaxOutstanding = 2
  MaxNumber = 1
  MaxClaims = 2
SPECIFICATION Spec
SYMMETRY Symmetry
CONSTRAINTS OneRequestOrOnePoller LastClaimStays
INVARIANTS
  NoDanglingStale
  OutstandingIsExact
  ReplyIsSomewhere
  NothingOutlivesClaim
  HeldStays
  EndWakesPoller
