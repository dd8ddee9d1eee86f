--------------------------- MODULE MCPollOutbound ---------------------------
(* PollOutbound with up to two hosts and three requests.                     *)
EXTENDS PollOutbound, TLC

CONSTANTS h1, h2, r1, r2, r3

Symmetry == Permutations({h1, h2}) \union Permutations({r1, r2, r3})

\* Bound: two calls of poll overlap while at most one request was submitted.
OneRequestOrOnePoller ==
  \/ Cardinality({r \in Requests : req[r].state # "new"}) <= 1
  \/ Cardinality({h \in Hosts : call[h].pc # "idle"}) <= 1

\* Bound: the last claim does not end.
LastClaimStays ==
  generation = 2 * MaxClaims - 1 => lifecycle = "Active" /\ ffi.pc # "lastDrain"
=============================================================================
