--------------------------- MODULE MCEventDelivery ---------------------------
(* EventDelivery on a ring of two: event listeners l1, l2 and a watcher w.   *)
EXTENDS EventDelivery, TLC

CONSTANTS l1, l2, w

\* Only the safety runs use it.
ListenerSymmetry == Permutations({l1, l2})
=============================================================================
