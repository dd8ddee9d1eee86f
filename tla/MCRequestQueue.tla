---------------------------- MODULE MCRequestQueue ----------------------------
(* RequestQueue: two producers and the FFI thread on two queues of two.      *)
EXTENDS RequestQueue, TLC

CONSTANTS p1, p2

ProducerSymmetry == Permutations({p1, p2})
=============================================================================
