---------------------------- MODULE MCContextPool ----------------------------
(* ContextPool with up to three host threads. *)
EXTENDS ContextPool, TLC

CONSTANTS h1, h2, h3

HostSymmetry == Permutations(Hosts)
=============================================================================
