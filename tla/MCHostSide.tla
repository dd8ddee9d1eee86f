------------------------------ MODULE MCHostSide ------------------------------
(* HostSide with two calls on the context and one without it, two listeners, *)
(* and requests of up to five first buffers: three rounds of growth.         *)
EXTENDS HostSide, TLC

CONSTANTS c1, c2, s1, l1, l2

\* Bound: the calls on a context, which are alike, are made in one order, and the
\* listeners are added in one order.
InOrder ==
  /\ at[c2] # "idle" => at[c1] # "idle"
  /\ lbox[l2] # "none" => lbox[l1] # "none"
=============================================================================
