-------------------------- MODULE MCContextRecycle --------------------------
(* ContextRecycle on a small slot: a method r1, a ctor c1 and a destroyer d1. *)
EXTENDS ContextRecycle

CONSTANTS r1, c1, d1

\* Bound: the threads are joined by one of a shutdown and a reap, and by none of
\* them where both requests are made.
JoinMeetsOneRequest ==
  /\ stopper = "idle" \/ parker = "idle"
  /\ stopper # "idle" \/ parker # "idle" => \E r \in Requests : req[r].pc = "idle"

\* Bound: a reap meets a request or a destructor's call, not both.
ReapMeetsOneCall ==
  parker # "idle" =>
    (\A r \in Requests : req[r].pc = "idle") \/ (\A d \in Destroyers : destroyer[d].pc = "idle")
=============================================================================
