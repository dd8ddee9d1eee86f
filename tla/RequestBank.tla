------------------------------ MODULE RequestBank ------------------------------
(***************************************************************************)
(* What the ingress of a context promises: bounded queues that producers   *)
(* append to, and one consumer that takes them over one at a time, in      *)
(* order, and works through what it took.                                  *)
(***************************************************************************)
EXTENDS Integers, Sequences

CONSTANTS
    Requests,
    Shards,     \* the queues, 0 .. n - 1
    Depth       \* what one of them holds

VARIABLES
    queue,      \* per shard, its requests: the oldest first
    batch       \* what the consumer took and has not worked on

vars == <<queue, batch>>

Init ==
    /\ queue = [i \in Shards |-> <<>>]
    /\ batch = <<>>

Push(i, r) ==
    /\ Len(queue[i]) < Depth
    /\ queue' = [queue EXCEPT ![i] = Append(@, r)]
    /\ UNCHANGED batch

\* All of one queue, behind what was taken before.
Take(i) ==
    /\ batch' = batch \o queue[i]
    /\ queue' = [queue EXCEPT ![i] = <<>>]

Consume ==
    /\ batch # <<>>
    /\ batch' = Tail(batch)
    /\ UNCHANGED queue

\* A request of a newer owner goes back on a queue.
PushBack(i) ==
    /\ batch # <<>>
    /\ Len(queue[i]) < Depth
    /\ queue' = [queue EXCEPT ![i] = Append(@, Head(batch))]
    /\ batch' = Tail(batch)

\* The context goes away.
Discard ==
    /\ queue' = [i \in Shards |-> <<>>]
    /\ UNCHANGED batch

Next ==
    \/ \E i \in Shards :
        \/ \E r \in Requests : Push(i, r)
        \/ Take(i) \/ PushBack(i)
    \/ Consume \/ Discard

Spec == Init /\ [][Next]_vars
=============================================================================
