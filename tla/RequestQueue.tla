------------------------------ MODULE RequestQueue -----------------------------
(***************************************************************************)
(* The ingress of a context: queues linked through the requests            *)
(* themselves, each under a lock of its own, that host threads push to and *)
(* the FFI thread merges into one chain, a lock at a time.  After a        *)
(* recycle the FFI thread pushes requests of a newer owner back.           *)
(*                                                                         *)
(* A section under a lock is one step.  A request is <<producer, number>>, *)
(* numbered in the order its thread submits.  Which requests a reject      *)
(* finds to be a newer owner's is ContextRecycle's business: here it is a  *)
(* choice.                                                                 *)
(***************************************************************************)
EXTENDS Integers, Sequences, FiniteSets

CONSTANTS
    Producers,          \* host threads
    FFI,                \* the FFI thread, a producer when it pushes back
    Nil,
    RequestQueueCount,
    RequestQueueDepth,
    MaxSubmits          \* bound: submits of one producer

ASSUME QueueAssumption ==
    /\ RequestQueueCount \in Nat \ {0}
    /\ RequestQueueDepth \in Nat \ {0}
    /\ MaxSubmits \in Nat
    /\ IsFiniteSet(Producers)

Shards == 0 .. RequestQueueCount - 1
Requests == Producers \X (1 .. MaxSubmits)

ASSUME NilAssumption == Nil \notin Requests

VARIABLES
    head, tail, count,  \* per shard
    next,               \* per request, the link
    myQueue,            \* gRequestQueue of each thread, -1 when not assigned
    counter,            \* gRequestQueueCounter
    submitted,          \* per producer, how often it submitted
    waking,             \* producers about to fire reqSignal
    reqSignal,
    fate,               \* history: new, refused, queued, ran, rejected, freed
    pushedBack,         \* history: requests that went back on a queue
    running,
    ffi,                \* where the FFI thread is, and to what end it merges
    merged,             \* shards it has merged in this round
    first, last         \* the chain it merges or works through

bank == <<head, tail, count, next>>
index == <<myQueue, counter>>
history == <<fate, pushedBack>>
chain == <<first, last>>
vars == <<bank, index, submitted, waking, reqSignal, history, running, ffi,
          merged, chain>>

Init ==
    /\ head = [i \in Shards |-> Nil]
    /\ tail = [i \in Shards |-> Nil]
    /\ count = [i \in Shards |-> 0]
    /\ next = [r \in Requests |-> Nil]
    /\ myQueue = [p \in Producers \union {FFI} |-> -1]
    /\ counter = 0
    /\ submitted = [p \in Producers |-> 0]
    /\ waking = {}
    /\ reqSignal = FALSE
    /\ fate = [r \in Requests |-> "new"]
    /\ pushedBack = {}
    /\ running = TRUE
    /\ ffi = "top"
    /\ merged = 0
    /\ first = Nil /\ last = Nil

-----------------------------------------------------------------------------
(* The queues.                                                             *)

\* MUTANT: every push goes to the next queue.
NextQueueNumber(p) == counter

\* myQueueIndex: the counter's next value on a thread's first use.
QueueNumber(p) == IF myQueue[p] = -1 THEN counter ELSE myQueue[p]
QueueIndex(p) == QueueNumber(p) % RequestQueueCount
AssignQueue(p) ==
    /\ myQueue' = [myQueue EXCEPT ![p] = QueueNumber(p)]
    /\ counter' = IF myQueue[p] = -1 THEN counter + 1 ELSE counter

Full(i) == count[i] >= RequestQueueDepth

\* The section under the lock of pushRequest, when there is room.
Link(i, r) ==
    /\ head' = [head EXCEPT ![i] = IF tail[i] = Nil THEN r ELSE @]
    /\ next' = [x \in Requests |->
                  CASE x = r -> Nil
                    [] x = tail[i] -> r
                    [] OTHER -> next[x]]
    /\ tail' = [tail EXCEPT ![i] = r]
    /\ count' = [count EXCEPT ![i] = @ + 1]

\* MUTANT: the tail is left.
ResetKeepsTail(i) ==
    /\ head' = [head EXCEPT ![i] = Nil]
    /\ count' = [count EXCEPT ![i] = 0]
    /\ UNCHANGED tail

Reset(i) ==
    /\ head' = [head EXCEPT ![i] = Nil]
    /\ tail' = [tail EXCEPT ![i] = Nil]
    /\ count' = [count EXCEPT ![i] = 0]

\* The section of mergeQueues under one lock: the queue goes behind the chain.
Splice(i) ==
    IF head[i] = Nil
    THEN UNCHANGED <<bank, chain>>
    ELSE /\ first' = IF first = Nil THEN head[i] ELSE first
         /\ next' = [x \in Requests |->
                       IF first # Nil /\ x = last THEN head[i] ELSE next[x]]
         /\ last' = tail[i]
         /\ Reset(i)

-----------------------------------------------------------------------------
(* A submit.                                                               *)

\* MUTANT: a push wakes the FFI thread only when it is the queue's last place.
WakesLate(i) == count[i] + 1 = RequestQueueDepth

Wakes(i) == tail[i] = Nil

Submit(p) ==
    LET r == <<p, submitted[p] + 1>>
        i == QueueIndex(p)
    IN  /\ p \notin waking
        /\ submitted[p] < MaxSubmits
        /\ ffi # "gone"
        /\ submitted' = [submitted EXCEPT ![p] = @ + 1]
        /\ AssignQueue(p)
        /\ IF Full(i)
           THEN /\ fate' = [fate EXCEPT ![r] = "refused"]
                /\ UNCHANGED <<bank, waking>>
           ELSE /\ Link(i, r)
                /\ fate' = [fate EXCEPT ![r] = "queued"]
                /\ waking' = IF Wakes(i) THEN waking \union {p} ELSE waking
        /\ UNCHANGED <<reqSignal, pushedBack, running, ffi, merged, chain>>

\* The lock is released by then.
Fire(p) ==
    /\ p \in waking
    /\ waking' = waking \ {p}
    /\ reqSignal' = TRUE
    /\ UNCHANGED <<bank, index, submitted, history, running, ffi, merged, chain>>

-----------------------------------------------------------------------------
(* The FFI thread.                                                         *)

Goes(pc) == ffi' = pc /\ UNCHANGED <<index, submitted, waking, history, running>>

\* The slot's lifecycle decides between the two.
Start ==
    /\ ffi = "top" /\ running
    /\ \/ Goes("serve")
       \/ Goes("reject")
    /\ UNCHANGED <<bank, reqSignal, merged, chain>>

StartLast ==
    /\ ffi = "top" /\ ~running
    /\ Goes("finish")
    /\ UNCHANGED <<bank, reqSignal, merged, chain>>

Working == {"serve", "reject", "finish"}

MergeOne ==
    /\ ffi \in Working
    /\ merged < RequestQueueCount
    /\ merged' = merged + 1
    /\ Splice(merged)
    /\ Goes(ffi)
    /\ UNCHANGED reqSignal

Merged == ffi \in Working /\ merged = RequestQueueCount

\* The request leaves the chain: its link is read before it is used.
TakeFirst ==
    /\ first' = next[first]
    /\ last' = IF next[first] = Nil THEN Nil ELSE last

\* processQueue, on one request: it is run or, of an ended claim, dropped, which
\* to the queues is the same.  A chain that was worked off may have been
\* overtaken by submits: the thread merges again.
Process ==
    /\ Merged /\ ffi # "reject"
    /\ first # Nil
    /\ TakeFirst
    /\ fate' = [fate EXCEPT ![first] = "ran"]
    /\ merged' = IF next[first] = Nil THEN 0 ELSE merged
    /\ UNCHANGED <<bank, index, submitted, waking, reqSignal, pushedBack,
                   running, ffi>>

\* rejectQueuedRequests, on one request: an error, ...
Reject ==
    /\ Merged /\ ffi = "reject"
    /\ first # Nil
    /\ TakeFirst
    /\ fate' = [fate EXCEPT ![first] = "rejected"]
    /\ UNCHANGED <<bank, index, submitted, waking, reqSignal, pushedBack,
                   running, ffi, merged>>

\* ... or back on the FFI thread's own queue, without a wake.
GiveBack ==
    /\ Merged /\ ffi = "reject"
    /\ first # Nil
    /\ ~Full(QueueIndex(FFI))
    /\ TakeFirst
    /\ AssignQueue(FFI)
    /\ Link(QueueIndex(FFI), first)
    /\ pushedBack' = pushedBack \union {first}
    /\ UNCHANGED <<submitted, waking, reqSignal, fate, running, ffi, merged>>

\* Nothing is left of the merge.  The reject of a recycle does not wait.
Done ==
    /\ Merged
    /\ first = Nil
    /\ \/ ffi # "finish" /\ Goes("wait")
       \/ ffi = "reject" /\ Goes("top")
       \/ ffi = "finish" /\ Goes("exited")
    /\ merged' = 0
    /\ UNCHANGED <<bank, reqSignal, chain>>

Woken ==
    /\ ffi = "wait"
    /\ reqSignal
    /\ reqSignal' = FALSE
    /\ Goes("top")
    /\ UNCHANGED <<bank, merged, chain>>

\* After 100 ms.
WaitEnds ==
    /\ ffi = "wait"
    /\ Goes("top")
    /\ UNCHANGED <<bank, reqSignal, merged, chain>>

Stop ==
    /\ running
    /\ running' = FALSE
    /\ UNCHANGED <<bank, index, submitted, waking, reqSignal, history, ffi,
                   merged, chain>>

\* deinitRequestQueue, when the FFI thread and the producers have stopped:
\* what a submit pushed behind the last drain is freed.
Deinit ==
    /\ ffi = "exited" /\ waking = {}
    /\ ffi' = "gone"
    /\ fate' = [r \in Requests |-> IF fate[r] = "queued" THEN "freed" ELSE fate[r]]
    /\ head' = [i \in Shards |-> Nil]
    /\ tail' = [i \in Shards |-> Nil]
    /\ UNCHANGED <<count, next, index, submitted, waking, reqSignal, pushedBack,
                   running, merged, chain>>

Next ==
    \/ \E p \in Producers : Submit(p) \/ Fire(p)
    \/ Start \/ StartLast \/ MergeOne
    \/ Process \/ Reject \/ GiveBack \/ Done
    \/ Woken \/ WaitEnds \/ Stop \/ Deinit

Spec == Init /\ [][Next]_vars

-----------------------------------------------------------------------------
(* Properties                                                              *)

\* The requests from r on, along the links; no more than there are.
Follow(link, r) ==
    LET walk[n \in 0 .. Cardinality(Requests)] ==
            [x \in Requests \union {Nil} |->
                IF n = 0 \/ x = Nil THEN <<>> ELSE <<x>> \o walk[n - 1][link[x]]]
    IN  walk[Cardinality(Requests)][r]

Chain(r) == Follow(next, r)

Elements(s) == {s[n] : n \in DOMAIN s}

Bank == INSTANCE RequestBank WITH
    Depth <- RequestQueueDepth,
    queue <- [i \in Shards |-> Chain(head[i])],
    batch <- Chain(first)

\* The linked queues are bounded sequences: along every interleaving of
\* pushes, merges one lock at a time and pushes back, no request is lost, no
\* request is in two places, and each queue keeps its order.
ImplementsBank == Bank!Spec

\* A thread's requests run in the order it submitted them, unless one of them
\* was given back behind a later one.
ProducerOrder ==
    \A p \in Producers : \A m, n \in 1 .. MaxSubmits :
        m < n /\ fate[<<p, n>>] = "ran" /\ <<p, m>> \notin pushedBack
            => fate[<<p, m>>] # "queued"

\* No wake is lost: when the FFI thread waits, nothing has fired its signal and
\* nobody is about to, a queue that is not empty holds a request that was given
\* back, the one push that wakes nobody.
WakeIsPending ==
    ffi = "wait" /\ ~reqSignal /\ waking = {} =>
        \A i \in Shards :
            head[i] # Nil => Elements(Chain(head[i])) \intersect pushedBack # {}
=============================================================================
