-------------------------- MODULE PollOutboundProofs --------------------------
(***************************************************************************)
(* Proofs, for every set of hosts and of requests and every bound, that in *)
(* poll mode no reply is lost, counted twice or handed to the wrong owner, *)
(* that a message stays while its host may read it, and that no poller     *)
(* sleeps through the end of its claim.                                    *)
(*                                                                         *)
(* IInv has three layers.  Of the recycle: it owns its slot and has gone   *)
(* so far (RecycleOwns, OnePoller).  Of the messages: what runs, and what  *)
(* is queued, is of the claim that owns the slot, until the drop has       *)
(* emptied the queues, and each request has one link in each queue         *)
(* (RunsForOwner, QueuesOfOwner, Warned, Answered, HoldsOne, Counted).  Of *)
(* the pollers: one that may release what is held came after the message   *)
(* was handed out (LastOfPast), and one that arms the wake or waits saw    *)
(* its claim open, and keeps the drop out by the lock it holds             *)
(* (WaitsInClaim).                                                         *)
(***************************************************************************)
EXTENDS PollOutbound, FiniteSetTheorems, SequenceTheorems, TLAPS

USE DEF Drops, CloseWakes, FiresThen, Serving

\* Where the FFI thread is, or goes on once it has notified.
Phase == IF ffi.pc \in {"exchange", "fire"} THEN ffi.back ELSE ffi.pc

Outside == {"idle", "turnedAway", "ending", "acquire"}
\* Past the release of what was held.
Looking == PollPcs \ (Outside \union {"owner", "release"})
\* Past the check for the end of its claim.
Arming == {"disarm", "clear", "againEvents", "againReplies", "againStale", "againClosed",
           "againOwner"}

\* From where on nothing of the claim runs, and from where on its queues are dropped.
Over == {"close", "drop", "merge", "reject", "exited", "dropAll", "deinit", "freed"}
Emptied == {"merge", "reject", "deinit", "freed"}

Lifecycles == {"Active", "RecyclePending", "Recycling", "RecycleFailed"}
Call == [pc : PollPcs, gen : Nat, ev : Nat, rep : Nat, stale : Nat]
Handed == [to : Nat, num : Nat, kind : {"none", "reply", "stale", "event"},
           of : Requests \union {NoRequest}, claim : Nat, ran : BOOLEAN, read : BOOLEAN]

\* The slot and its requests.
SlotTypes ==
    /\ generation \in 0 .. 2 * MaxClaims /\ closed \in 0 .. 2 * MaxClaims
    /\ lifecycle \in Lifecycles
    /\ req \in [Requests -> [state : ReqStates, claim : 0 .. 2 * MaxClaims]]
    /\ ffi \in [pc : FfiPcs,
               back : {"loop", "recycle", "drop", "reject", "lastDrain", "exiting", "dropAll"}]

\* The pollers, and what they read.
PollTypes ==
    /\ wakeArmed \in BOOLEAN /\ wake \in BOOLEAN
    /\ call \in [Hosts -> Call]
    /\ heldReply \in Requests \union {NoRequest}
    /\ heldEvent \in Nat
    /\ last \in Handed

QueueTypes ==
    /\ seqNum \in Nat
    /\ events \in Seq([num : Nat, claim : Nat])
    /\ replyQueue \in Seq([num : Nat, of : Requests, ran : BOOLEAN])
    /\ staleQueue \in Seq([num : Nat, of : Requests])

\* A number that was not given out yet is on no message.
Numbered ==
    /\ heldEvent <= seqNum
    /\ \A i \in DOMAIN events : events[i].num \in 1 .. seqNum
    /\ \A i \in DOMAIN replyQueue : replyQueue[i].num \in 1 .. seqNum
    /\ \A i \in DOMAIN staleQueue : staleQueue[i].num \in 1 .. seqNum

\* A recycle or a destroy is of an owned slot, and nobody else can start one meanwhile.
RecycleOwns ==
    /\ lifecycle \in {"RecyclePending", "RecycleFailed"} => Owned
    /\ Phase \in {"recycle", "close", "drop", "merge", "reject"} =>
        Owned /\ lifecycle = "Recycling"
    /\ Phase \in {"lastDrain", "exiting", "exited", "dropAll", "deinit", "freed"} => Owned
    /\ Phase = "down" => ~Owned
    /\ Phase = "closeFailed" => Owned /\ lifecycle = "RecycleFailed"
    /\ Phase \in {"drop", "dropAll"} \union Emptied => closed = generation
    /\ lifecycle = "RecycleFailed" => Phase = "closeFailed" \/ closed = generation

\* The poll has one host in it, under a token of a claim that the slot had.
OnePoller ==
    /\ pollLock \in Hosts \union {"free"}
    /\ \A h \in Hosts :
        /\ pollLock = h <=> call[h].pc \notin Outside
        /\ call[h].gen <= generation
        /\ call[h].pc # "idle" => call[h].gen % 2 = 1

\* What runs is of the claim that owns the slot, and is over before it closes.
RunsForOwner ==
    \A r \in Requests :
        /\ req[r].state # "new" => req[r].claim % 2 = 1
        /\ req[r].state = "running" =>
            Owned /\ req[r].claim = generation /\ Phase \notin Over

\* No message of a claim is queued once its queues were dropped, but a reject.
Dropped == ~Owned \/ Phase \in Emptied
QueuesOfOwner ==
    /\ \A i \in DOMAIN events : events[i].claim = generation /\ ~Dropped
    /\ \A i \in DOMAIN replyQueue : replyQueue[i].ran =>
        req[replyQueue[i].of].claim = generation /\ ~Dropped

\* No two messages of a queue are of one request.
Distinct(q) == \A i, j \in DOMAIN q : q[i].of = q[j].of => i = j

\* Each request has one warning at most, and only while it runs.
Warned ==
    /\ \A i \in DOMAIN staleQueue : req[staleQueue[i].of].state = "running"
    /\ Distinct(staleQueue)

\* Each answered request is in the queue once, until the host holds it.
Answered ==
    /\ \A i \in DOMAIN replyQueue : req[replyQueue[i].of].state = "replied"
    /\ Distinct(replyQueue)
    /\ \A r \in Requests : req[r].state = "replied" =>
        \E i \in DOMAIN replyQueue : replyQueue[i].of = r

\* The host holds one reply at most, and none while it looks for the next message.
HoldsOne ==
    /\ \A r \in Requests : req[r].state = "held" <=> heldReply = r
    /\ \A h \in Hosts : call[h].pc \in Looking => heldReply = NoRequest

\* The message last handed out went to a claim no later than the present one, nor, once
\* a poller may release it, than that poller's.
LastOfPast ==
    /\ last.to <= generation
    /\ last.kind = "reply" => last.of \in Requests
    /\ \A h \in Hosts : call[h].pc = "release" => last.to <= call[h].gen

Uncollected == {r \in Requests : req[r].state \notin {"new", "freed"}}
Counted == IsFiniteSet(Uncollected) /\ outstanding = Cardinality(Uncollected)

\* A poller that arms the wake, or waits for it, saw its claim open; and while it waits
\* its claim cannot end, as the drop needs the lock.
WaitsInClaim ==
    \A h \in Hosts :
        /\ call[h].pc \in Arming /\ call[h].gen = generation => Phase \notin Emptied
        /\ call[h].pc = "wait" => call[h].gen = generation /\ Phase \notin Emptied
        /\ /\ call[h].pc \in {"againOwner", "wait"}
           /\ call[h].gen = generation /\ closed = generation /\ ffi.pc # "fire"
           => wake

IInv ==
    /\ SlotTypes /\ PollTypes /\ QueueTypes /\ Numbered
    /\ RecycleOwns /\ OnePoller /\ RunsForOwner /\ QueuesOfOwner
    /\ Warned /\ Answered /\ HoldsOne /\ HeldStays /\ LastOfPast /\ NothingOutlivesClaim
    /\ Counted /\ WaitsInClaim

-----------------------------------------------------------------------------
(* Sequences.                                                              *)

LEMMA AllOfKind ==
    ASSUME NEW S, NEW s \in Seq(S)
    PROVE  \A i \in DOMAIN s : s[i] \in S
  OBVIOUS

\* The oldest message leaves a queue.
LEMMA OldestLeaves ==
    ASSUME NEW S, NEW s \in Seq(S), s # <<>>
    PROVE  /\ Head(s) \in S /\ Head(s) = s[1] /\ 1 \in DOMAIN s
           /\ Tail(s) \in Seq(S)
           /\ \A i \in DOMAIN Tail(s) : i \in Nat /\ i + 1 \in DOMAIN s /\ Tail(s)[i] = s[i + 1]
           /\ \A i \in DOMAIN s : i # 1 =>
                i \in Nat /\ i - 1 \in DOMAIN Tail(s) /\ Tail(s)[i - 1] = s[i]
    OBVIOUS

\* A message joins a queue behind the others.
LEMMA NewestJoins ==
    ASSUME NEW S, NEW s \in Seq(S), NEW e \in S
    PROVE  LET t == Append(s, e)
           IN  /\ t \in Seq(S)
               /\ Len(s) + 1 \in DOMAIN t /\ t[Len(s) + 1] = e
               /\ \A i \in DOMAIN s : i \in DOMAIN t /\ t[i] = s[i]
               /\ \A i \in DOMAIN t : i = Len(s) + 1 \/ (i \in DOMAIN s /\ t[i] = s[i])
    OBVIOUS

\* One message is taken out from among the others.
LEMMA OneLeaves ==
    ASSUME NEW S, NEW s \in Seq(S), NEW k \in DOMAIN s
    PROVE  LET t == RemoveAt(s, k)
           IN  /\ t \in Seq(S)
               /\ \A i \in DOMAIN t :
                    /\ i \in Nat
                    /\ i < k => i \in DOMAIN s /\ t[i] = s[i]
                    /\ i >= k => i + 1 \in DOMAIN s /\ t[i] = s[i + 1]
  <1> DEFINE a == SubSeq(s, 1, k - 1)
             b == SubSeq(s, k + 1, Len(s))
             t == a \o b
  <1>1. k \in Nat \ {0} /\ k <= Len(s) /\ Len(s) \in Nat /\ DOMAIN s = 1 .. Len(s)
    OBVIOUS
  <1>2. a \in Seq(S) /\ Len(a) = k - 1 /\ \A i \in 1 .. k - 1 : a[i] = s[i]
    OBVIOUS
  <1>3. b \in Seq(S) /\ Len(b) = Len(s) - k /\ \A i \in 1 .. Len(s) - k : b[i] = s[k + i]
    OBVIOUS
  <1>4. RemoveAt(s, k) = t
    BY DEF RemoveAt
  <1> HIDE DEF a, b
  <1>5. /\ t \in Seq(S) /\ Len(t) = Len(a) + Len(b)
        /\ \A i \in 1 .. Len(a) + Len(b) : t[i] = IF i <= Len(a) THEN a[i] ELSE b[i - Len(a)]
    BY <1>2, <1>3, ConcatProperties
  <1> HIDE DEF t
  <1>6. Len(t) = Len(s) - 1 /\ DOMAIN t = 1 .. Len(s) - 1
    BY <1>1, <1>2, <1>3, <1>5
  <1>7. ASSUME NEW i \in 1 .. Len(s) - 1
        PROVE  (i < k => t[i] = s[i]) /\ (i >= k => t[i] = s[i + 1])
    <2>1. i \in 1 .. Len(a) + Len(b)
      BY <1>1, <1>2, <1>3
    <2>2. CASE i < k
      BY <1>1, <1>2, <1>5, <2>1, <2>2
    <2>3. CASE i >= k
      <3>1. i - (k - 1) \in 1 .. Len(s) - k /\ k + (i - (k - 1)) = i + 1
        BY <1>1, <2>3
      <3>2. t[i] = b[i - (k - 1)]
        BY <1>1, <1>2, <1>5, <2>1, <2>3
      <3>3. b[i - (k - 1)] = s[k + (i - (k - 1))]
        BY <1>3, <3>1
      <3> QED BY <1>1, <2>3, <3>1, <3>2, <3>3
    <2> QED BY <1>1, <2>2, <2>3
  <1>8. ASSUME NEW i \in DOMAIN t
        PROVE  /\ i \in Nat
               /\ i < k => i \in DOMAIN s /\ t[i] = s[i]
               /\ i >= k => i + 1 \in DOMAIN s /\ t[i] = s[i + 1]
    BY <1>1, <1>6, <1>7
  <1> QED BY <1>4, <1>5, <1>8

\* A queue with one message per request stays so when a message leaves, and the request
\* of that is then not in the queue.
LEMMA DistinctTail ==
    ASSUME NEW S, NEW s \in Seq(S), s # <<>>, Distinct(s)
    PROVE  Distinct(Tail(s)) /\ \A i \in DOMAIN Tail(s) : Tail(s)[i].of # s[1].of
  <1>1. \A i \in DOMAIN Tail(s) : i \in Nat /\ i + 1 \in DOMAIN s /\ Tail(s)[i] = s[i + 1]
    BY OldestLeaves
  <1>2. 1 \in DOMAIN s /\ \A i \in DOMAIN Tail(s) : i + 1 # 1
    BY OldestLeaves
  <1> QED BY <1>1, <1>2 DEF Distinct

LEMMA DistinctRemoved ==
    ASSUME NEW S, NEW s \in Seq(S), NEW k \in DOMAIN s, Distinct(s)
    PROVE  /\ Distinct(RemoveAt(s, k))
           /\ \A i \in DOMAIN RemoveAt(s, k) : RemoveAt(s, k)[i].of # s[k].of
  <1> DEFINE t == RemoveAt(s, k)
             from(i) == IF i < k THEN i ELSE i + 1
  <1>1. \A i \in DOMAIN t : i \in Nat /\ from(i) \in DOMAIN s /\ t[i] = s[from(i)]
    BY OneLeaves
  <1>2. k \in Nat
    OBVIOUS
  <1> HIDE DEF t
  <1>3. \A i \in DOMAIN t : from(i) # k
    BY <1>1, <1>2
  <1>4. \A i, j \in DOMAIN t : from(i) = from(j) => i = j
    BY <1>1, <1>2
  <1> HIDE DEF from
  <1>5. \A i, j \in DOMAIN t : t[i].of = t[j].of => i = j
    BY <1>1, <1>4 DEF Distinct
  <1>6. \A i \in DOMAIN t : t[i].of # s[k].of
    BY <1>1, <1>3 DEF Distinct
  <1> QED BY <1>5, <1>6 DEF Distinct, t

LEMMA DistinctAppend ==
    ASSUME NEW S, NEW s \in Seq(S), NEW e \in S, Distinct(s), \A i \in DOMAIN s : s[i].of # e.of
    PROVE  Distinct(Append(s, e))
  <1> DEFINE t == Append(s, e)
  <1>1. /\ Len(s) + 1 \in DOMAIN t /\ t[Len(s) + 1] = e
        /\ \A i \in DOMAIN t : i = Len(s) + 1 \/ (i \in DOMAIN s /\ t[i] = s[i])
    BY NewestJoins
  <1> HIDE DEF t
  <1>2. \A i, j \in DOMAIN t : t[i].of = t[j].of => i = j
    BY <1>1 DEF Distinct
  <1> QED BY <1>2 DEF Distinct, t

\* A sequence whose elements are all in a smaller set.
LEMMA SeqNarrows ==
    ASSUME NEW S, NEW T, NEW s \in Seq(S), \A i \in DOMAIN s : s[i] \in T
    PROVE  s \in Seq(T)
  OBVIOUS

-----------------------------------------------------------------------------
(* The slot, its requests and the recycle.                                 *)

\* What lies at the head of a queue is a message of its kind.
LEMMA HeadsTyped ==
    ASSUME QueueTypes
    PROVE  /\ events # <<>> => Head(events) \in [num : Nat, claim : Nat]
           /\ replyQueue # <<>> => Head(replyQueue) \in [num : Nat, of : Requests, ran : BOOLEAN]
           /\ staleQueue # <<>> => Head(staleQueue) \in [num : Nat, of : Requests]
  <1>1. ASSUME NEW S, NEW s \in Seq(S), s # <<>> PROVE Head(s) \in S
    BY <1>1, OldestLeaves
  <1> QED BY <1>1 DEF QueueTypes

\* The requests that messages are of.
LEMMA QueuedTyped ==
    ASSUME QueueTypes
    PROVE  /\ \A i \in DOMAIN replyQueue : replyQueue[i].of \in Requests
           /\ \A i \in DOMAIN staleQueue : staleQueue[i].of \in Requests
  <1> DEFINE Replies == [num : Nat, of : Requests, ran : BOOLEAN]
             Warnings == [num : Nat, of : Requests]
  <1>1. replyQueue \in Seq(Replies) /\ staleQueue \in Seq(Warnings)
    BY DEF QueueTypes
  <1>2. \A m \in Replies \union Warnings : m.of \in Requests
    OBVIOUS
  <1> HIDE DEF Replies, Warnings
  <1>3. \A i \in DOMAIN replyQueue : replyQueue[i] \in Replies
    BY <1>1, AllOfKind
  <1>4. \A i \in DOMAIN staleQueue : staleQueue[i] \in Warnings
    BY <1>1, AllOfKind
  <1> QED BY <1>2, <1>3, <1>4

\* Most steps of a poller change nothing but what pollers know.
Pokes(h) == ReleaseHeld(h) \/ TakeMessage(h) \/ Disarm(h) \/ ClearWake(h)
Enters(h) == \E g \in Tokens : TryAcquire(h, g)

LEMMA PollersAlone ==
    ASSUME NEW h \in Hosts, Enters(h) \/ PollStep(h)
    PROVE  UNCHANGED untouched \/ Pokes(h)
  BY DEF Enters, PollStep, Pokes, untouched, TryAcquire, TurnedAway, Ending, Acquire,
     IsOwner,
         Look, LivenessReport, ReadEvents, ReadReplies, ReadStale, NothingTaken,
         ReportClosed, LookAgain, DeadlinePasses, WaitEnds

LEMMA SlotKept ==
    ASSUME SlotTypes, RecycleOwns, PollTypes, QueueTypes, Next
    PROVE  SlotTypes' /\ RecycleOwns'
  <1> USE BoundsAssumption DEF SlotTypes, RecycleOwns, Phase, Owned, Lifecycles, FfiPcs,
     ReqStates,
          slot, queues, poller, Becomes, Emptied
  <1>1. CASE Claim
    BY <1>1 DEF Claim
  <1>2. CASE RequestRecycle
    BY <1>2 DEF RequestRecycle
  <1>3. ASSUME NEW r \in Requests, TryClaimRequest(r) \/ PushRequest(r) \/ GiveBack(r)
        PROVE  SlotTypes' /\ RecycleOwns'
    BY <1>3 DEF TryClaimRequest, PushRequest, GiveBack
  <1>4. ASSUME NEW r \in Requests, Dispatch(r)
        PROVE  SlotTypes' /\ RecycleOwns'
    BY <1>4 DEF Dispatch, DeleteRequest
  <1>5. ASSUME NEW r \in Requests, Answer(r)
        PROVE  SlotTypes' /\ RecycleOwns'
    BY <1>5 DEF Answer, EnqueueReply, Notify
  <1>6. ASSUME NEW r \in Requests, EnqueueStaleWarn(r)
        PROVE  SlotTypes' /\ RecycleOwns'
    BY <1>6 DEF EnqueueStaleWarn, Notify
  <1>7. ASSUME NEW r \in Requests, RejectQueued(r)
        PROVE  SlotTypes' /\ RecycleOwns'
    <2>1. ffi.pc \in {"loop", "reject"} /\ req[r].state \in {"queued", "merged"}
      BY <1>7 DEF RejectQueued
    <2>2. CASE EnqueueReply(r, FALSE)
      BY <2>1, <2>2 DEF EnqueueReply, Notify
    <2>3. CASE DeleteRequest(r) /\ UNCHANGED <<slot, ffi>>
      BY <2>3 DEF DeleteRequest
    <2> QED BY <1>7, <2>2, <2>3 DEF RejectQueued
  <1>8. CASE Exchange \/ Fire
    BY <1>8 DEF Exchange, Fire
  <1>9. CASE Emit
    BY <1>9 DEF Emit, Notify
  <1>10. CASE StartRecycle
    BY <1>10 DEF StartRecycle, FfiMoves
  <1>11. CASE TornDown
    BY <1>11 DEF TornDown, FfiMoves
  <1>12. CASE Quarantine
    BY <1>12 DEF Quarantine, FfiMoves
  <1>13. CASE CloseOutbound
    BY <1>13 DEF CloseOutbound
  <1>14. CASE DropQueuedMessages
    BY <1>14 DEF DropQueuedMessages, FfiMoves
  <1>15. CASE ReleaseClaim
    BY <1>15 DEF ReleaseClaim, FfiMoves
  <1>17. CASE MergeQueues
    BY <1>17 DEF MergeQueues, FfiMoves
  <1>18. CASE LeaveLoop \/ LastDrainEnds \/ ThreadExits
    BY <1>18 DEF LeaveLoop, LastDrainEnds, ThreadExits, FfiMoves
  <1>19. CASE DeinitContextResources
    BY <1>19 DEF DeinitContextResources, FfiMoves
  <1>20. CASE ReleaseSlot
    BY <1>20 DEF ReleaseSlot, FfiMoves
  <1>16. ASSUME NEW h \in Hosts, Enters(h) \/ PollStep(h)
         PROVE  SlotTypes' /\ RecycleOwns'
    <2>1. CASE UNCHANGED untouched
      BY <2>1 DEF untouched
    <2>2. CASE ReleaseHeld(h)
      BY <2>2 DEF ReleaseHeld, DeleteRequest, PollTypes
    <2>3. CASE TakeMessage(h)
      <3>1. UNCHANGED <<slot, ffi>>
            /\ (UNCHANGED req \/ \E r \in Requests : Becomes(r, "held"))
        BY <2>3, HeadsTyped DEF TakeMessage, TakeReply, TakeStaleWarn, TakeEvent
      <3> QED BY <3>1
    <2>4. CASE Disarm(h) \/ ClearWake(h)
      BY <2>4 DEF Disarm, ClearWake
    <2> QED BY <1>16, <2>1, <2>2, <2>3, <2>4, PollersAlone DEF Pokes
  <1> QED
    BY <1>1, <1>2, <1>3, <1>4, <1>5, <1>6, <1>7, <1>8, <1>9, <1>10, <1>11, <1>12, <1>13,
       <1>14, <1>15, <1>16, <1>17, <1>18, <1>19, <1>20
    DEF Next, FfiThread, Destroy, Enters

-----------------------------------------------------------------------------
(* The pollers and their lock.                                             *)

\* Whatever is no step of a poller leaves the pollers where they are, but that a full
\* destroy frees the event a host holds.
LEMMA OthersLeavePollers ==
    ASSUME Next, ~\E h \in Hosts : Enters(h) \/ PollStep(h)
    PROVE  /\ UNCHANGED <<pollLock, call, heldReply, last>>
           /\ UNCHANGED heldEvent \/ (DeinitContextResources /\ heldEvent' = 0)
           /\ wakeArmed' \in {TRUE, wakeArmed} /\ wake' \in {TRUE, wake}
  BY DEF poller, Next, Enters, FfiThread, Destroy, Claim, RequestRecycle, TryClaimRequest,
         PushRequest, GiveBack, Dispatch, Answer, EnqueueReply, EnqueueStaleWarn,
         RejectQueued, Exchange, Fire, Emit, StartRecycle, TornDown, Quarantine,
         CloseOutbound, DropQueuedMessages, MergeQueues, ReleaseClaim, LeaveLoop,
         LastDrainEnds, ThreadExits, DeinitContextResources, ReleaseSlot

\* A claim and its two releases are the only steps that change the owner.
LEMMA GenerationGrows ==
    ASSUME Next
    PROVE  \/ UNCHANGED generation
           \/ Claim /\ generation' = generation + 1
           \/ ReleaseClaim /\ generation' = generation + 1
           \/ ReleaseSlot /\ generation' = generation + 1
  <1>1. ASSUME NEW h \in Hosts, Enters(h) \/ PollStep(h)
        PROVE  UNCHANGED generation
    BY <1>1, PollersAlone DEF Pokes, untouched, slot, ReleaseHeld, TakeMessage, Disarm,
       ClearWake
  <1> QED
    BY <1>1 DEF slot, Next, Enters, FfiThread, Destroy, Claim, RequestRecycle, TryClaimRequest,
       PushRequest, GiveBack, Dispatch, Answer, EnqueueReply, EnqueueStaleWarn,
       RejectQueued, Exchange, Fire, Emit, StartRecycle, TornDown, Quarantine,
       CloseOutbound, DropQueuedMessages, MergeQueues, ReleaseClaim, LeaveLoop,
       LastDrainEnds, ThreadExits, DeinitContextResources, ReleaseSlot

\* What a poller may do with the lock and with its call, whatever its step.
PollerGoesOn(h) ==
    /\ wakeArmed' \in BOOLEAN /\ wake' \in BOOLEAN
    /\ call' \in [Hosts -> Call]
    /\ heldReply' \in Requests \union {NoRequest}
    /\ heldEvent' \in Nat
    /\ last' \in Handed
    /\ \A k \in Hosts \ {h} : call'[k] = call[k]
    /\ \/ pollLock' = pollLock /\ (call'[h].pc \in Outside <=> call[h].pc \in Outside)
       \/ pollLock = "free" /\ pollLock' = h /\ call'[h].pc \notin Outside
       \/ pollLock = h /\ pollLock' = "free" /\ call'[h].pc \in Outside
    /\ \/ call'[h].gen = call[h].gen /\ (call[h].pc = "idle" => call'[h].pc = "idle")
       \/ call'[h].gen = 0 /\ call'[h].pc = "idle"
       \/ call'[h].gen \in Tokens

LEMMA PollerStep ==
    ASSUME SlotTypes, PollTypes, QueueTypes, OnePoller, NEW h \in Hosts, Enters(h) \/ PollStep(h)
    PROVE  PollerGoesOn(h)
  <1>1. /\ NoCall \in Call /\ call[h] \in Call
        /\ pollLock = h <=> call[h].pc \notin Outside
        /\ heldReply \in Requests \union {NoRequest} /\ heldEvent \in Nat /\ last \in Handed
    BY DEF PollTypes, OnePoller, NoCall, Call, PollPcs
  <1>2. Tokens \subseteq Nat
    BY DEF Tokens
  <1> USE <1>1 DEF PollTypes, PollerGoesOn, Call, Outside, PollPcs, Moves, Returns,
     Unlocks, At,
                 untouched, held, NoCall, poller
  <1>3. CASE Enters(h)
    <2>1. PICK g \in Tokens : TryAcquire(h, g)
      BY <1>3 DEF Enters
    <2>2. PICK p \in {"owner", "turnedAway"} :
            /\ call' = [call EXCEPT ![h] = [NoCall EXCEPT !.pc = p, !.gen = g]]
            /\ \/ p = "owner" /\ pollLock = "free" /\ pollLock' = h
               \/ p = "turnedAway" /\ pollLock' = pollLock
      BY <2>1 DEF TryAcquire
    <2>3. g \in Nat
      BY <1>2
    <2>4. call'[h] = [pc |-> p, gen |-> g, ev |-> 0, rep |-> 0, stale |-> 0]
          /\ call' \in [Hosts -> Call] /\ \A k \in Hosts \ {h} : call'[k] = call[k]
      BY <2>2, <2>3
    <2>5. UNCHANGED <<wake, wakeArmed, heldReply, heldEvent, last>> /\ call[h].pc = "idle"
      BY <2>1 DEF TryAcquire
    <2> QED BY <2>2, <2>4, <2>5
  <1>4. CASE TurnedAway(h)
    BY <1>4 DEF TurnedAway
  <1>5. CASE Ending(h)
    BY <1>5 DEF Ending
  <1>6. CASE Acquire(h)
    BY <1>6 DEF Acquire
  <1>7. CASE IsOwner(h)
    BY <1>7 DEF IsOwner
  <1>8. CASE Look(h)
    BY <1>8 DEF Look
  <1>9. CASE LivenessReport(h)
    BY <1>9 DEF LivenessReport
  <1>10. CASE NothingTaken(h)
    BY <1>10 DEF NothingTaken
  <1>11. CASE ReportClosed(h)
    BY <1>11 DEF ReportClosed
  <1>12. CASE Disarm(h)
    BY <1>12 DEF Disarm
  <1>13. CASE ClearWake(h)
    BY <1>13 DEF ClearWake
  <1>14. CASE LookAgain(h)
    <2>1. PICK p \in PollPcs \ Outside : Moves(h, p)
      BY <1>14 DEF LookAgain
    <2>2. UNCHANGED <<wake, wakeArmed, held, pollLock>> /\ call[h].pc \in PollPcs \ Outside
      BY <1>14 DEF LookAgain
    <2> QED BY <2>1, <2>2
  <1>15. CASE DeadlinePasses(h)
    BY <1>15 DEF DeadlinePasses
  <1>16. CASE WaitEnds(h)
    BY <1>16 DEF WaitEnds
  <1>17. CASE ReadEvents(h) \/ ReadReplies(h) \/ ReadStale(h)
    <2>1. HeadSeq(events) \in Nat /\ HeadSeq(replyQueue) \in Nat /\ HeadSeq(staleQueue) \in Nat
      BY HeadsTyped DEF HeadSeq
    <2> HIDE DEF HeadSeq
    <2> QED BY <1>17, <2>1 DEF ReadEvents, ReadReplies, ReadStale
  <1>18. CASE ReleaseHeld(h)
    BY <1>18 DEF ReleaseHeld, Handed
  <1>19. CASE TakeMessage(h)
    <2> USE HeadsTyped DEF SlotTypes, Hand, Handed
    <2>1. last' \in Handed /\ heldReply' \in Requests \union {NoRequest} /\ heldEvent' \in Nat
      <3>1. CASE TakeReply(h)
        <4> DEFINE m == Head(replyQueue)
        <4>1. m.of \in Requests /\ m.num \in Nat /\ m.ran \in BOOLEAN
          BY <3>1 DEF TakeReply
        <4>2. req[m.of].claim \in Nat
          BY <4>1, BoundsAssumption
        <4> HIDE DEF m
        <4>3. last' = [to |-> call[h].gen, num |-> m.num, kind |-> "reply", of |-> m.of,
                       claim |-> req[m.of].claim, ran |-> m.ran, read |-> FALSE]
              /\ heldReply' = m.of /\ UNCHANGED heldEvent
          BY <3>1 DEF TakeReply, m
        <4> QED BY <4>1, <4>2, <4>3
      <3>2. CASE TakeStaleWarn(h)
        BY <3>2 DEF TakeStaleWarn
      <3>3. CASE TakeEvent(h)
        BY <3>3 DEF TakeEvent
      <3> QED BY <1>19, <3>1, <3>2, <3>3 DEF TakeMessage
    <2>2. Unlocks(h) /\ call[h].pc = "take" /\ UNCHANGED <<wake, wakeArmed>>
      BY <1>19 DEF TakeMessage, TakeReply, TakeStaleWarn, TakeEvent, Hand
    <2> QED BY <2>1, <2>2
  <1> QED
    BY <1>3, <1>4, <1>5, <1>6, <1>7, <1>8, <1>9, <1>10, <1>11, <1>12, <1>13, <1>14,
       <1>15, <1>16, <1>17, <1>18, <1>19 DEF PollStep

LEMMA PollersKept ==
    ASSUME SlotTypes, SlotTypes', PollTypes, QueueTypes, OnePoller, Next
    PROVE  PollTypes' /\ OnePoller'
  <1>1. generation \in Nat /\ generation' \in Nat /\ generation <= generation'
    BY GenerationGrows DEF SlotTypes
  <1>2. CASE /\ UNCHANGED <<pollLock, call, heldReply, last>> /\ heldEvent' \in Nat
             /\ wake' \in BOOLEAN /\ wakeArmed' \in BOOLEAN
    BY <1>1, <1>2 DEF PollTypes, OnePoller, Call
  <1>3. ASSUME NEW h \in Hosts, Enters(h) \/ PollStep(h)
        PROVE  PollTypes' /\ OnePoller'
    <2>1. PollerGoesOn(h)
      BY <1>3, PollerStep
    <2>2. call'[h].pc # "idle" => call'[h].gen % 2 = 1
      BY <2>1 DEF PollerGoesOn, OnePoller, Tokens
    <2>3. call'[h].gen <= generation'
      BY <1>1, <2>1 DEF PollerGoesOn, OnePoller, PollTypes, Call, Tokens
    <2>4. \A k \in Hosts \ {h} : call'[k].gen <= generation'
      BY <1>1, <2>1 DEF PollerGoesOn, OnePoller, PollTypes, Call
    <2> QED BY <2>1, <2>2, <2>3, <2>4, FreeAssumption DEF PollerGoesOn, OnePoller,
       PollTypes
  <1>4. CASE ~\E h \in Hosts : Enters(h) \/ PollStep(h)
    <2>1. /\ UNCHANGED <<pollLock, call, heldReply, last>>
          /\ heldEvent' = heldEvent \/ heldEvent' = 0
          /\ wakeArmed' \in {TRUE, wakeArmed} /\ wake' \in {TRUE, wake}
      BY <1>4, OthersLeavePollers
    <2>2. heldEvent \in Nat /\ wake \in BOOLEAN /\ wakeArmed \in BOOLEAN
      BY DEF PollTypes
    <2>3. heldEvent' \in Nat
      BY <2>1, <2>2
    <2>4. wake' \in BOOLEAN /\ wakeArmed' \in BOOLEAN
      BY <2>1, <2>2
    <2> QED BY <1>2, <2>1, <2>3, <2>4
  <1> QED BY <1>3, <1>4

-----------------------------------------------------------------------------
(* The end of a claim wakes its poller.                                    *)

\* Of the steps that are no poller's, only the drop leads to where the queues are empty,
\* and it needs the lock; what closes a claim fires the wake next.
LEMMA OthersFire ==
    ASSUME SlotTypes, Next, ~\E h \in Hosts : Enters(h) \/ PollStep(h)
    PROVE  /\ Phase' \in Emptied => Phase \in Emptied \/ DropQueuedMessages
           /\ Phase' \in Over => Phase \in Over \/ TornDown \/ ThreadExits
           /\ UNCHANGED closed \/ ffi'.pc = "fire"
           /\ ffi.pc = "fire" => ffi'.pc = "fire" \/ wake'
  <1> USE DEF Phase, SlotTypes, slot, Over, Emptied
  <1>1. ASSUME NEW r \in Requests, TryClaimRequest(r) \/ PushRequest(r) \/ GiveBack(r) \/ Dispatch(r)
        PROVE  UNCHANGED <<ffi, closed>>
    BY <1>1 DEF TryClaimRequest, PushRequest, GiveBack, Dispatch
  <1>2. ASSUME NEW r \in Requests, Answer(r) \/ EnqueueStaleWarn(r) \/ RejectQueued(r)
        PROVE  Phase' = Phase /\ UNCHANGED closed /\ ffi.pc # "fire"
    BY <1>2 DEF Answer, EnqueueStaleWarn, RejectQueued, EnqueueReply, Notify
  <1>3. CASE Emit
    BY <1>3 DEF Emit, Notify
  <1>4. CASE Exchange \/ Fire
    BY <1>4 DEF Exchange, Fire
  <1>5. CASE Claim \/ RequestRecycle
    BY <1>5 DEF Claim, RequestRecycle
  <1>6. CASE StartRecycle \/ TornDown \/ Quarantine
    BY <1>6 DEF StartRecycle, TornDown, Quarantine, FfiMoves
  <1>7. CASE CloseOutbound
    BY <1>7 DEF CloseOutbound
  <1>8. CASE DropQueuedMessages \/ MergeQueues \/ ReleaseClaim
    BY <1>8 DEF DropQueuedMessages, MergeQueues, ReleaseClaim, FfiMoves
  <1>9. CASE Destroy
    BY <1>9 DEF Destroy, LeaveLoop, LastDrainEnds, ThreadExits, DeinitContextResources,
       ReleaseSlot, FfiMoves
  <1> QED BY <1>1, <1>2, <1>3, <1>4, <1>5, <1>6, <1>7, <1>8, <1>9 DEF Next, FfiThread, Enters

\* How a poller comes to arm the wake and to wait for it.
LEMMA WaysToWait ==
    ASSUME PollTypes, NEW h \in Hosts, Enters(h) \/ PollStep(h),
           call'[h].pc \in Arming \union {"wait"}
    PROVE  /\ call'[h].gen = call[h].gen /\ UNCHANGED <<slot, ffi>>
           /\ \/ /\ call[h].pc = "closing" /\ call'[h].pc = "disarm" /\ closed # call[h].gen
              \/ call[h].pc \in {"disarm", "clear"} /\ call'[h].pc \in {"clear", "againEvents"}
              \/ /\ call[h].pc \in {"againEvents", "againReplies", "againStale"}
                 /\ call'[h].pc \in {"againReplies", "againStale", "againClosed"}
              \/ call[h].pc = "againClosed" /\ call'[h].pc = "againOwner" /\ closed # call[h].gen
              \/ /\ call[h].pc = "againOwner" /\ call'[h].pc = "wait"
                 /\ generation = call[h].gen /\ UNCHANGED wake
  <1>1. call \in [Hosts -> Call]
    BY DEF PollTypes
  <1> USE <1>1 DEF Call, Arming, NoCall, At, Moves, Returns, Unlocks, untouched
  <1>2. CASE ReportClosed(h)
    BY <1>2 DEF ReportClosed
  <1>3. CASE Disarm(h) \/ ClearWake(h)
    BY <1>3 DEF Disarm, ClearWake
  <1>4. CASE LookAgain(h)
    BY <1>4 DEF LookAgain
  <1>5. CASE TakeMessage(h)
    <2>1. Unlocks(h)
      BY <1>5 DEF TakeMessage, TakeReply, TakeStaleWarn, TakeEvent, Hand
    <2> QED BY <2>1
  <1>6. CASE ReadEvents(h) \/ ReadReplies(h) \/ ReadStale(h)
    BY <1>6 DEF ReadEvents, ReadReplies, ReadStale
  <1>7. CASE Enters(h)
    <2>1. PICK g \in Tokens, p \in {"owner", "turnedAway"} :
            call' = [call EXCEPT ![h] = [NoCall EXCEPT !.pc = p, !.gen = g]]
      BY <1>7 DEF Enters, TryAcquire
    <2> QED BY <2>1
  <1>8. CASE TurnedAway(h) \/ Ending(h) \/ Acquire(h) \/ IsOwner(h) \/ ReleaseHeld(h)
    BY <1>8 DEF TurnedAway, Ending, Acquire, IsOwner, ReleaseHeld
  <1>9. CASE Look(h) \/ LivenessReport(h) \/ DeadlinePasses(h) \/ WaitEnds(h)
    BY <1>9 DEF Look, LivenessReport, DeadlinePasses, WaitEnds
  <1>10. CASE NothingTaken(h)
    BY <1>10 DEF NothingTaken
  <1> QED BY <1>2, <1>3, <1>4, <1>5, <1>6, <1>7, <1>8, <1>9, <1>10 DEF PollStep

LEMMA WaitsKept ==
    ASSUME SlotTypes, PollTypes, QueueTypes, RecycleOwns, OnePoller, WaitsInClaim, Next
    PROVE  WaitsInClaim'
  <1> DEFINE W(h) ==
        /\ call[h].pc \in Arming /\ call[h].gen = generation => Phase \notin Emptied
        /\ call[h].pc = "wait" => call[h].gen = generation /\ Phase \notin Emptied
        /\ /\ call[h].pc \in {"againOwner", "wait"}
           /\ call[h].gen = generation /\ closed = generation /\ ffi.pc # "fire"
           => wake
  <1> SUFFICES ASSUME NEW h \in Hosts PROVE W(h)'
    BY DEF WaitsInClaim
  <1>1. W(h)
    BY DEF WaitsInClaim
  <1>2. /\ pollLock = h <=> call[h].pc \notin Outside
        /\ call[h].gen \in Nat /\ call[h].gen <= generation
        /\ call[h].pc # "idle" => call[h].gen % 2 = 1
        /\ generation \in Nat /\ wake \in BOOLEAN
    BY DEF OnePoller, PollTypes, Call, SlotTypes
  <1>3. CASE ~\E k \in Hosts : Enters(k) \/ PollStep(k)
    <2>1. UNCHANGED <<call, pollLock>> /\ wake' \in {TRUE, wake}
      BY <1>3, OthersLeavePollers
    <2>2. CASE UNCHANGED generation
      <3>1. call[h].pc \in Arming \union {"wait"} => (Phase' \in Emptied => Phase \in Emptied)
        BY <1>2, <1>3, OthersFire, FreeAssumption DEF Arming, Outside, DropQueuedMessages
      <3> QED BY <1>1, <1>3, <2>1, <2>2, <3>1, OthersFire
    <2>3. CASE Claim /\ generation' = generation + 1
      BY <1>1, <1>2, <2>1, <2>3 DEF Claim, Owned
    <2>4. CASE (ReleaseClaim \/ ReleaseSlot) /\ generation' = generation + 1
      BY <1>1, <1>2, <2>1, <2>4 DEF ReleaseClaim, ReleaseSlot, FfiMoves, Phase, Emptied
    <2> QED BY <2>2, <2>3, <2>4, GenerationGrows
  <1>4. ASSUME NEW k \in Hosts, Enters(k) \/ PollStep(k), k # h
        PROVE  W(h)'
    <2>1. UNCHANGED <<slot, ffi>> /\ call'[h] = call[h]
      BY <1>4, PollerStep, PollersAlone DEF PollerGoesOn, Pokes, untouched, ReleaseHeld,
         TakeMessage, Disarm, ClearWake
    <2>2. CASE call[h].pc \in Outside
      BY <2>1, <2>2 DEF Outside, Arming
    <2>3. CASE call[h].pc \notin Outside
      <3>1. call[k].pc \in Outside
        BY <1>2, <1>4, <2>3 DEF OnePoller
      <3>2. ~ClearWake(k)
        BY <3>1 DEF ClearWake, At, Outside
      <3>3. UNCHANGED wake
        BY <1>4, <3>2, PollersAlone DEF Pokes, untouched, ReleaseHeld, TakeMessage, Disarm
      <3> QED BY <1>1, <2>1, <3>3 DEF slot, Phase
    <2> QED BY <2>2, <2>3
  <1>5. ASSUME Enters(h) \/ PollStep(h)
        PROVE  W(h)'
    <2>1. CASE call'[h].pc \notin Arming \union {"wait"}
      BY <2>1 DEF Arming
    <2>2. CASE call'[h].pc \in Arming \union {"wait"}
      <3>1. Phase' = Phase /\ UNCHANGED <<generation, closed, ffi>> /\ call'[h].gen = call[h].gen
        BY <1>5, <2>2, WaysToWait DEF slot, Phase
      <3>2. call'[h].pc \in Arming /\ call'[h].gen = generation => Phase \notin Emptied
        BY <1>1, <1>5, <2>2, WaysToWait DEF RecycleOwns, Arming
      <3>3. call'[h].pc = "wait" => call'[h].gen = generation /\ Phase \notin Emptied
        BY <1>1, <1>5, <2>2, WaysToWait DEF Arming
      <3>4. call'[h].pc = "againOwner" => closed # call[h].gen
        BY <1>5, <2>2, WaysToWait DEF Arming
      <3>5. call'[h].pc = "wait" => call[h].pc = "againOwner" /\ UNCHANGED wake
        BY <1>5, <2>2, WaysToWait DEF Arming
      <3> QED BY <1>1, <3>1, <3>2, <3>3, <3>4, <3>5
    <2> QED BY <2>1, <2>2
  <1> QED BY <1>3, <1>4, <1>5

-----------------------------------------------------------------------------
(* The queues.                                                             *)

Event == [num : Nat, claim : Nat]
Reply == [num : Nat, of : Requests, ran : BOOLEAN]
Warning == [num : Nat, of : Requests]

Rejects(r) == RejectQueued(r) /\ EnqueueReply(r, FALSE)

\* The steps that change a queue.
LEMMA QueueSteps ==
    ASSUME Next
    PROVE  \/ UNCHANGED queues
           \/ \E r \in Requests : Answer(r) \/ Rejects(r) \/ EnqueueStaleWarn(r)
           \/ Emit \/ DropQueuedMessages \/ DeinitContextResources
           \/ \E h \in Hosts : TakeMessage(h)
  <1>1. ASSUME NEW h \in Hosts, Enters(h) \/ PollStep(h)
        PROVE  UNCHANGED queues \/ TakeMessage(h)
    BY <1>1, PollersAlone DEF Pokes, untouched, ReleaseHeld, Disarm, ClearWake
  <1> QED
    BY <1>1 DEF Next, Enters, FfiThread, Destroy, Claim, RequestRecycle, TryClaimRequest,
       PushRequest, GiveBack, Dispatch, Rejects, RejectQueued, Exchange, Fire,
       StartRecycle, TornDown, Quarantine, CloseOutbound, MergeQueues, ReleaseClaim,
       LeaveLoop, LastDrainEnds, ThreadExits, ReleaseSlot

\* What a reply does to the queues: the warning of its request goes.
LEMMA UnlinkTakesWarning ==
    ASSUME QueueTypes, NEW r \in Requests, UnlinkStale(r)
    PROVE  /\ staleQueue' \in Seq(Warning)
           /\ \A i \in DOMAIN staleQueue' : \E j \in DOMAIN staleQueue : staleQueue'[i] = staleQueue[j]
           /\ Distinct(staleQueue) =>
                Distinct(staleQueue') /\ \A i \in DOMAIN staleQueue' : staleQueue'[i].of # r
  <1>1. staleQueue \in Seq(Warning)
    BY DEF QueueTypes, Warning
  <1>2. CASE UNCHANGED staleQueue /\ \A i \in DOMAIN staleQueue : staleQueue[i].of # r
    BY <1>1, <1>2
  <1>3. ASSUME NEW k \in DOMAIN staleQueue, staleQueue[k].of = r,
               staleQueue' = RemoveAt(staleQueue, k)
        PROVE  /\ staleQueue' \in Seq(Warning)
               /\ \A i \in DOMAIN staleQueue' :
                    \E j \in DOMAIN staleQueue : staleQueue'[i] = staleQueue[j]
               /\ Distinct(staleQueue) =>
                    Distinct(staleQueue') /\ \A i \in DOMAIN staleQueue' : staleQueue'[i].of # r
    <2>1. /\ RemoveAt(staleQueue, k) \in Seq(Warning)
          /\ \A i \in DOMAIN RemoveAt(staleQueue, k) :
               \E j \in DOMAIN staleQueue : RemoveAt(staleQueue, k)[i] = staleQueue[j]
      <3>1. k \in Nat
        BY <1>1
      <3>2. ASSUME NEW i \in DOMAIN RemoveAt(staleQueue, k)
            PROVE  \E j \in DOMAIN staleQueue : RemoveAt(staleQueue, k)[i] = staleQueue[j]
        <4>1. /\ i \in Nat
              /\ i < k => i \in DOMAIN staleQueue /\ RemoveAt(staleQueue, k)[i] = staleQueue[i]
              /\ i >= k => i + 1 \in DOMAIN staleQueue
                           /\ RemoveAt(staleQueue, k)[i] = staleQueue[i + 1]
          BY <1>1, OneLeaves
        <4> QED BY <3>1, <4>1
      <3> QED BY <1>1, <3>2, OneLeaves
    <2>2. Distinct(staleQueue) =>
            /\ Distinct(RemoveAt(staleQueue, k))
            /\ \A i \in DOMAIN RemoveAt(staleQueue, k) : RemoveAt(staleQueue, k)[i].of # r
      BY <1>1, <1>3, DistinctRemoved
    <2> QED BY <1>3, <2>1, <2>2
  <1> QED BY <1>2, <1>3 DEF UnlinkStale

\* Each queue after a step holds messages it had, and at most one more.
LEMMA QueuesTyped ==
    ASSUME QueueTypes, SlotTypes, Next
    PROVE  QueueTypes'
  <1> USE DEF QueueTypes
  <1>1. generation \in Nat
    BY DEF SlotTypes
  <1>2. CASE UNCHANGED queues
    BY <1>2 DEF queues
  <1>3. ASSUME NEW r \in Requests, NEW ran \in BOOLEAN, EnqueueReply(r, ran)
        PROVE  QueueTypes'
    <2>1. [num |-> seqNum + 1, of |-> r, ran |-> ran] \in [num : Nat, of : Requests, ran : BOOLEAN]
      OBVIOUS
    <2>2. staleQueue' \in Seq([num : Nat, of : Requests])
      BY <1>3, UnlinkTakesWarning DEF EnqueueReply, Warning
    <2>3. replyQueue' \in Seq([num : Nat, of : Requests, ran : BOOLEAN])
      BY <1>3, <2>1, NewestJoins DEF EnqueueReply
    <2> QED BY <1>3, <2>2, <2>3 DEF EnqueueReply
  <1>4. ASSUME NEW r \in Requests, EnqueueStaleWarn(r)
        PROVE  QueueTypes'
    BY <1>4, NewestJoins DEF EnqueueStaleWarn
  <1>5. CASE Emit
    BY <1>1, <1>5, NewestJoins DEF Emit
  <1>6. CASE DropQueuedMessages
    BY <1>6 DEF DropQueuedMessages
  <1>8. CASE DeinitContextResources
    <2>1. events' = <<>> /\ UNCHANGED <<replyQueue, staleQueue, seqNum>>
      BY <1>8 DEF DeinitContextResources
    <2> QED BY <2>1
  <1>7. ASSUME NEW h \in Hosts, TakeMessage(h)
        PROVE  QueueTypes'
    <2>1. CASE TakeReply(h)
      <3>1. replyQueue' \in Seq([num : Nat, of : Requests, ran : BOOLEAN])
        BY <2>1, OldestLeaves DEF TakeReply
      <3> QED BY <1>7, <2>1, <3>1 DEF TakeMessage, TakeReply
    <2>2. CASE TakeStaleWarn(h)
      <3>1. staleQueue' \in Seq([num : Nat, of : Requests])
        BY <2>2, OldestLeaves DEF TakeStaleWarn
      <3> QED BY <1>7, <2>2, <3>1 DEF TakeMessage, TakeStaleWarn
    <2>3. CASE TakeEvent(h)
      <3>1. events' \in Seq([num : Nat, claim : Nat])
        BY <2>3, OldestLeaves DEF TakeEvent
      <3> QED BY <1>7, <2>3, <3>1 DEF TakeMessage, TakeEvent
    <2> QED BY <1>7, <2>1, <2>2, <2>3 DEF TakeMessage
  <1> QED BY <1>2, <1>3, <1>4, <1>5, <1>6, <1>7, <1>8, QueueSteps DEF Answer, Rejects

-----------------------------------------------------------------------------
(* What happens to a request, and to the messages queued.                  *)

Moved(r, a, b) == req[r].state = a /\ req'[r].state = b /\ req'[r].claim = req[r].claim

\* The ways of a request in one step.
WaysOf(r) ==
    \/ req'[r] = req[r]
    \/ /\ Owned /\ UNCHANGED <<generation, ffi>>
       /\ req[r].state = "new" /\ req'[r].state \in {"over", "counted"}
       /\ req'[r].claim = generation
    \/ Moved(r, "counted", "queued") \/ Moved(r, "counted", "freed") \/ Moved(r, "over", "freed")
    \/ Moved(r, "queued", "freed") \/ Moved(r, "merged", "freed")
    \/ MergeQueues /\ Moved(r, "queued", "merged")
    \/ DeinitContextResources /\ Moved(r, "queued", "lost")
    \/ Dispatch(r) /\ Moved(r, "queued", "running") /\ req[r].claim = generation
    \/ Answer(r) /\ Moved(r, "running", "replied")
    \/ Rejects(r) /\ (Moved(r, "queued", "replied") \/ Moved(r, "merged", "replied"))
    \/ DropQueuedMessages /\ Moved(r, "replied", "freed")
    \/ /\ \E h \in Hosts : TakeMessage(h) /\ TakeReply(h)
       /\ r = Head(replyQueue).of /\ Moved(r, "replied", "held")
    \/ (\E h \in Hosts : ReleaseHeld(h)) /\ heldReply = r /\ Moved(r, "held", "freed")

LEMMA RequestMoves ==
    ASSUME SlotTypes, PollTypes, QueueTypes, Answered, HoldsOne, Next
    PROVE  \A r \in Requests : WaysOf(r)
  <1> USE DEF SlotTypes, Becomes, WaysOf, Moved
  <1>1. ASSUME NEW r \in Requests, TryClaimRequest(r)
        PROVE  \A x \in Requests : WaysOf(x)
    BY <1>1 DEF TryClaimRequest, slot
  <1>2. ASSUME NEW r \in Requests, PushRequest(r) \/ GiveBack(r)
        PROVE  \A x \in Requests : WaysOf(x)
    <2>1. \A x \in Requests \ {r} : req'[x] = req[x]
      BY <1>2 DEF PushRequest, GiveBack
    <2>2. Moved(r, "counted", "queued") \/ Moved(r, "counted", "freed") \/ Moved(r, "over", "freed")
      BY <1>2 DEF PushRequest, GiveBack
    <2> QED BY <2>1, <2>2
  <1>3. ASSUME NEW r \in Requests, Dispatch(r)
        PROVE  \A x \in Requests : WaysOf(x)
    <2>1. \A x \in Requests \ {r} : req'[x] = req[x]
      BY <1>3 DEF Dispatch, DeleteRequest
    <2>2. Moved(r, "queued", "freed") \/ (Moved(r, "queued", "running") /\ req[r].claim = generation)
      BY <1>3 DEF Dispatch, DeleteRequest
    <2> QED BY <1>3, <2>1, <2>2
  <1>4. ASSUME NEW r \in Requests, NEW ran \in BOOLEAN, EnqueueReply(r, ran)
        PROVE  /\ \A x \in Requests \ {r} : req'[x] = req[x]
               /\ Moved(r, req[r].state, "replied")
    BY <1>4 DEF EnqueueReply
  <1>5. ASSUME NEW r \in Requests, Answer(r)
        PROVE  \A x \in Requests : WaysOf(x)
    BY <1>4, <1>5 DEF Answer
  <1>6. ASSUME NEW r \in Requests, RejectQueued(r)
        PROVE  \A x \in Requests : WaysOf(x)
    <2>1. CASE EnqueueReply(r, FALSE)
      BY <1>4, <1>6, <2>1 DEF RejectQueued, Rejects
    <2>2. CASE DeleteRequest(r)
      BY <1>6, <2>2 DEF RejectQueued, DeleteRequest
    <2> QED BY <1>6, <2>1, <2>2 DEF RejectQueued
  <1>7. CASE DropQueuedMessages \/ MergeQueues \/ DeinitContextResources
    BY <1>7 DEF DropQueuedMessages, MergeQueues, DeinitContextResources
  <1>8. CASE UNCHANGED req
    BY <1>8
  <1>9. ASSUME NEW h \in Hosts, TakeMessage(h)
        PROVE  \A x \in Requests : WaysOf(x)
    <2>1. CASE TakeReply(h)
      <3>1. Head(replyQueue).of \in Requests /\ req[Head(replyQueue).of].state = "replied"
        <4>1. replyQueue # <<>>
          BY <2>1 DEF TakeReply
        <4>2. Head(replyQueue) = replyQueue[1] /\ 1 \in DOMAIN replyQueue
          BY <4>1, OldestLeaves DEF QueueTypes
        <4> QED BY <4>1, <4>2, HeadsTyped DEF Answered
      <3> QED BY <1>9, <2>1, <3>1 DEF TakeReply
    <2> QED BY <1>8, <1>9, <2>1 DEF TakeMessage, TakeStaleWarn, TakeEvent
  <1>10. ASSUME NEW h \in Hosts, ReleaseHeld(h)
         PROVE  \A x \in Requests : WaysOf(x)
    <2>1. CASE heldReply = NoRequest
      BY <1>8, <1>10, <2>1 DEF ReleaseHeld
    <2>2. CASE heldReply # NoRequest
      <3>1. heldReply \in Requests /\ req[heldReply].state = "held"
        BY <2>2 DEF PollTypes, HoldsOne
      <3>2. Becomes(heldReply, "freed")
        BY <1>10, <2>2 DEF ReleaseHeld, DeleteRequest
      <3> QED BY <1>10, <3>1, <3>2
    <2> QED BY <2>1, <2>2
  <1>11. ASSUME NEW h \in Hosts, Enters(h) \/ PollStep(h)
         PROVE  \A x \in Requests : WaysOf(x)
    BY <1>8, <1>9, <1>10, <1>11, PollersAlone DEF Pokes, untouched, Disarm, ClearWake
  <1> HIDE DEF WaysOf
  <1>12. CASE Claim \/ RequestRecycle \/ Exchange \/ Fire \/ Emit \/ StartRecycle \/ TornDown
              \/ Quarantine \/ CloseOutbound \/ ReleaseClaim
              \/ LeaveLoop \/ LastDrainEnds \/ ThreadExits \/ ReleaseSlot
    <2>1. UNCHANGED req
      BY <1>12 DEF Claim, RequestRecycle, Exchange, Fire, Emit, StartRecycle, TornDown,
         Quarantine, CloseOutbound, ReleaseClaim, LeaveLoop, LastDrainEnds, ThreadExits,
         ReleaseSlot
    <2> QED BY <1>8, <2>1
  <1>13. ASSUME NEW r \in Requests, EnqueueStaleWarn(r)
         PROVE  \A x \in Requests : WaysOf(x)
    BY <1>8, <1>13 DEF EnqueueStaleWarn
  <1> QED BY <1>1, <1>2, <1>3, <1>5, <1>6, <1>7, <1>11, <1>12, <1>13 DEF Next, FfiThread,
     Destroy, Enters

\* Every message queued after a step was queued before, or is the one just numbered.
Newest == seqNum' = seqNum + 1
EventsGo ==
    \A i \in DOMAIN events' :
        \/ \E j \in DOMAIN events : events'[i] = events[j]
        \/ Emit /\ Newest /\ events'[i] = [num |-> seqNum + 1, claim |-> generation]
RepliesGo ==
    \A i \in DOMAIN replyQueue' :
        \/ \E j \in DOMAIN replyQueue : replyQueue'[i] = replyQueue[j]
        \/ \E r \in Requests :
             /\ Newest
             /\ \/ Answer(r) /\ replyQueue'[i] = [num |-> seqNum + 1, of |-> r, ran |-> TRUE]
                \/ Rejects(r) /\ replyQueue'[i] = [num |-> seqNum + 1, of |-> r, ran |-> FALSE]
WarningsGo ==
    \A i \in DOMAIN staleQueue' :
        \/ \E j \in DOMAIN staleQueue : staleQueue'[i] = staleQueue[j]
        \/ \E r \in Requests : /\ EnqueueStaleWarn(r) /\ Newest
                               /\ staleQueue'[i] = [num |-> seqNum + 1, of |-> r]

LEMMA TailHasNothingNew ==
    ASSUME NEW S, NEW s \in Seq(S), s # <<>>
    PROVE  \A i \in DOMAIN Tail(s) : \E j \in DOMAIN s : Tail(s)[i] = s[j]
  <1> TAKE i \in DOMAIN Tail(s)
  <1>1. i + 1 \in DOMAIN s /\ Tail(s)[i] = s[i + 1]
    BY OldestLeaves
  <1> QED BY <1>1

LEMMA AppendHasOneNew ==
    ASSUME NEW S, NEW s \in Seq(S), NEW e \in S
    PROVE  \A i \in DOMAIN Append(s, e) :
             Append(s, e)[i] = e \/ \E j \in DOMAIN s : Append(s, e)[i] = s[j]
  BY NewestJoins

LEMMA WhatIsQueued ==
    ASSUME SlotTypes, QueueTypes, Next
    PROVE  EventsGo /\ RepliesGo /\ WarningsGo /\ seqNum' \in {seqNum, seqNum + 1}
  <1> USE DEF QueueTypes
  <1>1. UNCHANGED events => EventsGo
    BY DEF EventsGo
  <1>2. UNCHANGED replyQueue => RepliesGo
    BY DEF RepliesGo
  <1>3. UNCHANGED staleQueue => WarningsGo
    BY DEF WarningsGo
  <1>4. CASE UNCHANGED queues
    BY <1>1, <1>2, <1>3, <1>4 DEF queues
  <1>5. ASSUME NEW r \in Requests, NEW ran \in BOOLEAN, EnqueueReply(r, ran)
        PROVE  /\ EventsGo /\ WarningsGo /\ Newest
               /\ \A i \in DOMAIN replyQueue' :
                    \/ \E j \in DOMAIN replyQueue : replyQueue'[i] = replyQueue[j]
                    \/ replyQueue'[i] = [num |-> seqNum + 1, of |-> r, ran |-> ran]
    <2>1. UNCHANGED events /\ Newest /\ UnlinkStale(r)
          /\ replyQueue' = Append(replyQueue, [num |-> seqNum + 1, of |-> r, ran |-> ran])
      BY <1>5 DEF EnqueueReply, Newest
    <2> DEFINE e == [num |-> seqNum + 1, of |-> r, ran |-> ran]
               T == [num : Nat, of : Requests, ran : BOOLEAN]
    <2>2. e \in T /\ replyQueue \in Seq(T)
      OBVIOUS
    <2>3. replyQueue' = Append(replyQueue, e)
      BY <2>1
    <2> HIDE DEF e, T
    <2>4. \A i \in DOMAIN replyQueue' :
            replyQueue'[i] = e \/ \E j \in DOMAIN replyQueue : replyQueue'[i] = replyQueue[j]
      BY <2>2, <2>3, AppendHasOneNew
    <2>5. WarningsGo
      BY <2>1, UnlinkTakesWarning DEF WarningsGo
    <2> QED BY <1>1, <2>1, <2>4, <2>5 DEF e
  <1>6. ASSUME NEW r \in Requests, EnqueueStaleWarn(r)
        PROVE  EventsGo /\ RepliesGo /\ WarningsGo /\ Newest
    <2>1. /\ UNCHANGED <<events, replyQueue>> /\ Newest
          /\ staleQueue' = Append(staleQueue, [num |-> seqNum + 1, of |-> r])
      BY <1>6 DEF EnqueueStaleWarn, Newest
    <2> DEFINE e == [num |-> seqNum + 1, of |-> r]
               T == [num : Nat, of : Requests]
    <2>2. e \in T /\ staleQueue \in Seq(T)
      OBVIOUS
    <2>3. staleQueue' = Append(staleQueue, e)
      BY <2>1
    <2> HIDE DEF e, T
    <2>4. \A i \in DOMAIN staleQueue' :
            staleQueue'[i] = e \/ \E j \in DOMAIN staleQueue : staleQueue'[i] = staleQueue[j]
      BY <2>2, <2>3, AppendHasOneNew
    <2>5. WarningsGo
      BY <1>6, <2>1, <2>4 DEF WarningsGo, e
    <2> QED BY <1>1, <1>2, <2>1, <2>5
  <1>7. CASE Emit
    <2>1. /\ UNCHANGED <<staleQueue, replyQueue>> /\ Newest
          /\ events' = Append(events, [num |-> seqNum + 1, claim |-> generation])
      BY <1>7 DEF Emit, Newest
    <2> DEFINE e == [num |-> seqNum + 1, claim |-> generation]
               T == [num : Nat, claim : Nat]
    <2>2. e \in T /\ events \in Seq(T)
      BY DEF SlotTypes
    <2>3. events' = Append(events, e)
      BY <2>1
    <2> HIDE DEF e, T
    <2>4. \A i \in DOMAIN events' :
            events'[i] = e \/ \E j \in DOMAIN events : events'[i] = events[j]
      BY <2>2, <2>3, AppendHasOneNew
    <2>5. EventsGo
      BY <1>7, <2>1, <2>4 DEF EventsGo, e
    <2> QED BY <1>2, <1>3, <2>1, <2>5 DEF Newest
  <1>8. CASE DropQueuedMessages
    <2>1. events' = <<>> /\ replyQueue' = <<>> /\ staleQueue' = <<>> /\ UNCHANGED seqNum
      BY <1>8 DEF DropQueuedMessages
    <2> QED BY <2>1 DEF EventsGo, RepliesGo, WarningsGo
  <1>11. CASE DeinitContextResources
    <2>1. events' = <<>> /\ UNCHANGED <<replyQueue, staleQueue, seqNum>>
      BY <1>11 DEF DeinitContextResources
    <2> QED BY <1>2, <1>3, <2>1 DEF EventsGo
  <1>9. ASSUME NEW h \in Hosts, TakeMessage(h)
        PROVE  EventsGo /\ RepliesGo /\ WarningsGo /\ UNCHANGED seqNum
    <2>1. CASE TakeReply(h)
      <3> DEFINE T == [num : Nat, of : Requests, ran : BOOLEAN]
      <3>1. replyQueue \in Seq(T) /\ replyQueue # <<>> /\ replyQueue' = Tail(replyQueue)
        BY <2>1 DEF TakeReply
      <3> HIDE DEF T
      <3>2. \A i \in DOMAIN replyQueue' : \E j \in DOMAIN replyQueue : replyQueue'[i] = replyQueue[j]
        BY <3>1, TailHasNothingNew
      <3> QED BY <1>1, <1>3, <1>9, <2>1, <3>2 DEF TakeReply, RepliesGo, TakeMessage
    <2>2. CASE TakeStaleWarn(h)
      <3> DEFINE T == [num : Nat, of : Requests]
      <3>1. staleQueue \in Seq(T) /\ staleQueue # <<>> /\ staleQueue' = Tail(staleQueue)
        BY <2>2 DEF TakeStaleWarn
      <3> HIDE DEF T
      <3>2. \A i \in DOMAIN staleQueue' : \E j \in DOMAIN staleQueue : staleQueue'[i] = staleQueue[j]
        BY <3>1, TailHasNothingNew
      <3> QED BY <1>1, <1>2, <1>9, <2>2, <3>2 DEF TakeStaleWarn, WarningsGo, TakeMessage
    <2>3. CASE TakeEvent(h)
      <3> DEFINE T == [num : Nat, claim : Nat]
      <3>1. events \in Seq(T) /\ events # <<>> /\ events' = Tail(events)
        BY <2>3 DEF TakeEvent
      <3> HIDE DEF T
      <3>2. \A i \in DOMAIN events' : \E j \in DOMAIN events : events'[i] = events[j]
        BY <3>1, TailHasNothingNew
      <3> QED BY <1>2, <1>3, <1>9, <2>3, <3>2 DEF TakeEvent, EventsGo, TakeMessage
    <2> QED BY <1>9, <2>1, <2>2, <2>3 DEF TakeMessage
  <1>10. ASSUME NEW r \in Requests, Answer(r) \/ Rejects(r)
         PROVE  EventsGo /\ RepliesGo /\ WarningsGo /\ Newest
    <2>1. CASE Answer(r)
      <3>1. EnqueueReply(r, TRUE)
        BY <2>1 DEF Answer
      <3> QED BY <1>5, <2>1, <3>1 DEF RepliesGo
    <2>2. CASE Rejects(r)
      <3>1. EnqueueReply(r, FALSE)
        BY <2>2 DEF Rejects
      <3> QED BY <1>5, <2>2, <3>1 DEF RepliesGo
    <2> QED BY <1>10, <2>1, <2>2
  <1> QED BY <1>4, <1>6, <1>7, <1>8, <1>9, <1>10, <1>11, QueueSteps DEF queues, Newest

\* What a poller holds changes where it is released, and where a message is taken.
LEMMA PollerHolds ==
    ASSUME NEW h \in Hosts, Enters(h) \/ PollStep(h)
    PROVE  UNCHANGED <<heldReply, heldEvent, last>> \/ ReleaseHeld(h) \/ TakeMessage(h)
  <1>1. ASSUME Enters(h)
        PROVE  UNCHANGED <<heldReply, heldEvent, last>>
    BY <1>1 DEF Enters, TryAcquire, held
  <1>2. ASSUME PollStep(h)
        PROVE  UNCHANGED <<heldReply, heldEvent, last>> \/ ReleaseHeld(h) \/ TakeMessage(h)
    BY <1>2 DEF PollStep, held, TurnedAway, Ending, Acquire, IsOwner,
         Look, LivenessReport, ReadEvents, ReadReplies, ReadStale, NothingTaken,
         ReportClosed, Disarm, ClearWake, LookAgain, DeadlinePasses, WaitEnds
  <1> QED BY <1>1, <1>2

LEMMA HeldChanges ==
    ASSUME Next
    PROVE  \/ UNCHANGED <<heldReply, heldEvent, last>>
           \/ DeinitContextResources /\ UNCHANGED <<heldReply, last>> /\ heldEvent' = 0
           \/ \E h \in Hosts : ReleaseHeld(h) \/ TakeMessage(h)
  BY PollerHolds, OthersLeavePollers

LEMMA NumberedKept ==
    ASSUME SlotTypes, QueueTypes, PollTypes, Numbered, Next
    PROVE  Numbered'
  <1>1. seqNum \in Nat /\ seqNum' \in {seqNum, seqNum + 1}
    BY WhatIsQueued DEF QueueTypes
  <1>2. heldEvent' <= seqNum'
    <2>1. CASE UNCHANGED heldEvent
      BY <1>1, <2>1 DEF Numbered, PollTypes
    <2>2. ASSUME NEW h \in Hosts, ReleaseHeld(h)
          PROVE  heldEvent' <= seqNum'
      BY <1>1, <2>2 DEF ReleaseHeld
    <2>3. ASSUME NEW h \in Hosts, TakeMessage(h)
          PROVE  heldEvent' <= seqNum'
      <3>1. CASE events # <<>> /\ heldEvent' = Head(events).num
        <4>1. Head(events) = events[1] /\ 1 \in DOMAIN events
          BY <3>1, OldestLeaves DEF QueueTypes
        <4> QED BY <1>1, <3>1, <4>1 DEF Numbered
      <3> QED BY <2>1, <2>3, <3>1 DEF TakeMessage, TakeReply, TakeStaleWarn, TakeEvent
    <2> QED BY <1>1, <2>1, <2>2, <2>3, HeldChanges
  <1>3. \A i \in DOMAIN events' : events'[i].num \in 1 .. seqNum'
    BY <1>1, WhatIsQueued DEF Numbered, EventsGo, Newest
  <1>4. \A i \in DOMAIN replyQueue' : replyQueue'[i].num \in 1 .. seqNum'
    BY <1>1, WhatIsQueued DEF Numbered, RepliesGo, Newest
  <1>5. \A i \in DOMAIN staleQueue' : staleQueue'[i].num \in 1 .. seqNum'
    BY <1>1, WhatIsQueued DEF Numbered, WarningsGo, Newest
  <1> QED BY <1>2, <1>3, <1>4, <1>5 DEF Numbered

\* The owner changes only while nothing of it runs or is queued.
LEMMA OwnerStays ==
    ASSUME SlotTypes, RecycleOwns, Next, ~Dropped
    PROVE  Owned /\ UNCHANGED generation /\ (~Dropped' \/ DropQueuedMessages)
  <1>1. Owned /\ Phase \notin Emptied
    BY DEF Dropped
  <1>2. ~Claim /\ ~ReleaseClaim /\ ~ReleaseSlot
    BY <1>1 DEF Claim, ReleaseClaim, ReleaseSlot, FfiMoves, Phase, Emptied
  <1>3. UNCHANGED generation
    BY <1>2, GenerationGrows
  <1>4. ASSUME NEW h \in Hosts, Enters(h) \/ PollStep(h)
        PROVE  Phase' = Phase
    BY <1>4, PollersAlone DEF Pokes, untouched, ReleaseHeld, TakeMessage, Disarm,
       ClearWake, Phase
  <1>5. Phase' \in Emptied => DropQueuedMessages
    BY <1>1, <1>4, OthersFire
  <1> QED BY <1>1, <1>3, <1>5 DEF Dropped, Owned

LEMMA PhaseSteps ==
    ASSUME SlotTypes, Next
    PROVE  Phase' \in Over => Phase \in Over \/ TornDown \/ ThreadExits
  <1>1. ASSUME NEW h \in Hosts, Enters(h) \/ PollStep(h)
        PROVE  Phase' = Phase
    BY <1>1, PollersAlone DEF Pokes, untouched, ReleaseHeld, TakeMessage, Disarm,
       ClearWake, Phase
  <1> QED BY <1>1, OthersFire

LEMMA OwnersKept ==
    ASSUME SlotTypes, SlotTypes', PollTypes, QueueTypes, RecycleOwns, RecycleOwns', Answered, HoldsOne,
           RunsForOwner, QueuesOfOwner, Next
    PROVE  RunsForOwner' /\ QueuesOfOwner'
  <1>1. ASSUME NEW r \in Requests
        PROVE  /\ req'[r].state # "new" => req'[r].claim % 2 = 1
               /\ req'[r].state = "running" =>
                   Owned' /\ req'[r].claim = generation'
                   /\ Phase' \notin Over
    <2>1. /\ WaysOf(r)
          /\ req[r].state # "new" => req[r].claim % 2 = 1
          /\ req[r].state = "running" =>
              Owned /\ req[r].claim = generation /\ Phase \notin Over
      BY RequestMoves DEF RunsForOwner
    <2>2. req'[r].state # "new" => req'[r].claim % 2 = 1
      BY <2>1 DEF WaysOf, Moved, Owned
    <2>3. CASE req'[r].state = "running" /\ req'[r] = req[r]
      <3>1. ~Dropped /\ Phase \notin Over /\ req[r].claim = generation
        BY <2>1, <2>3 DEF Dropped, Over, Emptied
      <3>2. ~TornDown /\ ~ThreadExits /\ ~DropQueuedMessages
        BY <2>3, <3>1 DEF TornDown, ThreadExits, DropQueuedMessages, FfiMoves, Phase, Over
      <3>3. ~Dropped' /\ UNCHANGED generation
        BY <3>1, <3>2, OwnerStays
      <3>4. Phase' \notin Over
        BY <3>1, <3>2, PhaseSteps
      <3> QED BY <2>2, <2>3, <3>1, <3>3, <3>4 DEF Dropped
    <2>4. CASE Dispatch(r) /\ req'[r].state = "running" /\ req'[r].claim = generation
               /\ req[r].state = "queued"
      <3>1. UNCHANGED <<generation, ffi>> /\ ffi.pc \in {"loop", "lastDrain"}
        BY <2>4 DEF Dispatch, slot
      <3>2. Owned' /\ Phase' \notin Over
        BY <2>2, <2>4, <3>1 DEF Owned, Phase, Over
      <3> QED BY <2>2, <2>4, <3>1, <3>2
    <2> QED BY <2>1, <2>2, <2>3, <2>4 DEF WaysOf, Moved
  <1>2. ASSUME NEW i \in DOMAIN events'
        PROVE  events'[i].claim = generation' /\ ~Dropped'
    <2>1. DropQueuedMessages => FALSE
      BY <1>2 DEF DropQueuedMessages
    <2>2. CASE Emit /\ events'[i] = [num |-> seqNum + 1, claim |-> generation]
      <3>1. Owned /\ Phase \notin Emptied /\ UNCHANGED generation
        BY <2>2 DEF Emit, Phase, slot, Emptied
      <3> QED BY <2>1, <2>2, <3>1, OwnerStays DEF Dropped
    <2>3. ASSUME NEW j \in DOMAIN events, events'[i] = events[j]
          PROVE  events'[i].claim = generation' /\ ~Dropped'
      BY <2>1, <2>3, OwnerStays DEF QueuesOfOwner
    <2> QED BY <2>2, <2>3, WhatIsQueued DEF EventsGo
  <1>3. ASSUME NEW i \in DOMAIN replyQueue', replyQueue'[i].ran
        PROVE  req'[replyQueue'[i].of].claim = generation' /\ ~Dropped'
    <2>1. ~DropQueuedMessages
      BY <1>3 DEF DropQueuedMessages
    <2>2. ASSUME NEW j \in DOMAIN replyQueue, replyQueue'[i] = replyQueue[j]
          PROVE  req'[replyQueue'[i].of].claim = generation' /\ ~Dropped'
      <3>1. req[replyQueue[j].of].claim = generation /\ ~Dropped
        BY <1>3, <2>2 DEF QueuesOfOwner
      <3>2. replyQueue[j].of \in Requests /\ req[replyQueue[j].of].state = "replied"
        BY QueuedTyped DEF Answered
      <3>3. req'[replyQueue[j].of].claim = req[replyQueue[j].of].claim
        BY <3>2, RequestMoves DEF WaysOf, Moved
      <3> QED BY <2>1, <2>2, <3>1, <3>3, OwnerStays
    <2>3. ASSUME NEW r \in Requests, Answer(r), replyQueue'[i].of = r
          PROVE  req'[replyQueue'[i].of].claim = generation' /\ ~Dropped'
      <3>1. req[r].state = "running"
        BY <2>3 DEF Answer
      <3>2. req[r].claim = generation /\ ~Dropped
        BY <3>1 DEF RunsForOwner, Dropped, Over, Emptied
      <3>3. req'[r].claim = req[r].claim
        BY <3>1, RequestMoves DEF WaysOf, Moved
      <3> QED BY <2>1, <2>3, <3>2, <3>3, OwnerStays
    <2> QED BY <1>3, <2>2, <2>3, WhatIsQueued DEF RepliesGo
  <1> QED BY <1>1, <1>2, <1>3 DEF RunsForOwner, QueuesOfOwner

LEMMA WarnedKept ==
    ASSUME SlotTypes, PollTypes, QueueTypes, Answered, HoldsOne, Warned, Next
    PROVE  Warned'
  <1>1. ASSUME NEW i \in DOMAIN staleQueue'
        PROVE  req'[staleQueue'[i].of].state = "running"
    <2>1. ASSUME NEW j \in DOMAIN staleQueue, staleQueue'[i] = staleQueue[j]
          PROVE  req'[staleQueue'[i].of].state = "running"
      <3> DEFINE r == staleQueue[j].of
      <3>1. r \in Requests /\ req[r].state = "running" /\ WaysOf(r)
        BY QueuedTyped, RequestMoves DEF Warned
      <3>2. ~Answer(r)
        <4>1. Answer(r) => UnlinkStale(r)
          BY DEF Answer, EnqueueReply
        <4> QED BY <2>1, <3>1, <4>1, UnlinkTakesWarning DEF Warned
      <3> HIDE DEF r
      <3>3. req'[r] = req[r]
        BY <3>1, <3>2 DEF WaysOf, Moved
      <3> QED BY <2>1, <3>1, <3>3 DEF r
    <2>2. ASSUME NEW r \in Requests, EnqueueStaleWarn(r), staleQueue'[i].of = r
          PROVE  req'[staleQueue'[i].of].state = "running"
      BY <2>2 DEF EnqueueStaleWarn
    <2> QED BY <2>1, <2>2, WhatIsQueued DEF WarningsGo
  <1>2. Distinct(staleQueue')
    <2> DEFINE T == [num : Nat, of : Requests]
    <2>1. staleQueue \in Seq(T) /\ Distinct(staleQueue)
      BY DEF QueueTypes, Warned
    <2>2. CASE UNCHANGED staleQueue
      BY <2>1, <2>2
    <2>3. ASSUME NEW r \in Requests, Answer(r) \/ Rejects(r)
          PROVE  Distinct(staleQueue')
      <3>1. UnlinkStale(r)
        BY <2>3 DEF Answer, Rejects, EnqueueReply
      <3> QED BY <2>1, <3>1, UnlinkTakesWarning
    <2>4. ASSUME NEW r \in Requests, EnqueueStaleWarn(r)
          PROVE  Distinct(staleQueue')
      <3> DEFINE e == [num |-> seqNum + 1, of |-> r]
      <3>1. /\ e \in T /\ staleQueue' = Append(staleQueue, e)
            /\ \A i \in DOMAIN staleQueue : staleQueue[i].of # e.of
        BY <2>4 DEF EnqueueStaleWarn, QueueTypes
      <3> HIDE DEF e, T
      <3> QED BY <2>1, <3>1, DistinctAppend
    <2>5. CASE DropQueuedMessages
      BY <2>5 DEF DropQueuedMessages, Distinct
    <2>6. ASSUME NEW h \in Hosts, TakeStaleWarn(h)
          PROVE  Distinct(staleQueue')
      <3> HIDE DEF T
      <3> QED BY <2>1, <2>6, DistinctTail DEF TakeStaleWarn
    <2> QED BY <2>2, <2>3, <2>4, <2>5, <2>6, QueueSteps
        DEF queues, Emit, DeinitContextResources, TakeMessage, TakeReply, TakeEvent
  <1> QED BY <1>1, <1>2 DEF Warned

LEMMA AnsweredKept ==
    ASSUME SlotTypes, PollTypes, QueueTypes, Answered, HoldsOne, Next
    PROVE  Answered'
  <1> DEFINE T == [num : Nat, of : Requests, ran : BOOLEAN]
             e(r, ran) == [num |-> seqNum + 1, of |-> r, ran |-> ran]
  <1>1. replyQueue \in Seq(T) /\ Distinct(replyQueue)
    BY DEF QueueTypes, Answered
  <1>2. ASSUME NEW r \in Requests, Answer(r) \/ Rejects(r)
        PROVE  \E ran \in BOOLEAN :
                 /\ e(r, ran) \in T /\ replyQueue' = Append(replyQueue, e(r, ran))
                 /\ req'[r].state = "replied" /\ req[r].state # "replied"
    <2>1. ASSUME NEW ran \in BOOLEAN, EnqueueReply(r, ran)
          PROVE  /\ e(r, ran) \in T /\ replyQueue' = Append(replyQueue, e(r, ran))
                 /\ req'[r].state = "replied"
      BY <2>1 DEF EnqueueReply, Becomes, SlotTypes, QueueTypes
    <2>2. /\ req[r].state # "replied"
          /\ EnqueueReply(r, TRUE) \/ EnqueueReply(r, FALSE)
      BY <1>2 DEF Answer, Rejects, RejectQueued
    <2> HIDE DEF e, T
    <2> QED BY <2>1, <2>2
  <1> HIDE DEF T
  <1>3. ASSUME NEW i \in DOMAIN replyQueue'
        PROVE  req'[replyQueue'[i].of].state = "replied"
    <2>1. ASSUME NEW j \in DOMAIN replyQueue, replyQueue'[i] = replyQueue[j]
          PROVE  req'[replyQueue'[i].of].state = "replied"
      <3> DEFINE r == replyQueue[j].of
      <3>1. r \in Requests /\ req[r].state = "replied" /\ WaysOf(r)
        BY QueuedTyped, RequestMoves DEF Answered
      <3>2. ~DropQueuedMessages
        BY DEF DropQueuedMessages
      <3>3. ~\E h \in Hosts : TakeReply(h) /\ r = Head(replyQueue).of
        <4>1. ASSUME NEW h \in Hosts, TakeReply(h), r = Head(replyQueue).of
              PROVE  FALSE
          BY <1>1, <2>1, <4>1, OldestLeaves, DistinctTail DEF TakeReply
        <4> QED BY <4>1
      <3> HIDE DEF r
      <3>4. req'[r] = req[r]
        BY <3>1, <3>2, <3>3 DEF WaysOf, Moved
      <3> QED BY <2>1, <3>1, <3>4 DEF r
    <2>2. ASSUME NEW r \in Requests, Answer(r) \/ Rejects(r), replyQueue'[i].of = r
          PROVE  req'[replyQueue'[i].of].state = "replied"
      BY <1>2, <2>2
    <2> QED BY <2>1, <2>2, WhatIsQueued DEF RepliesGo
  <1>4. Distinct(replyQueue')
    <2>1. CASE UNCHANGED replyQueue
      BY <1>1, <2>1
    <2>2. ASSUME NEW r \in Requests, Answer(r) \/ Rejects(r)
          PROVE  Distinct(replyQueue')
      <3>1. PICK ran \in BOOLEAN : /\ e(r, ran) \in T /\ replyQueue' = Append(replyQueue, e(r, ran))
                                  /\ req[r].state # "replied"
        BY <1>2, <2>2
      <3>2. \A i \in DOMAIN replyQueue : replyQueue[i].of # e(r, ran).of
        BY <3>1 DEF Answered
      <3> HIDE DEF e
      <3> QED BY <1>1, <3>1, <3>2, DistinctAppend
    <2>3. CASE DropQueuedMessages
      BY <2>3 DEF DropQueuedMessages, Distinct
    <2>4. ASSUME NEW h \in Hosts, TakeReply(h)
          PROVE  Distinct(replyQueue')
      BY <1>1, <2>4, DistinctTail DEF TakeReply
    <2> QED BY <2>1, <2>2, <2>3, <2>4, QueueSteps
        DEF queues, Emit, EnqueueStaleWarn, DeinitContextResources, TakeMessage,
            TakeStaleWarn, TakeEvent
  <1>5. ASSUME NEW r \in Requests, req'[r].state = "replied"
        PROVE  \E i \in DOMAIN replyQueue' : replyQueue'[i].of = r
    <2>1. WaysOf(r)
      BY RequestMoves
    <2>2. CASE Answer(r) \/ Rejects(r)
      <3>1. PICK ran \in BOOLEAN : e(r, ran) \in T /\ replyQueue' = Append(replyQueue, e(r, ran))
        BY <1>2, <2>2
      <3>2. e(r, ran).of = r
        OBVIOUS
      <3> HIDE DEF e
      <3> QED BY <1>1, <3>1, <3>2, NewestJoins
    <2>3. CASE req'[r] = req[r]
      <3>1. PICK i \in DOMAIN replyQueue : replyQueue[i].of = r
        BY <1>5, <2>3 DEF Answered
      <3>2. CASE UNCHANGED replyQueue
        BY <3>1, <3>2
      <3>3. ASSUME NEW x \in Requests, Answer(x) \/ Rejects(x)
            PROVE  \E j \in DOMAIN replyQueue' : replyQueue'[j].of = r
        <4>1. PICK ran \in BOOLEAN : e(x, ran) \in T /\ replyQueue' = Append(replyQueue, e(x, ran))
          BY <1>2, <3>3
        <4> HIDE DEF e
        <4> QED BY <1>1, <3>1, <4>1, NewestJoins
      <3>4. ~DropQueuedMessages
        BY <1>5, <2>3 DEF DropQueuedMessages, SlotTypes
      <3>5. ASSUME NEW h \in Hosts, TakeReply(h)
            PROVE  \E j \in DOMAIN replyQueue' : replyQueue'[j].of = r
        <4>1. Head(replyQueue) = replyQueue[1] /\ replyQueue # <<>> /\ replyQueue' = Tail(replyQueue)
          BY <1>1, <3>5, OldestLeaves DEF TakeReply
        <4>2. CASE i = 1
          <5>1. req'[r].state = "held"
            BY <3>1, <3>5, <4>1, <4>2 DEF TakeReply, Becomes, SlotTypes
          <5> QED BY <1>5, <5>1
        <4>3. CASE i # 1
          BY <1>1, <3>1, <4>1, <4>3, OldestLeaves
        <4> QED BY <4>2, <4>3
      <3> QED BY <3>2, <3>3, <3>4, <3>5, QueueSteps
          DEF queues, Emit, EnqueueStaleWarn, DeinitContextResources, TakeMessage,
              TakeStaleWarn, TakeEvent
    <2> QED BY <1>5, <2>1, <2>2, <2>3 DEF WaysOf, Moved
  <1> QED BY <1>3, <1>4, <1>5 DEF Answered

-----------------------------------------------------------------------------
(* What the host holds.                                                    *)

\* A poller is past the release of what was held because it released it, or was so
\* before; and it may release because the generation was its token's.
LEMMA WaysToLook ==
    ASSUME PollTypes, NEW h \in Hosts, Enters(h) \/ PollStep(h)
    PROVE  /\ call'[h].pc \in Looking => ReleaseHeld(h) \/ (call[h].pc \in Looking /\ ~TakeMessage(h))
           /\ call'[h].pc = "release" =>
                call'[h].gen = call[h].gen /\ generation = call[h].gen /\ UNCHANGED <<slot, last>>
  <1>1. call \in [Hosts -> Call]
    BY DEF PollTypes
  <1> USE <1>1 DEF Call, Looking, Outside, PollPcs, NoCall, At, Moves, Returns, Unlocks,
     untouched, held
  <1>2. CASE ReportClosed(h) \/ Disarm(h) \/ ClearWake(h)
    BY <1>2 DEF ReportClosed, Disarm, ClearWake, TakeMessage
  <1>3. CASE ReleaseHeld(h)
    BY <1>3 DEF ReleaseHeld
  <1>4. CASE LookAgain(h)
    <2>1. PICK p \in PollPcs \ (Outside \union {"release"}) : Moves(h, p)
      BY <1>4 DEF LookAgain
    <2>2. call[h].pc \in Looking /\ call[h].pc # "take"
      BY <1>4 DEF LookAgain
    <2> QED BY <2>1, <2>2 DEF TakeMessage
  <1>5. CASE TakeMessage(h)
    <2>1. Unlocks(h)
      BY <1>5 DEF TakeMessage, TakeReply, TakeStaleWarn, TakeEvent, Hand
    <2> QED BY <2>1
  <1>6. CASE ReadEvents(h) \/ ReadReplies(h) \/ ReadStale(h)
    BY <1>6 DEF ReadEvents, ReadReplies, ReadStale, TakeMessage
  <1>7. CASE Enters(h)
    <2>1. PICK g \in Tokens, p \in {"owner", "turnedAway"} :
            call' = [call EXCEPT ![h] = [NoCall EXCEPT !.pc = p, !.gen = g]]
      BY <1>7 DEF Enters, TryAcquire
    <2> QED BY <2>1
  <1>8. CASE TurnedAway(h) \/ Ending(h) \/ Acquire(h) \/ IsOwner(h)
    BY <1>8 DEF TurnedAway, Ending, Acquire, IsOwner
  <1>9. CASE Look(h) \/ LivenessReport(h) \/ DeadlinePasses(h) \/ WaitEnds(h)
    BY <1>9 DEF Look, LivenessReport, DeadlinePasses, WaitEnds, TakeMessage
  <1>10. CASE NothingTaken(h)
    <2>1. call[h].pc = "take" /\ call'[h].pc = "closing"
      BY <1>10 DEF NothingTaken
    <2>2. TakeMessage(h) => Unlocks(h)
      BY DEF TakeMessage, TakeReply, TakeStaleWarn, TakeEvent, Hand
    <2>3. Unlocks(h) => call'[h].pc = "idle"
      OBVIOUS
    <2> QED BY <2>1, <2>2, <2>3
  <1> QED BY <1>2, <1>3, <1>4, <1>5, <1>6, <1>7, <1>8, <1>9, <1>10 DEF PollStep

\* Whoever changes what is held has the poll for itself.
LEMMA HolderAlone ==
    ASSUME PollTypes, OnePoller, NEW h \in Hosts, NEW k \in Hosts, h # k,
           ReleaseHeld(k) \/ TakeMessage(k)
    PROVE  call[h].pc \in Outside /\ call'[h] = call[h]
  <1>1. call[k].pc \in {"release", "take"}
    BY DEF ReleaseHeld, TakeMessage, At
  <1>2. pollLock = k
    BY <1>1 DEF OnePoller, Outside
  <1>3. call'[h] = call[h]
    BY DEF ReleaseHeld, TakeMessage, TakeReply, TakeStaleWarn, TakeEvent, Hand, Unlocks,
       Returns,
           Moves, PollTypes
  <1> QED BY <1>2, <1>3 DEF OnePoller

LEMMA HoldsOneKept ==
    ASSUME SlotTypes, PollTypes, QueueTypes, OnePoller, Answered, HoldsOne, Next
    PROVE  HoldsOne'
  <1>1. ASSUME NEW r \in Requests
        PROVE  req'[r].state = "held" <=> heldReply' = r
    <2>1. WaysOf(r) /\ (req[r].state = "held" <=> heldReply = r)
      BY RequestMoves DEF HoldsOne
    <2>2. ASSUME NEW h \in Hosts, ReleaseHeld(h)
          PROVE  req'[r].state = "held" <=> heldReply' = r
      BY <2>1, <2>2, NoRequestAssumption DEF ReleaseHeld, DeleteRequest, Becomes,
         SlotTypes, PollTypes
    <2>3. ASSUME NEW h \in Hosts, TakeMessage(h), TakeReply(h)
          PROVE  req'[r].state = "held" <=> heldReply' = r
      <3>1. heldReply = NoRequest
        BY <2>3 DEF TakeMessage, At, HoldsOne, Looking, Outside, PollPcs
      <3>2. Head(replyQueue).of \in Requests
        BY <2>3, HeadsTyped DEF TakeReply
      <3> QED BY <2>1, <2>3, <3>1, <3>2, NoRequestAssumption DEF TakeReply, Becomes,
         SlotTypes
    <2>4. CASE ~\E h \in Hosts : ReleaseHeld(h) \/ (TakeMessage(h) /\ TakeReply(h))
      <3>1. UNCHANGED heldReply
        BY <2>4, HeldChanges DEF TakeMessage, TakeStaleWarn, TakeEvent
      <3> QED BY <2>1, <2>4, <3>1 DEF WaysOf, Moved
    <2> QED BY <2>2, <2>3, <2>4
  <1>2. ASSUME NEW h \in Hosts, call'[h].pc \in Looking
        PROVE  heldReply' = NoRequest
    <2>1. CASE ~\E k \in Hosts : Enters(k) \/ PollStep(k)
      BY <1>2, <2>1, OthersLeavePollers DEF HoldsOne
    <2>2. CASE Enters(h) \/ PollStep(h)
      <3>1. CASE ReleaseHeld(h)
        BY <3>1 DEF ReleaseHeld
      <3>2. CASE ~ReleaseHeld(h)
        <4>1. call[h].pc \in Looking /\ ~TakeMessage(h)
          BY <1>2, <2>2, <3>2, WaysToLook
        <4>2. UNCHANGED heldReply
          BY <2>2, <3>2, <4>1, PollerHolds
        <4> QED BY <4>1, <4>2 DEF HoldsOne
      <3> QED BY <3>1, <3>2
    <2>3. ASSUME NEW k \in Hosts, k # h, Enters(k) \/ PollStep(k)
          PROVE  heldReply' = NoRequest
      <3>1. call'[h] = call[h]
        BY <2>3, PollerStep DEF PollerGoesOn
      <3>2. ~(ReleaseHeld(k) \/ TakeMessage(k))
        BY <1>2, <2>3, <3>1, HolderAlone DEF Looking
      <3> QED BY <1>2, <2>3, <3>1, <3>2, PollerHolds DEF HoldsOne
    <2> QED BY <2>1, <2>2, <2>3
  <1> QED BY <1>1, <1>2 DEF HoldsOne

\* The message a poll hands out, whatever its kind.
LEMMA HandedOut ==
    ASSUME SlotTypes, PollTypes, QueueTypes, OnePoller, RunsForOwner, QueuesOfOwner, Warned,
           NEW h \in Hosts, TakeMessage(h)
    PROVE  /\ last'.to = call[h].gen /\ call'[h].pc = "idle"
           /\ UNCHANGED generation
           /\ last'.kind = "reply" => last'.of \in Requests /\ req'[last'.of].state = "held"
           /\ last'.kind = "event" => heldEvent' = last'.num
           /\ last'.ran => last'.claim = generation
  <1>1. UNCHANGED generation /\ call'[h].pc = "idle"
    BY DEF TakeMessage, slot, TakeReply, TakeStaleWarn, TakeEvent, Hand, Unlocks,
       Returns, NoCall, PollTypes
  <1>2. CASE TakeReply(h)
    <2>1. Head(replyQueue).of \in Requests /\ Head(replyQueue) = replyQueue[1] /\ 1 \in DOMAIN replyQueue
      BY <1>2, HeadsTyped, OldestLeaves DEF TakeReply, QueueTypes
    <2>2. replyQueue[1].ran => req[replyQueue[1].of].claim = generation
      BY <2>1 DEF QueuesOfOwner
    <2> QED BY <1>1, <1>2, <2>1, <2>2 DEF TakeReply, Hand, Becomes, SlotTypes
  <1>3. CASE TakeStaleWarn(h)
    <2>1. Head(staleQueue) = staleQueue[1] /\ 1 \in DOMAIN staleQueue
      BY <1>3, OldestLeaves DEF TakeStaleWarn, QueueTypes
    <2>2. req[staleQueue[1].of].claim = generation
      BY <2>1, QueuedTyped DEF Warned, RunsForOwner
    <2> QED BY <1>1, <1>3, <2>1, <2>2 DEF TakeStaleWarn, Hand
  <1>4. CASE TakeEvent(h)
    <2>1. Head(events) = events[1] /\ 1 \in DOMAIN events
      BY <1>4, OldestLeaves DEF TakeEvent, QueueTypes
    <2>2. events[1].claim = generation
      BY <2>1 DEF QueuesOfOwner
    <2> QED BY <1>1, <1>4, <2>1, <2>2 DEF TakeEvent, Hand
  <1> QED BY <1>2, <1>3, <1>4 DEF TakeMessage

\* Once a full destroy freed the queues, the release of the slot is next.
LEMMA FreedUntilReleased ==
    ASSUME Next, ffi.pc = "freed"
    PROVE  ffi'.pc = "freed" \/ ReleaseSlot
  <1>1. ASSUME NEW h \in Hosts, Enters(h) \/ PollStep(h)
        PROVE  UNCHANGED ffi
    BY <1>1, PollersAlone DEF Pokes, untouched, ReleaseHeld, TakeMessage, Disarm,
       ClearWake
  <1>2. UNCHANGED ffi \/ ReleaseSlot
    BY <1>1 DEF Next, Enters, FfiThread, Destroy, Claim, RequestRecycle, TryClaimRequest,
       PushRequest, GiveBack, Dispatch, Answer, EnqueueStaleWarn, RejectQueued, Exchange,
       Fire, Emit, StartRecycle, TornDown, Quarantine, CloseOutbound, DropQueuedMessages,
       MergeQueues, ReleaseClaim, LeaveLoop, LastDrainEnds, ThreadExits,
       DeinitContextResources, FfiMoves
  <1> QED BY <1>2

LEMMA LastKept ==
    ASSUME SlotTypes, PollTypes, QueueTypes, OnePoller, RunsForOwner, QueuesOfOwner, Warned, Answered,
           HoldsOne, HeldStays, LastOfPast, NothingOutlivesClaim, Next
    PROVE  HeldStays' /\ LastOfPast' /\ NothingOutlivesClaim'
  <1>1. /\ generation \in Nat /\ generation' \in {generation, generation + 1}
        /\ last.to \in Nat /\ last.to <= generation
    BY GenerationGrows DEF SlotTypes, PollTypes, Handed, LastOfPast
  <1>2. \A k \in Hosts : call[k].gen \in Nat /\ call[k].gen <= generation
    BY DEF OnePoller, PollTypes, Call
  <1>3. CASE /\ UNCHANGED <<heldReply, last>>
             /\ UNCHANGED heldEvent \/ DeinitContextResources
             /\ ~\E h \in Hosts : ReleaseHeld(h) \/ TakeMessage(h)
    <2>1. HeldStays'
      <3>1. CASE UNCHANGED generation /\ last.kind = "reply" /\ req[last.of].state = "held"
        BY <1>3, <3>1, RequestMoves DEF WaysOf, Moved, HeldStays, LastOfPast
      <3>2. CASE DeinitContextResources
        BY <3>2 DEF DeinitContextResources, FfiMoves, HeldStays, SlotTypes
      <3>3. CASE ffi.pc = "freed" /\ ReleaseSlot
        BY <1>1, <1>3, <3>3 DEF ReleaseSlot, HeldStays
      <3>4. CASE UNCHANGED heldEvent /\ (ffi'.pc = "freed" \/ ffi.pc # "freed")
        BY <1>1, <1>3, <3>1, <3>4 DEF HeldStays
      <3> QED BY <1>3, <3>2, <3>3, <3>4, FreedUntilReleased
    <2>2. ASSUME NEW k \in Hosts, call'[k].pc = "release"
          PROVE  last'.to <= call'[k].gen
      <3>1. CASE Enters(k) \/ PollStep(k)
        BY <1>1, <1>3, <2>2, <3>1, WaysToLook
      <3>2. CASE ~(Enters(k) \/ PollStep(k))
        <4>1. call'[k] = call[k]
          BY <3>2, OthersLeavePollers, PollerStep DEF PollerGoesOn
        <4> QED BY <1>3, <2>2, <4>1 DEF LastOfPast
      <3> QED BY <3>1, <3>2
    <2> QED BY <1>1, <1>3, <2>1, <2>2 DEF LastOfPast, NothingOutlivesClaim
  <1>4. ASSUME NEW h \in Hosts, ReleaseHeld(h)
        PROVE  HeldStays' /\ LastOfPast' /\ NothingOutlivesClaim'
    <2>1. /\ UNCHANGED generation /\ call'[h].pc = "look"
          /\ last' = IF last.to = call[h].gen THEN [last EXCEPT !.read = TRUE] ELSE last
          /\ UNCHANGED ffi
      BY <1>4 DEF ReleaseHeld, slot, Moves, PollTypes, Call
    <2>2. last.to <= call[h].gen
      BY <1>4 DEF ReleaseHeld, At, LastOfPast
    <2>3. /\ last'.to = last.to /\ last'.kind = last.kind /\ last'.of = last.of
          /\ last'.ran = last.ran /\ last'.claim = last.claim
          /\ last.to = call[h].gen => last'.read
      BY <2>1 DEF PollTypes, Handed
    <2>4. HeldStays'
      BY <1>1, <1>2, <2>1, <2>2, <2>3 DEF HeldStays
    <2>5. ASSUME NEW k \in Hosts
          PROVE  call'[k].pc # "release"
      BY <1>4, <2>1, HolderAlone DEF Outside
    <2> QED BY <1>1, <2>1, <2>3, <2>4, <2>5 DEF LastOfPast, NothingOutlivesClaim
  <1>5. ASSUME NEW h \in Hosts, TakeMessage(h)
        PROVE  HeldStays' /\ LastOfPast' /\ NothingOutlivesClaim'
    <2>1. ASSUME NEW k \in Hosts
          PROVE  call'[k].pc # "release"
      BY <1>5, HandedOut, HolderAlone DEF Outside
    <2> QED BY <1>1, <1>2, <1>5, <2>1, HandedOut DEF HeldStays, LastOfPast,
       NothingOutlivesClaim
  <1> QED BY <1>3, <1>4, <1>5, HeldChanges

-----------------------------------------------------------------------------
(* The count.                                                              *)

\* The queue of replies has one message for each answered request.
Replied == {r \in Requests : req[r].state = "replied"}

LEMMA RepliesCounted ==
    ASSUME QueueTypes, Answered
    PROVE  IsFiniteSet(Replied) /\ Cardinality(Replied) = Len(replyQueue)
  <1> DEFINE n == Len(replyQueue)
             f == [i \in 1 .. n |-> replyQueue[i].of]
  <1>1. n \in Nat /\ DOMAIN replyQueue = 1 .. n
    BY DEF QueueTypes
  <1>2. f \in Surjection(1 .. n, Replied)
    <2>1. \A i \in 1 .. n : replyQueue[i].of \in Replied
      BY <1>1, QueuedTyped DEF Answered, Replied
    <2>2. \A r \in Replied : \E i \in 1 .. n : f[i] = r
      BY <1>1 DEF Answered, Replied
    <2> QED BY <2>1, <2>2 DEF Surjection
  <1>3. f \in Injection(1 .. n, Replied)
    BY <1>1, <1>2 DEF Surjection, Injection, IsInjective, Answered, Distinct
  <1> HIDE DEF f, n
  <1>4. IsFiniteSet(1 .. n) /\ Cardinality(1 .. n) = n
    <2>1. 1 \in Int /\ n \in Int
      BY <1>1
    <2>2. IsFiniteSet(1 .. n) /\ Cardinality(1 .. n) = IF 1 > n THEN 0 ELSE n - 1 + 1
      BY <2>1, FS_Interval
    <2> QED BY <1>1, <2>2
  <1>5. IsFiniteSet(Replied) /\ Cardinality(Replied) = Cardinality(1 .. n)
    BY <1>2, <1>3, <1>4, FS_Surjection
  <1> QED BY <1>4, <1>5 DEF n

LEMMA CountedKept ==
    ASSUME SlotTypes, PollTypes, QueueTypes, Answered, HoldsOne, Counted, Next
    PROVE  Counted'
  <1>1. ASSUME NEW r \in Requests, req[r].state \notin {"new", "freed"},
               Becomes(r, "freed"), outstanding' = outstanding - 1
        PROVE  Counted'
    <2>1. Uncollected' = Uncollected \ {r}
      BY <1>1 DEF Uncollected, Becomes, SlotTypes
    <2>2. r \in Uncollected
      BY <1>1 DEF Uncollected
    <2> QED BY <1>1, <2>1, <2>2, FS_RemoveElement DEF Counted
  <1>2. ASSUME UNCHANGED outstanding, \A r \in Requests :
                 req'[r].state \in {"new", "freed"} <=> req[r].state \in {"new", "freed"}
        PROVE  Counted'
    <2>1. Uncollected' = Uncollected
      BY <1>2 DEF Uncollected
    <2> QED BY <1>2, <2>1 DEF Counted
  <1>3. ASSUME NEW r \in Requests, TryClaimRequest(r)
        PROVE  Counted'
    <2>1. Uncollected' = Uncollected \union {r} /\ r \notin Uncollected
      BY <1>3 DEF Uncollected, TryClaimRequest, SlotTypes
    <2> QED BY <1>3, <2>1, FS_AddElement DEF Counted, TryClaimRequest
  <1>4. ASSUME NEW r \in Requests, PushRequest(r)
        PROVE  Counted'
    BY <1>2, <1>4 DEF PushRequest, Becomes, SlotTypes
  <1>5. ASSUME NEW r \in Requests, GiveBack(r)
        PROVE  Counted'
    BY <1>1, <1>5 DEF GiveBack
  <1>6. ASSUME NEW r \in Requests, NEW ran \in BOOLEAN, EnqueueReply(r, ran),
               req[r].state \in {"running", "queued", "merged"}
        PROVE  Counted'
    BY <1>2, <1>6 DEF EnqueueReply, Becomes, SlotTypes
  <1>7. ASSUME NEW r \in Requests, Dispatch(r)
        PROVE  Counted'
    <2>1. CASE DeleteRequest(r)
      BY <1>1, <1>7, <2>1 DEF Dispatch, DeleteRequest
    <2>2. CASE Becomes(r, "running") /\ UNCHANGED outstanding
      BY <1>2, <1>7, <2>2 DEF Dispatch, Becomes, SlotTypes
    <2> QED BY <1>7, <2>1, <2>2 DEF Dispatch
  <1>8. ASSUME NEW r \in Requests, RejectQueued(r)
        PROVE  Counted'
    <2>1. CASE DeleteRequest(r)
      BY <1>1, <1>8, <2>1 DEF RejectQueued, DeleteRequest
    <2> QED BY <1>6, <1>8, <2>1 DEF RejectQueued
  <1>9. CASE DropQueuedMessages
    <2>1. Uncollected' = Uncollected \ Replied
      BY <1>9 DEF DropQueuedMessages, Uncollected, Replied, SlotTypes
    <2>2. Uncollected \intersect Replied = Replied
      BY DEF Uncollected, Replied
    <2>3. /\ IsFiniteSet(Uncollected \ Replied)
          /\ Cardinality(Uncollected \ Replied) = Cardinality(Uncollected) - Cardinality(Replied)
      BY <2>2, FS_Difference DEF Counted
    <2>4. outstanding' = outstanding - Len(replyQueue)
      BY <1>9 DEF DropQueuedMessages
    <2> QED BY <2>1, <2>3, <2>4, RepliesCounted DEF Counted
  <1>10. ASSUME NEW h \in Hosts, TakeMessage(h)
         PROVE  Counted'
    <2>2. UNCHANGED outstanding
      BY <1>10 DEF TakeMessage, TakeReply, TakeStaleWarn, TakeEvent
    <2>3. CASE TakeReply(h)
      <3>1. Head(replyQueue).of \in Requests /\ req[Head(replyQueue).of].state = "replied"
        <4>1. replyQueue # <<>>
          BY <2>3 DEF TakeReply
        <4>2. Head(replyQueue) = replyQueue[1] /\ 1 \in DOMAIN replyQueue
          BY <4>1, OldestLeaves DEF QueueTypes
        <4> QED BY <4>1, <4>2, HeadsTyped DEF Answered
      <3> QED BY <1>2, <2>2, <2>3, <3>1 DEF TakeReply, Becomes, SlotTypes
    <2> QED BY <1>2, <1>10, <2>2, <2>3 DEF TakeMessage, TakeStaleWarn, TakeEvent
  <1>11. ASSUME NEW h \in Hosts, ReleaseHeld(h)
         PROVE  Counted'
    <2>1. CASE heldReply = NoRequest
      BY <1>2, <1>11, <2>1 DEF ReleaseHeld
    <2>2. CASE heldReply # NoRequest
      <3>1. heldReply \in Requests /\ req[heldReply].state = "held"
        BY <2>2 DEF PollTypes, HoldsOne
      <3> QED BY <1>1, <1>11, <2>2, <3>1 DEF ReleaseHeld, DeleteRequest
    <2> QED BY <2>1, <2>2
  <1>12. CASE UNCHANGED <<req, outstanding>>
    BY <1>2, <1>12
  <1>13. ASSUME NEW h \in Hosts, Enters(h) \/ PollStep(h)
         PROVE  Counted'
    BY <1>10, <1>11, <1>12, <1>13, PollersAlone DEF Pokes, untouched, Disarm, ClearWake
  <1>14. ASSUME NEW r \in Requests, Answer(r) \/ EnqueueStaleWarn(r)
         PROVE  Counted'
    BY <1>6, <1>12, <1>14 DEF Answer, EnqueueStaleWarn
  <1>15. CASE Claim \/ RequestRecycle \/ Exchange \/ Fire \/ Emit \/ StartRecycle \/ TornDown
              \/ Quarantine \/ CloseOutbound \/ ReleaseClaim
              \/ LeaveLoop \/ LastDrainEnds \/ ThreadExits \/ ReleaseSlot
    BY <1>12, <1>15 DEF Claim, RequestRecycle, Exchange, Fire, Emit, StartRecycle,
       TornDown, Quarantine, CloseOutbound, ReleaseClaim, LeaveLoop, LastDrainEnds,
       ThreadExits, ReleaseSlot
  <1>16. CASE MergeQueues \/ DeinitContextResources
    BY <1>2, <1>16 DEF MergeQueues, DeinitContextResources, SlotTypes
  <1> QED BY <1>3, <1>4, <1>5, <1>7, <1>8, <1>9, <1>13, <1>14, <1>15, <1>16 DEF Next,
     FfiThread, Destroy, Enters

-----------------------------------------------------------------------------
(* The inductive invariant, and what follows from it.                      *)

LEMMA InitInv == Init => IInv
  <1> SUFFICES ASSUME Init PROVE IInv
    OBVIOUS
  <1> USE BoundsAssumption DEF Init
  <1>1. SlotTypes /\ RecycleOwns
    BY DEF SlotTypes, RecycleOwns, Lifecycles, ReqStates, FfiPcs, Phase, Owned
  <1>2. PollTypes
    BY DEF PollTypes, NoCall, NoMessage, Call, PollPcs, Handed
  <1>8. HeldStays /\ LastOfPast /\ NothingOutlivesClaim
    BY DEF HeldStays, LastOfPast, NothingOutlivesClaim, NoCall, NoMessage
  <1>3. QueueTypes /\ Numbered
    BY DEF QueueTypes, Numbered
  <1>4. OnePoller /\ WaitsInClaim
    BY FreeAssumption DEF OnePoller, WaitsInClaim, NoCall, Outside, Arming
  <1>5. RunsForOwner /\ QueuesOfOwner /\ Warned /\ Answered
    BY DEF RunsForOwner, QueuesOfOwner, Warned, Answered, Distinct
  <1>6. HoldsOne
    BY NoRequestAssumption DEF HoldsOne
  <1>7. Counted
    <2>1. Uncollected = {}
      BY DEF Uncollected
    <2> QED BY <2>1, FS_EmptySet DEF Counted
  <1> QED BY <1>1, <1>2, <1>3, <1>4, <1>5, <1>6, <1>7, <1>8 DEF IInv

LEMMA StutterInv == IInv /\ UNCHANGED vars => IInv'
  BY DEF IInv, vars, slot, queues, poller, SlotTypes, PollTypes, QueueTypes, Numbered,
     RecycleOwns,
         OnePoller, RunsForOwner, QueuesOfOwner, Warned, Answered, HoldsOne, HeldStays,
         LastOfPast, NothingOutlivesClaim, Counted, WaitsInClaim, Uncollected, Dropped,
            Phase, Owned

\* IInv holds in every reachable state.
THEOREM PollInvariant == Spec => []IInv
  <1>1. ASSUME IInv, [Next]_vars PROVE IInv'
    <2>1. CASE UNCHANGED vars
      BY <1>1, <2>1, StutterInv
    <2>2. CASE Next
      <3>0. /\ SlotTypes /\ PollTypes /\ QueueTypes /\ Numbered /\ RecycleOwns /\ OnePoller
            /\ RunsForOwner /\ QueuesOfOwner /\ Warned /\ Answered /\ HoldsOne /\ HeldStays
            /\ LastOfPast /\ NothingOutlivesClaim /\ Counted /\ WaitsInClaim
        BY <1>1 DEF IInv
      <3>1. SlotTypes' /\ RecycleOwns'
        BY <2>2, <3>0, SlotKept
      <3>2. PollTypes' /\ OnePoller'
        BY <2>2, <3>0, <3>1, PollersKept
      <3>3. QueueTypes' /\ Numbered'
        BY <2>2, <3>0, QueuesTyped, NumberedKept
      <3>4. RunsForOwner' /\ QueuesOfOwner'
        BY <2>2, <3>0, <3>1, OwnersKept
      <3>5. Warned' /\ Answered' /\ HoldsOne'
        BY <2>2, <3>0, WarnedKept, AnsweredKept, HoldsOneKept
      <3>6. HeldStays' /\ LastOfPast' /\ NothingOutlivesClaim'
        BY <2>2, <3>0, LastKept
      <3>7. Counted' /\ WaitsInClaim'
        BY <2>2, <3>0, CountedKept, WaitsKept
      <3> QED BY <3>1, <3>2, <3>3, <3>4, <3>5, <3>6, <3>7 DEF IInv
    <2> QED BY <1>1, <2>1, <2>2
  <1> QED BY <1>1, InitInv, PTL DEF Spec

\* Every reachable state is well typed, the messages are numbered below the next number,
\* and the poll lock is held by the host that is inside the poll and by no other.
THEOREM PollTypeCorrect == Spec => []TypeOK
  <1>1. IInv => TypeOK
    <2> SUFFICES ASSUME IInv PROVE TypeOK
      OBVIOUS
    <2> DEFINE E == [num : Nat, claim : Nat]
               R == [num : Nat, of : Requests, ran : BOOLEAN]
               S == [num : Nat, of : Requests]
               ENow == [num : 1 .. seqNum, claim : 1 .. 2 * MaxClaims]
               RNow == [num : 1 .. seqNum, of : Requests, ran : BOOLEAN]
               SNow == [num : 1 .. seqNum, of : Requests]
    <2>0. events \in Seq(E) /\ replyQueue \in Seq(R) /\ staleQueue \in Seq(S)
      BY DEF IInv, QueueTypes
    <2>1. events \in Seq(ENow)
      <3>1. generation \in 1 .. 2 * MaxClaims \/ events = <<>>
        <4>1. events # <<>> => 1 \in DOMAIN events
          <5> HIDE DEF E
          <5> QED BY <2>0, OldestLeaves
        <4>2. 1 \in DOMAIN events => generation % 2 = 1
          BY DEF IInv, QueuesOfOwner, Dropped, Owned
        <4>3. generation \in 0 .. 2 * MaxClaims
          BY DEF IInv, SlotTypes
        <4> QED BY <4>1, <4>2, <4>3, BoundsAssumption
      <3>2. ASSUME NEW i \in DOMAIN events
            PROVE  events[i] \in ENow
        <4>1. events[i] \in E
          <5> HIDE DEF E
          <5> QED BY <2>0, AllOfKind
        <4>2. events[i].num \in 1 .. seqNum /\ events[i].claim = generation
          BY DEF IInv, Numbered, QueuesOfOwner
        <4> QED BY <3>1, <4>1, <4>2
      <3> HIDE DEF E, ENow
      <3> QED BY <2>0, <3>2, SeqNarrows
    <2>2. replyQueue \in Seq(RNow)
      <3>1. ASSUME NEW i \in DOMAIN replyQueue
            PROVE  replyQueue[i] \in RNow
        <4>1. replyQueue[i] \in R
          <5> HIDE DEF R
          <5> QED BY <2>0, AllOfKind
        <4>2. replyQueue[i].num \in 1 .. seqNum
          BY DEF IInv, Numbered
        <4> QED BY <4>1, <4>2
      <3> HIDE DEF R, RNow
      <3> QED BY <2>0, <3>1, SeqNarrows
    <2>3. staleQueue \in Seq(SNow)
      <3>1. ASSUME NEW i \in DOMAIN staleQueue
            PROVE  staleQueue[i] \in SNow
        <4>1. staleQueue[i] \in S
          <5> HIDE DEF S
          <5> QED BY <2>0, AllOfKind
        <4>2. staleQueue[i].num \in 1 .. seqNum
          BY DEF IInv, Numbered
        <4> QED BY <4>1, <4>2
      <3> HIDE DEF S, SNow
      <3> QED BY <2>0, <3>1, SeqNarrows
    <2>4. outstanding \in Nat
      BY FS_CardinalityType DEF IInv, Counted
    <2>5. ASSUME NEW h \in Hosts
          PROVE  /\ call[h].pc \in PollPcs
                 /\ call[h].gen \in 0 .. generation
                 /\ pollLock = h <=> call[h].pc \notin {"idle", "turnedAway", "ending", "acquire"}
      BY DEF IInv, PollTypes, Call, OnePoller, Outside, SlotTypes
    <2>6. ffi \in [pc : FfiPcs, back : FfiPcs]
      BY DEF IInv, SlotTypes, FfiPcs
    <2>7. seqNum \in Nat /\ heldEvent \in 0 .. seqNum
      BY DEF IInv, QueueTypes, Numbered, PollTypes
    <2> QED BY <2>1, <2>2, <2>3, <2>4, <2>5, <2>6, <2>7 DEF IInv, SlotTypes, PollTypes,
       Lifecycles, TypeOK
  <1> QED BY <1>1, PollInvariant, PTL

\* No warning is queued for a request that does not run any more (unlink in
\* enqueueReply, for every request the queue links).
THEOREM NoStaleLink == Spec => []NoDanglingStale
  <1>1. IInv => NoDanglingStale
    BY DEF IInv, Warned, NoDanglingStale
  <1> QED BY <1>1, PollInvariant, PTL

\* The count of outstanding requests is that of the requests counted in and not counted
\* out, over refusals, drops, rejects and recycles (tryClaimRequest and deleteRequest); the
\* requests a full destroy frees in the queue (deinitRequestQueue) remain in it for good.
THEOREM CountIsExact == Spec => []OutstandingIsExact
  <1>1. IInv => OutstandingIsExact
    BY DEF IInv, Counted, Uncollected, OutstandingIsExact
  <1> QED BY <1>1, PollInvariant, PTL

\* An answer is in the reply queue once or in the host's hands, and in no other place.
THEOREM NoReplyLost == Spec => []ReplyIsSomewhere
  <1>1. ASSUME IInv, NEW r \in Requests
        PROVE  /\ Cardinality({i \in DOMAIN replyQueue : replyQueue[i].of = r})
                    = IF req[r].state = "replied" THEN 1 ELSE 0
               /\ req[r].state = "held" <=> heldReply = r
    <2> DEFINE Places == {i \in DOMAIN replyQueue : replyQueue[i].of = r}
    <2>1. Answered /\ (req[r].state = "held" <=> heldReply = r)
      BY <1>1 DEF IInv, HoldsOne
    <2>2. CASE req[r].state = "replied"
      <3>1. PICK i \in DOMAIN replyQueue : replyQueue[i].of = r
        BY <2>1, <2>2 DEF Answered
      <3>2. Places = {i}
        BY <2>1, <3>1 DEF Answered, Distinct
      <3> HIDE DEF Places
      <3>3. Cardinality(Places) = 1
        BY <3>2, FS_Singleton
      <3> QED BY <2>1, <2>2, <3>3 DEF Places
    <2>3. CASE req[r].state # "replied"
      <3>1. Places = {}
        BY <2>1, <2>3 DEF Answered
      <3> HIDE DEF Places
      <3>2. Cardinality(Places) = 0
        BY <3>1, FS_EmptySet
      <3> QED BY <2>1, <2>3, <3>2 DEF Places
    <2> QED BY <2>2, <2>3
  <1>2. IInv => ReplyIsSomewhere
    BY <1>1 DEF ReplyIsSomewhere
  <1> QED BY <1>2, PollInvariant, PTL

\* While its claim owns the slot, the message a host was handed last stays until the next
\* poll under that claim (heldReply, held and deleteRequest in takeMessage's poll).
THEOREM MessageStays == Spec => []HeldStays
  <1>1. IInv => HeldStays
    BY DEF IInv
  <1> QED BY <1>1, PollInvariant, PTL

\* No message of a claim that ran is handed to a later owner of the slot
\* (dropQueuedMessages under the poll lock).
THEOREM OwnersApart == Spec => []NothingOutlivesClaim
  <1>1. IInv => NothingOutlivesClaim
    BY DEF IInv
  <1> QED BY <1>1, PollInvariant, PTL

\* No poller sleeps through the end of its claim (closeOutbound's store before its fire,
\* against the poller's disarm before its look at closedGeneration).
THEOREM NoMissedEnd == Spec => []EndWakesPoller
  <1>1. ASSUME IInv, NEW h \in Hosts, call[h].pc = "wait", Ended(call[h].gen),
               ffi.pc \notin {"closeFailed", "fire"}
        PROVE  wake
    <2>1. call[h].gen = generation
      BY <1>1 DEF IInv, WaitsInClaim
    <2>2. closed = generation
      BY <1>1, <2>1 DEF Ended, IInv, RecycleOwns, Phase, SlotTypes
    <2> QED BY <1>1, <2>1, <2>2 DEF IInv, WaitsInClaim
  <1>2. IInv => EndWakesPoller
    BY <1>1 DEF EndWakesPoller, At
  <1> QED BY <1>2, PollInvariant, PTL

=============================================================================
