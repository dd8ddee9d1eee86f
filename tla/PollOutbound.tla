---------------------------- MODULE PollOutbound ----------------------------
(***************************************************************************)
(* Messages in poll mode (-d:ffiPollMode): the FFI thread queues replies,  *)
(* stale warnings and events of the claim it serves, host threads take     *)
(* them out with poll, one at a time, and a recycle closes the claim and   *)
(* drops what was not collected.  A full destroy joins the FFI thread,     *)
(* frees the queues with what is still in them and releases the slot; the  *)
(* next create builds them again.                                          *)
(*                                                                         *)
(* Every section under a lock and every access to an atomic is a step,     *)
(* but that submit's checks go with the count, as the window after them    *)
(* lasts until the push.                                                   *)
(*                                                                         *)
(* Abstracted: payload bytes; the order of the ingress queue; a full ring  *)
(* (MaxNumber stays below EventQueueCapacity); what a liveness report      *)
(* says; the number of a MsgClosed; polledGeneration, which only shutdown  *)
(* and a full ring read.  The loop's reads of the generation and the       *)
(* lifecycle are ContextRecycle's; the joins of shutdown and of a park,    *)
(* and a destroy whose join times out, are not in this module.             *)
(***************************************************************************)
EXTENDS Integers, Sequences, FiniteSets, SequencesExt

CONSTANTS
  Hosts,        \* threads that poll
  Requests,     \* every request a host may submit
  NoRequest,
  MaxOutstanding,  \* MaxOutstandingRequests
  MaxNumber,    \* bound: events and warnings stop at this number
  MaxClaims     \* bound: owners of the slot

ASSUME NoRequestAssumption == NoRequest \notin Requests
ASSUME FreeAssumption == "free" \notin Hosts   \* pollLock tells a host from "free"
ASSUME BoundsAssumption ==
  /\ MaxOutstanding \in Nat \ {0}
  /\ MaxNumber \in Nat
  /\ MaxClaims \in Nat

VARIABLES
  generation, lifecycle,
  req,          \* per request: its state, the claim it was submitted under
  outstanding,
  seqNum,       \* msgSeq: the number of the last message produced
  events,       \* the event ring: [num, claim]
  replyQueue,   \* [num, of, ran]; ran = FALSE: rejected unrun
  staleQueue,   \* [num, of]
  wakeArmed, wake,
  closed,       \* closedGeneration
  ffi,          \* the FFI thread: where it is, where it goes on after a notify
  pollLock,     \* the host in the poll, or "free"
  call,         \* per host: its call of poll, and the tickets it read
  heldReply,    \* the request the host reads
  heldEvent,    \* the number of the event the host reads, or 0
  last          \* history: the message last handed out, and to which claim

queues == <<seqNum, events, replyQueue, staleQueue>>
slot == <<generation, lifecycle, closed>>
poller == <<pollLock, call, heldReply, heldEvent, last>>
vars == <<slot, req, outstanding, queues, wakeArmed, wake, ffi, poller>>

Owned == generation % 2 = 1
Tokens == {g \in 1 .. generation : g % 2 = 1}
NoCall == [pc |-> "idle", gen |-> 0, ev |-> 0, rep |-> 0, stale |-> 0]
NoMessage == [to |-> 0, num |-> 0, kind |-> "none", of |-> NoRequest, claim |-> 0,
              ran |-> TRUE, read |-> TRUE]

Init ==
  /\ generation = 0 /\ lifecycle = "Active" /\ closed = 0
  /\ req = [r \in Requests |-> [state |-> "new", claim |-> 0]]
  /\ outstanding = 0
  /\ seqNum = 0 /\ events = <<>> /\ replyQueue = <<>> /\ staleQueue = <<>>
  /\ wakeArmed = FALSE /\ wake = FALSE
  /\ ffi = [pc |-> "loop", back |-> "loop"]
  /\ pollLock = "free"
  /\ call = [h \in Hosts |-> NoCall]
  /\ heldReply = NoRequest /\ heldEvent = 0
  /\ last = NoMessage

Becomes(r, s) == req' = [req EXCEPT ![r].state = s]

-----------------------------------------------------------------------------
(* The owner of the slot, and its submits.                                 *)

\* After a full destroy the create builds the queues again and starts the FFI thread;
\* initOutbound finds the outbound ready and keeps all of it, the count included.
Claim ==
  /\ ~Owned
  /\ generation < 2 * MaxClaims
  /\ generation' = generation + 1
  /\ lifecycle' = "Active"
  /\ ffi' = IF ffi.pc = "down" THEN [pc |-> "loop", back |-> "loop"] ELSE ffi
  /\ UNCHANGED <<closed, req, outstanding, queues, wakeArmed, wake, poller>>

RequestRecycle ==
  /\ Owned /\ lifecycle = "Active"
  /\ lifecycle' = "RecyclePending"
  /\ UNCHANGED <<generation, closed, req, outstanding, queues, wakeArmed, wake, ffi,
                 poller>>

\* deinitRequestQueue asks that producers have stopped.
TryClaimRequest(r) ==
  /\ Owned /\ lifecycle = "Active" /\ ffi.pc # "freed"
  /\ req[r].state = "new"
  /\ req' = [req EXCEPT ![r] =
               [state |-> IF outstanding >= MaxOutstanding THEN "over" ELSE "counted",
                claim |-> generation]]
  /\ outstanding' = outstanding + 1
  /\ UNCHANGED <<slot, queues, wakeArmed, wake, ffi, poller>>

PushRequest(r) ==
  /\ req[r].state = "counted"
  /\ Becomes(r, "queued")
  /\ UNCHANGED <<slot, outstanding, queues, wakeArmed, wake, ffi, poller>>

\* Past the limit, or the ingress queue is full.
GiveBack(r) ==
  /\ req[r].state \in {"over", "counted"}
  /\ Becomes(r, "freed")
  /\ outstanding' = outstanding - 1
  /\ UNCHANGED <<slot, queues, wakeArmed, wake, ffi, poller>>

-----------------------------------------------------------------------------
(* The FFI thread.                                                         *)

\* notifyOutbound follows, then the thread goes on where it was.
Notify == ffi' = [pc |-> "exchange", back |-> ffi.pc]

Exchange ==
  /\ ffi.pc = "exchange"
  /\ wakeArmed' = TRUE
  /\ ffi' = [ffi EXCEPT !.pc = IF wakeArmed THEN ffi.back ELSE "fire"]
  /\ UNCHANGED <<slot, req, outstanding, queues, wake, poller>>

Fire ==
  /\ ffi.pc = "fire"
  /\ wake' = TRUE
  /\ ffi' = [ffi EXCEPT !.pc = ffi.back]
  /\ UNCHANGED <<slot, req, outstanding, queues, wakeArmed, poller>>

\* Where handlers and the library's teardown run.
Serving == {"loop", "recycle", "lastDrain", "exiting"}

\* MUTANT: freed, but not counted out.
DropForgets(r) == Becomes(r, "freed") /\ UNCHANGED outstanding

DeleteRequest(r) == Becomes(r, "freed") /\ outstanding' = outstanding - 1

\* MUTANT: the warning stays queued behind the reply.
ReplyKeepsStale(r) == UNCHANGED staleQueue

UnlinkStale(r) ==
  \/ \E i \in DOMAIN staleQueue :
       staleQueue[i].of = r /\ staleQueue' = RemoveAt(staleQueue, i)
  \/ (\A i \in DOMAIN staleQueue : staleQueue[i].of # r) /\ UNCHANGED staleQueue

EnqueueReply(r, ran) ==
  /\ UnlinkStale(r)
  /\ replyQueue' = Append(replyQueue, [num |-> seqNum + 1, of |-> r, ran |-> ran])
  /\ seqNum' = seqNum + 1
  /\ Becomes(r, "replied")
  /\ Notify
  /\ UNCHANGED <<slot, outstanding, events, wakeArmed, wake, poller>>

\* processQueue, in the loop that read Active or once more after it.
Dispatch(r) ==
  /\ \/ ffi.pc = "loop" /\ lifecycle \in {"Active", "RecyclePending"}
     \/ ffi.pc = "lastDrain"
  /\ req[r].state = "queued"
  /\ IF req[r].claim = generation
     THEN Becomes(r, "running") /\ UNCHANGED outstanding
     ELSE DeleteRequest(r)
  /\ UNCHANGED <<slot, queues, wakeArmed, wake, ffi, poller>>

Answer(r) ==
  /\ ffi.pc \in Serving
  /\ req[r].state = "running"
  /\ EnqueueReply(r, TRUE)

EnqueueStaleWarn(r) ==
  /\ ffi.pc \in Serving
  /\ req[r].state = "running"
  /\ \A i \in DOMAIN staleQueue : staleQueue[i].of # r
  /\ seqNum < MaxNumber
  /\ staleQueue' = Append(staleQueue, [num |-> seqNum + 1, of |-> r])
  /\ seqNum' = seqNum + 1
  /\ Notify
  /\ UNCHANGED <<slot, req, outstanding, events, replyQueue, wakeArmed, wake,
                 poller>>

Emit ==
  /\ ffi.pc \in Serving
  /\ Owned
  /\ seqNum < MaxNumber
  /\ events' = Append(events, [num |-> seqNum + 1, claim |-> generation])
  /\ seqNum' = seqNum + 1
  /\ Notify
  /\ UNCHANGED <<slot, req, outstanding, replyQueue, staleQueue, wakeArmed, wake, poller>>

\* rejectQueuedRequests, one request at a time, on a slot that is not active and, of
\* the requests that were merged, in a recycle's reset.
RejectQueued(r) ==
  /\ \/ ffi.pc = "loop" /\ lifecycle # "Active" /\ req[r].state = "queued"
     \/ ffi.pc = "reject" /\ req[r].state = "merged"
  /\ IF req[r].claim = generation
     THEN EnqueueReply(r, FALSE)
     ELSE /\ DeleteRequest(r)
          /\ UNCHANGED <<slot, queues, wakeArmed, wake, ffi, poller>>

FfiMoves(from, to) == ffi.pc = from /\ ffi' = [ffi EXCEPT !.pc = to]

StartRecycle ==
  /\ FfiMoves("loop", "recycle")
  /\ lifecycle = "RecyclePending"
  /\ lifecycle' = "Recycling"
  /\ UNCHANGED <<generation, closed, req, outstanding, queues, wakeArmed, wake, poller>>

TornDown ==
  /\ FfiMoves("recycle", "close")
  /\ \A r \in Requests : req[r].state # "running"
  /\ UNCHANGED <<slot, req, outstanding, queues, wakeArmed, wake, poller>>

AllRejected == \A r \in Requests : req[r].state # "merged"

\* The drain or the teardown did not complete, or, found only after the reset, the
\* caller gave up.
Quarantine ==
  /\ \/ FfiMoves("recycle", "closeFailed")
     \/ FfiMoves("reject", "closeFailed") /\ AllRejected
  /\ lifecycle' = "RecycleFailed"
  /\ UNCHANGED <<generation, closed, req, outstanding, queues, wakeArmed, wake, poller>>

FiresThen(from, to) == ffi.pc = from /\ ffi' = [pc |-> "fire", back |-> to]

CloseWakes ==
  \/ FiresThen("close", "drop")
  \/ FiresThen("closeFailed", "loop")
  \/ FiresThen("exited", "dropAll")

\* MUTANT: a quarantine does not close.
CloseOnlyReset ==
  /\ CloseWakes
  /\ closed' = IF ffi.pc = "closeFailed" THEN closed ELSE generation
  /\ UNCHANGED <<generation, lifecycle, req, outstanding, queues, wakeArmed, wake, poller>>

\* In a reset, in a quarantine, and by the destroyer that joined the FFI thread.
CloseOutbound ==
  /\ CloseWakes
  /\ closed' = generation
  /\ UNCHANGED <<generation, lifecycle, req, outstanding, queues, wakeArmed, wake, poller>>

Drops == FfiMoves("drop", "merge") \/ FfiMoves("dropAll", "deinit")

\* MUTANT: the events stay.
DropReplies ==
  /\ Drops
  /\ pollLock = "free"
  /\ replyQueue' = <<>> /\ staleQueue' = <<>>
  /\ outstanding' = outstanding - Len(replyQueue)
  /\ req' = [r \in Requests |-> IF req[r].state = "replied"
                                THEN [req[r] EXCEPT !.state = "freed"] ELSE req[r]]
  /\ UNCHANGED <<slot, seqNum, events, wakeArmed, wake, poller>>

DropQueuedMessages ==
  /\ Drops
  /\ pollLock = "free"
  /\ events' = <<>> /\ replyQueue' = <<>> /\ staleQueue' = <<>>
  /\ outstanding' = outstanding - Len(replyQueue)
  /\ req' = [r \in Requests |-> IF req[r].state = "replied"
                                THEN [req[r] EXCEPT !.state = "freed"] ELSE req[r]]
  /\ UNCHANGED <<slot, seqNum, wakeArmed, wake, poller>>

\* Requests pushed behind this are left for the loop.
MergeQueues ==
  /\ FfiMoves("merge", "reject")
  /\ req' = [r \in Requests |-> IF req[r].state = "queued"
                                THEN [req[r] EXCEPT !.state = "merged"] ELSE req[r]]
  /\ UNCHANGED <<slot, outstanding, queues, wakeArmed, wake, poller>>

ReleaseClaim ==
  /\ FfiMoves("reject", "loop")
  /\ AllRejected
  /\ generation' = generation + 1
  /\ UNCHANGED <<lifecycle, closed, req, outstanding, queues, wakeArmed, wake, poller>>

\* destroyFFIContext.  Only the loop reads running, so its store goes with that read.
LeaveLoop ==
  /\ FfiMoves("loop", "lastDrain")
  /\ Owned /\ lifecycle \in {"Active", "RecycleFailed"}
  /\ UNCHANGED <<slot, req, outstanding, queues, wakeArmed, wake, poller>>

\* Requests pushed behind this are left in the queue.
LastDrainEnds ==
  /\ FfiMoves("lastDrain", "exiting")
  /\ \A r \in Requests : req[r].state # "queued"
  /\ UNCHANGED <<slot, req, outstanding, queues, wakeArmed, wake, poller>>

ThreadExits ==
  /\ FfiMoves("exiting", "exited")
  /\ \A r \in Requests : req[r].state # "running"
  /\ UNCHANGED <<slot, req, outstanding, queues, wakeArmed, wake, poller>>

\* freeRequest does not count out what deinitRequestQueue frees.  The reply a host holds
\* stays.
DeinitContextResources ==
  /\ FfiMoves("deinit", "freed")
  /\ \A r \in Requests : req[r].state \notin {"over", "counted"}
  /\ pollLock = "free"
  /\ req' = [r \in Requests |-> IF req[r].state = "queued"
                                THEN [req[r] EXCEPT !.state = "lost"] ELSE req[r]]
  /\ events' = <<>> /\ heldEvent' = 0
  /\ UNCHANGED <<slot, outstanding, seqNum, replyQueue, staleQueue, wakeArmed, wake,
                 pollLock, call, heldReply, last>>

ReleaseSlot ==
  /\ FfiMoves("freed", "down")
  /\ generation' = generation + 1
  /\ lifecycle' = "Active"
  /\ UNCHANGED <<closed, req, outstanding, queues, wakeArmed, wake, poller>>

Destroy ==
  LeaveLoop \/ LastDrainEnds \/ ThreadExits \/ DeinitContextResources \/ ReleaseSlot

FfiThread ==
  \/ Exchange \/ Fire \/ Emit \/ StartRecycle \/ TornDown \/ Quarantine
  \/ CloseOutbound \/ DropQueuedMessages \/ MergeQueues \/ ReleaseClaim
  \/ \E r \in Requests :
       Dispatch(r) \/ Answer(r) \/ EnqueueStaleWarn(r) \/ RejectQueued(r)

-----------------------------------------------------------------------------
(* poll, by a host thread under a token of claim g.                        *)

At(h, pc) == call[h].pc = pc
Moves(h, pc) == call' = [call EXCEPT ![h].pc = pc]
Returns(h) == call' = [call EXCEPT ![h] = NoCall]
Unlocks(h) == Returns(h) /\ pollLock' = "free"

untouched == <<slot, req, outstanding, queues, wakeArmed, wake, ffi>>
held == <<heldReply, heldEvent, last>>

TryAcquire(h, g) ==
  /\ At(h, "idle")
  /\ call' = [call EXCEPT ![h] =
                [NoCall EXCEPT !.pc = IF pollLock = "free" THEN "owner" ELSE "turnedAway",
                               !.gen = g]]
  /\ pollLock' = IF pollLock = "free" THEN h ELSE pollLock
  /\ UNCHANGED <<untouched, held>>

TurnedAway(h) ==
  /\ At(h, "turnedAway")
  /\ IF generation # call[h].gen THEN Returns(h) ELSE Moves(h, "ending")
  /\ UNCHANGED <<untouched, held, pollLock>>

\* Only a poller whose context is ending waits for the lock.
Ending(h) ==
  /\ At(h, "ending")
  /\ IF closed # call[h].gen THEN Returns(h) ELSE Moves(h, "acquire")
  /\ UNCHANGED <<untouched, held, pollLock>>

Acquire(h) ==
  /\ At(h, "acquire")
  /\ pollLock = "free"
  /\ pollLock' = h
  /\ Moves(h, "owner")
  /\ UNCHANGED <<untouched, held>>

\* MUTANT: what is held is released for any token.
AnyoneIsOwner(h) ==
  /\ At(h, "owner")
  /\ Moves(h, "release")
  /\ UNCHANGED <<untouched, held, pollLock>>

IsOwner(h) ==
  /\ At(h, "owner")
  /\ IF generation # call[h].gen
     THEN Unlocks(h)
     ELSE Moves(h, "release") /\ UNCHANGED pollLock
  /\ UNCHANGED <<untouched, held>>

\* MUTANT: the reply last handed out is forgotten.
ForgetHeld(h) ==
  /\ At(h, "release")
  /\ Moves(h, "look")
  /\ UNCHANGED <<untouched, held, pollLock>>

ReleaseHeld(h) ==
  /\ At(h, "release")
  /\ IF heldReply = NoRequest THEN UNCHANGED <<req, outstanding>> ELSE DeleteRequest(heldReply)
  /\ heldReply' = NoRequest
  /\ heldEvent' = 0
  /\ last' = IF last.to = call[h].gen THEN [last EXCEPT !.read = TRUE] ELSE last
  /\ Moves(h, "look")
  /\ UNCHANGED <<slot, queues, wakeArmed, wake, ffi, pollLock>>

\* The top of the loop.
Look(h) ==
  /\ At(h, "look")
  /\ IF generation # call[h].gen
     THEN Unlocks(h)
     ELSE Moves(h, "readEvents") /\ UNCHANGED pollLock
  /\ UNCHANGED <<untouched, held>>

\* One may be due, and then nothing is taken.
LivenessReport(h) ==
  /\ At(h, "readEvents")
  /\ lifecycle = "Active"
  /\ Unlocks(h)
  /\ UNCHANGED <<untouched, held>>

HeadSeq(q) == IF q = <<>> THEN 0 ELSE Head(q).num

ReadEvents(h) ==
  /\ At(h, "readEvents")
  /\ call' = [call EXCEPT ![h].pc = "readReplies", ![h].ev = HeadSeq(events)]
  /\ UNCHANGED <<untouched, held, pollLock>>

ReadReplies(h) ==
  /\ At(h, "readReplies")
  /\ call' = [call EXCEPT ![h].pc = "readStale", ![h].rep = HeadSeq(replyQueue)]
  /\ UNCHANGED <<untouched, held, pollLock>>

ReadStale(h) ==
  /\ At(h, "readStale")
  /\ call' = [call EXCEPT ![h].pc = "take", ![h].stale = HeadSeq(staleQueue)]
  /\ UNCHANGED <<untouched, held, pollLock>>

Earliest(h) ==
  LET tickets == {call[h].ev, call[h].rep, call[h].stale} \ {0}
  IN  IF tickets = {} THEN 0 ELSE Min(tickets)

Hand(h, kind, m, r, c, ran) ==
  /\ last' = [to |-> call[h].gen, num |-> m.num, kind |-> kind, of |-> r, claim |-> c,
              ran |-> ran, read |-> FALSE]
  /\ Unlocks(h)

TakeReply(h) ==
  /\ replyQueue # <<>>
  /\ LET m == Head(replyQueue)
     IN  /\ Hand(h, "reply", m, m.of, req[m.of].claim, m.ran)
         /\ Becomes(m.of, "held")
         /\ heldReply' = m.of
  /\ replyQueue' = Tail(replyQueue)
  /\ UNCHANGED <<outstanding, staleQueue, events, heldEvent>>

TakeStaleWarn(h) ==
  /\ staleQueue # <<>>
  /\ LET m == Head(staleQueue) IN Hand(h, "stale", m, m.of, req[m.of].claim, TRUE)
  /\ staleQueue' = Tail(staleQueue)
  /\ UNCHANGED <<req, outstanding, replyQueue, events, heldReply, heldEvent>>

TakeEvent(h) ==
  /\ events # <<>>
  /\ LET m == Head(events)
     IN  Hand(h, "event", m, NoRequest, m.claim, TRUE) /\ heldEvent' = m.num
  /\ events' = Tail(events)
  /\ UNCHANGED <<req, outstanding, replyQueue, staleQueue, heldReply>>

TakesReply(h) == Earliest(h) # 0 /\ Earliest(h) = call[h].rep
TakesStale(h) == Earliest(h) # 0 /\ ~TakesReply(h) /\ Earliest(h) = call[h].stale
TakesEvent(h) == ~TakesReply(h) /\ ~TakesStale(h)

TakeMessage(h) ==
  /\ At(h, "take")
  /\ \/ TakesReply(h) /\ TakeReply(h)
     \/ TakesStale(h) /\ TakeStaleWarn(h)
     \/ TakesEvent(h) /\ TakeEvent(h)
  /\ UNCHANGED <<slot, seqNum, wakeArmed, wake, ffi>>

\* The queue it was to take from is empty: nothing was there, or the reply of a
\* request took its warning away.
NothingTaken(h) ==
  /\ At(h, "take")
  /\ \/ TakesStale(h) /\ staleQueue = <<>>
     \/ TakesEvent(h) /\ events = <<>>
  /\ call' = [call EXCEPT ![h] = [NoCall EXCEPT !.pc = "closing", !.gen = call[h].gen]]
  /\ UNCHANGED <<untouched, held, pollLock>>

ReportClosed(h) ==
  /\ At(h, "closing")
  /\ IF closed = call[h].gen
     THEN Unlocks(h)
     ELSE Moves(h, "disarm") /\ UNCHANGED pollLock
  /\ UNCHANGED <<untouched, held>>

Disarm(h) ==
  /\ At(h, "disarm")
  /\ wakeArmed' = FALSE
  /\ Moves(h, "clear")
  /\ UNCHANGED <<slot, req, outstanding, queues, wake, ffi, held, pollLock>>

ClearWake(h) ==
  /\ At(h, "clear")
  /\ wake' = FALSE
  /\ Moves(h, "againEvents")
  /\ UNCHANGED <<slot, req, outstanding, queues, wakeArmed, ffi, held, pollLock>>

\* hasMessage and the closed claims, one read after another.
LookAgain(h) ==
  /\ \/ At(h, "againEvents") /\ Moves(h, IF events # <<>> THEN "look" ELSE "againReplies")
     \/ At(h, "againReplies")
        /\ Moves(h, IF replyQueue # <<>> THEN "look" ELSE "againStale")
     \/ At(h, "againStale") /\ Moves(h, IF staleQueue # <<>> THEN "look" ELSE "againClosed")
     \/ At(h, "againClosed")
        /\ Moves(h, IF closed = call[h].gen THEN "look" ELSE "againOwner")
     \/ At(h, "againOwner")
        /\ Moves(h, IF generation # call[h].gen THEN "look" ELSE "wait")
  /\ UNCHANGED <<untouched, held, pollLock>>

\* At once with a timeout of 0, never with a negative one.
DeadlinePasses(h) ==
  /\ At(h, "wait")
  /\ Unlocks(h)
  /\ UNCHANGED <<untouched, held>>

\* The wake fired, or the slice of the wait passed.
WaitEnds(h) ==
  /\ At(h, "wait")
  /\ Moves(h, "look")
  /\ UNCHANGED <<untouched, held, pollLock>>

PollStep(h) ==
  \/ TurnedAway(h) \/ Ending(h) \/ Acquire(h) \/ IsOwner(h) \/ ReleaseHeld(h)
  \/ Look(h) \/ LivenessReport(h) \/ ReadEvents(h) \/ ReadReplies(h) \/ ReadStale(h)
  \/ TakeMessage(h) \/ NothingTaken(h) \/ ReportClosed(h) \/ Disarm(h) \/ ClearWake(h)
  \/ LookAgain(h) \/ DeadlinePasses(h) \/ WaitEnds(h)

-----------------------------------------------------------------------------
Next ==
  \/ Claim \/ RequestRecycle
  \/ \E r \in Requests : TryClaimRequest(r) \/ PushRequest(r) \/ GiveBack(r)
  \/ FfiThread \/ Destroy
  \/ \E h \in Hosts :
       \/ \E g \in Tokens : TryAcquire(h, g)
       \/ PollStep(h)

Spec == Init /\ [][Next]_vars

-----------------------------------------------------------------------------
(* Properties.                                                             *)

ReqStates == {"new", "over", "counted", "queued", "merged", "running", "replied", "held",
              "freed", "lost"}
PollPcs ==
  {"idle", "turnedAway", "ending", "acquire", "owner", "release", "look", "readEvents",
   "readReplies", "readStale", "take", "closing", "disarm", "clear", "againEvents",
   "againReplies", "againStale", "againClosed", "againOwner", "wait"}
FfiPcs ==
  {"loop", "exchange", "fire", "recycle", "close", "closeFailed", "drop", "merge",
   "reject", "lastDrain", "exiting", "exited", "dropAll", "deinit", "freed", "down"}

\* The queues hold numbered messages of known requests, and the poll lock is held by
\* exactly the host that is inside the poll.
TypeOK ==
  /\ generation \in 0 .. 2 * MaxClaims /\ closed \in 0 .. 2 * MaxClaims
  /\ lifecycle \in {"Active", "RecyclePending", "Recycling", "RecycleFailed"}
  /\ req \in [Requests -> [state : ReqStates, claim : 0 .. 2 * MaxClaims]]
  /\ outstanding \in Nat
  /\ seqNum \in Nat
  /\ events \in Seq([num : 1 .. seqNum, claim : 1 .. 2 * MaxClaims])
  /\ replyQueue \in Seq([num : 1 .. seqNum, of : Requests, ran : BOOLEAN])
  /\ staleQueue \in Seq([num : 1 .. seqNum, of : Requests])
  /\ wakeArmed \in BOOLEAN /\ wake \in BOOLEAN
  /\ ffi \in [pc : FfiPcs, back : FfiPcs]
  /\ \A h \in Hosts :
       /\ call[h].pc \in PollPcs
       /\ call[h].gen \in 0 .. generation
       /\ pollLock = h <=> call[h].pc \notin {"idle", "turnedAway", "ending", "acquire"}
  /\ heldReply \in Requests \union {NoRequest}
  /\ heldEvent \in 0 .. seqNum

\* staleQueue links the requests themselves, which handlers answer and pollers free:
\* no warning is ever queued for a request that is not running any more.
NoDanglingStale ==
  \A i \in DOMAIN staleQueue : req[staleQueue[i].of].state = "running"

\* Every request that deleteRequest frees, and every submit that is refused, is counted
\* out once, over drops, rejects, recycles, destroys and collections.  What a full destroy
\* frees in the queue ("lost") stays in the count of the slot's next owners, and nothing
\* else does: the count is off by exactly these.
OutstandingIsExact ==
  outstanding = Cardinality({r \in Requests : req[r].state \notin {"new", "freed"}})

\* A reply is in the queue once or in the host's hands, never in both, and none is
\* left behind in neither.
ReplyIsSomewhere ==
  \A r \in Requests :
    /\ Cardinality({i \in DOMAIN replyQueue : replyQueue[i].of = r})
         = IF req[r].state = "replied" THEN 1 ELSE 0
    /\ req[r].state = "held" <=> heldReply = r

\* "Valid until the next poll on the same context": while its claim owns the slot, the
\* message a host holds is freed by nobody but a poll under that claim, or by a full
\* destroy once that freed the queues.
HeldStays ==
  last.to = generation /\ ~last.read /\ ffi.pc # "freed" =>
    /\ last.kind = "reply" => req[last.of].state = "held"
    /\ last.kind = "event" => heldEvent = last.num

\* "What it never collected is dropped: the next owner of the slot must not be handed
\* it": no message is handed to a later claim than its own, but the reject of a request
\* that was still queued when its claim ended.
NothingOutlivesClaim == last.kind # "none" /\ last.ran => last.claim >= last.to

\* No poller sleeps through the end of its claim: once the claim was closed, released
\* or quarantined, and the FFI thread is done firing, a poller that waits is woken.
Ended(g) == g # generation \/ g = closed \/ lifecycle = "RecycleFailed"
EndWakesPoller ==
  \A h \in Hosts :
    At(h, "wait") /\ Ended(call[h].gen) /\ ffi.pc \notin {"closeFailed", "fire"} => wake

\* "Ready while a message waits": a poll that is about to sleep or to time out leaves
\* the wake fired if a message is queued and the FFI thread is done notifying.
HandleReady ==
  \A h \in Hosts :
    /\ At(h, "wait")
    /\ events # <<>> \/ replyQueue # <<>> \/ staleQueue # <<>>
    /\ ffi.pc \notin {"exchange", "fire"}
    => wake
=============================================================================
