--------------------------- MODULE ContextRecycle ---------------------------
(***************************************************************************)
(* One slot of the context pool over its successive owners: how a host     *)
(* claims it, submits requests to its FFI thread and destroys it, and how  *)
(* the FFI thread serves the requests, recycles the slot for the next      *)
(* owner, quarantines it when the recycle does not complete, and stops;    *)
(* and how the slot's threads are joined, by a shutdown of the pool or, on *)
(* a free slot, by the idle reap that a last destroy runs.                 *)
(*                                                                         *)
(* A claim is named by its odd generation, which is what a host token      *)
(* carries.  Every host call may come from a thread of its own: a request  *)
(* is its own submitting thread, a destroyer is a thread inside            *)
(* requestRecycle, and one creator, one stopper and one parker act on the  *)
(* slot.                                                                   *)
(*                                                                         *)
(* Abstracted: the request queue is a set, since the order and the bound   *)
(* of its shards are the subject of RequestQueue; the wake signals, since  *)
(* every wait on the FFI thread ends after 100 ms by itself; timeouts are  *)
(* steps that may come at any time the wait is still open.                 *)
(***************************************************************************)
EXTENDS Integers, FiniteSets

CONSTANTS
  Requests,     \* every request a host may submit
  Ctors,        \* those that construct the library, one per claim
  Destroyers,   \* host threads that call the destructor
  MaxClaims,    \* bound: how many claims of the slot are explored
  Stoppable     \* TRUE when shutdownFFIContextPool may be called

ASSUME CtorsAssumption == Ctors \subseteq Requests
ASSUME MaxClaimsAssumption == MaxClaims \in Nat
ASSUME StoppableAssumption == Stoppable \in BOOLEAN

VARIABLES
  generation,       \* even = free, odd = claimed
  lifecycle,        \* CtxLifecycle
  recycleFailure,   \* RecycleFailure
  recycleAbandoned,
  recycleDone,      \* recycleDoneSignal is set
  threadsUp,        \* the pool's record that the thread pair runs
  running,          \* cleared to stop the FFI thread
  myLib,            \* the claim whose ctor stored the library, 0 for none
  token,            \* the claim ctx.token names
  issued,           \* the claims whose token a host holds
  creator,          \* where the thread in createFFIContext is
  req,              \* per request: where its submit is, its claim, its fate
  queue,            \* requests in the bank
  batch,            \* requests merged out of it, not yet looked at
  ongoing,          \* requests whose handler runs
  ffi,              \* where the FFI thread is
  ownerGen,         \* the generation its loop read
  failure,          \* the failure recycleContext will finish with
  torn,             \* history: claims whose teardown ran to its end
  destroyer,        \* per destroyer: where it is, its token, `claimed`
  destroyed,        \* history: claims whose destroy returned ok
  stopper,          \* where the thread in shutdownFFIContextPool is
  parker            \* where the thread in parkIdleSlots is

slot == <<generation, lifecycle, recycleFailure, recycleAbandoned, recycleDone>>
threads == <<threadsUp, running, stopper, parker>>
requests == <<req, queue, batch, ongoing>>
worker == <<ffi, ownerGen, failure, torn, myLib>>
hosts == <<token, issued, creator, destroyer, destroyed>>
vars == <<slot, threads, requests, worker, hosts>>

Lifecycles == {"Active", "RecyclePending", "Recycling", "RecycleFailed"}
Failures == {"None", "DrainTimeout", "TeardownTimeout", "TeardownRaised",
             "CallerAbandoned"}

IsClaimed(g) == g % 2 = 1
Claims == {g \in 1 .. 2 * MaxClaims : IsClaimed(g)}

\* A thread that is in no call.
NoCall == [pc |-> "idle", token |-> 0, claimed |-> 0]

Init ==
  /\ generation = 0
  /\ lifecycle = "Active"
  /\ recycleFailure = "None"
  /\ recycleAbandoned = FALSE
  /\ recycleDone = FALSE
  /\ threadsUp = FALSE
  /\ running = FALSE
  /\ myLib = 0
  /\ token = 0
  /\ issued = {}
  /\ creator = "idle"
  /\ req = [r \in Requests |-> [pc |-> "idle", gen |-> 0, fate |-> "none"]]
  /\ queue = {}
  /\ batch = {}
  /\ ongoing = {}
  /\ ffi = "down"
  /\ ownerGen = 0
  /\ failure = "None"
  /\ torn = {}
  /\ destroyer = [d \in Destroyers |-> NoCall]
  /\ destroyed = {}
  /\ stopper = "idle"
  /\ parker = "idle"

-----------------------------------------------------------------------------
(* createFFIContext, on one slot.                                          *)

\* tryClaim, one CAS from even to odd, and the token of the new claim.
Claim ==
  /\ creator = "idle"
  /\ ~IsClaimed(generation)
  /\ generation < 2 * MaxClaims
  /\ generation' = generation + 1
  /\ token' = generation + 1
  /\ creator' = "claimed"
  /\ UNCHANGED <<lifecycle, recycleFailure, recycleAbandoned, recycleDone,
                 threads, requests, worker, issued, destroyer, destroyed>>

\* markAsActive; initContextResources stores the same value on a first use.
MarkAsActive ==
  /\ creator = "claimed"
  /\ lifecycle' = "Active"
  /\ creator' = "marked"
  /\ UNCHANGED <<generation, recycleFailure, recycleAbandoned, recycleDone,
                 threads, requests, worker, token, issued, destroyer, destroyed>>

\* The slot's threads are up: its token goes to the host as it is.
Reuse ==
  /\ creator = "marked"
  /\ threadsUp
  /\ creator' = "idle"
  /\ issued' = issued \union {token}
  /\ UNCHANGED <<slot, threads, requests, worker, token, destroyer, destroyed>>

\* startContextThreads, on a first use and after a park that cleared the record.
StartContextThreads ==
  /\ creator = "marked"
  /\ ~threadsUp
  /\ running' = TRUE
  /\ ffi' = "loop"
  /\ creator' = "starting"
  /\ UNCHANGED <<slot, threadsUp, stopper, parker, requests, ownerGen, failure, torn,
                 myLib, token, issued, destroyer, destroyed>>

\* The pool records the threads and hands out the token.
ThreadsStarted ==
  /\ creator = "starting"
  /\ threadsUp' = TRUE
  /\ creator' = "idle"
  /\ issued' = issued \union {token}
  /\ UNCHANGED <<slot, running, stopper, parker, requests, worker, token,
                 destroyer, destroyed>>

\* A create that took the slot goes on with it.
CreateStep == MarkAsActive \/ Reuse \/ StartContextThreads \/ ThreadsStarted

Create == Claim \/ CreateStep

-----------------------------------------------------------------------------
(* submit, one step per read of shared state.                              *)

\* resolveCtx: the token still names the live claim.
Resolve(r, g) ==
  /\ req[r].pc = "idle"
  /\ g \in issued
  /\ generation = g
  /\ r \in Ctors => \A c \in Ctors : req[c].gen # g
  /\ req' = [req EXCEPT ![r].pc = "resolved", ![r].gen = g]
  /\ UNCHANGED <<slot, threads, queue, batch, ongoing, worker, hosts>>

SubmitRefused(r, from) ==
  /\ req[r].pc = from
  /\ req' = [req EXCEPT ![r].pc = "refused"]
  /\ UNCHANGED <<slot, threads, queue, batch, ongoing, worker, hosts>>

SubmitPasses(r, from, to) ==
  /\ req[r].pc = from
  /\ req' = [req EXCEPT ![r].pc = to]
  /\ UNCHANGED <<slot, threads, queue, batch, ongoing, worker, hosts>>

CheckLifecycle(r) ==
  \/ lifecycle = "Active" /\ SubmitPasses(r, "resolved", "active")
  \/ lifecycle # "Active" /\ SubmitRefused(r, "resolved")

CheckGeneration(r) ==
  \/ req[r].gen = generation /\ SubmitPasses(r, "active", "current")
  \/ req[r].gen # generation /\ SubmitRefused(r, "active")

\* The push; submit answers ok from here on.
Push(r) ==
  /\ req[r].pc = "current"
  /\ req' = [req EXCEPT ![r].pc = "accepted"]
  /\ queue' = queue \union {r}
  /\ UNCHANGED <<slot, threads, batch, ongoing, worker, hosts>>

\* A stuck event queue, an oversized payload or a full queue, whose limits are
\* not in this module.
RefuseForLimits(r) == SubmitRefused(r, "current")

Submit(r) ==
  \/ \E g \in issued : Resolve(r, g)
  \/ CheckLifecycle(r)
  \/ CheckGeneration(r)
  \/ RefuseForLimits(r)
  \/ Push(r)

-----------------------------------------------------------------------------
(* requestRecycle, called by the destructor a host runs on its token.      *)

Goto(d, from, to) ==
  /\ destroyer[d].pc = from
  /\ destroyer' = [destroyer EXCEPT ![d].pc = to]

\* The call returns to its host.
Return(d, from) ==
  /\ destroyer[d].pc = from
  /\ destroyer' = [destroyer EXCEPT ![d] = NoCall]

\* What a step of the call leaves alone when it only reads the slot.
ReadsOnly ==
  UNCHANGED <<slot, threads, requests, worker, token, issued, creator, destroyed>>

ResolveForDestroy(d, g) ==
  /\ destroyer[d].pc = "idle"
  /\ g \in issued
  /\ generation = g
  /\ destroyer' = [destroyer EXCEPT ![d].pc = "resolved", ![d].token = g]
  /\ ReadsOnly

ReadClaimed(d) ==
  /\ destroyer[d].pc = "resolved"
  /\ destroyer' = [destroyer EXCEPT ![d].pc = "request", ![d].claimed = generation]
  /\ ReadsOnly

\* The CAS that makes this the only recycle in flight.
RequestRecycle(d) ==
  /\ lifecycle = "Active"
  /\ Goto(d, "request", "unabandon")
  /\ lifecycle' = "RecyclePending"
  /\ UNCHANGED <<generation, recycleFailure, recycleAbandoned, recycleDone,
                 threads, requests, worker, token, issued, creator, destroyed>>

AlreadyRecycling(d) ==
  /\ lifecycle # "Active"
  /\ Return(d, "request")
  /\ ReadsOnly

ClearAbandoned(d) ==
  /\ Goto(d, "unabandon", "clear")
  /\ recycleAbandoned' = FALSE
  /\ UNCHANGED <<generation, lifecycle, recycleFailure, recycleDone,
                 threads, requests, worker, token, issued, creator, destroyed>>

\* Drops a stale fire, then wakes the FFI thread.
ClearDone(d) ==
  /\ Goto(d, "clear", "wait")
  /\ recycleDone' = FALSE
  /\ UNCHANGED <<generation, lifecycle, recycleFailure, recycleAbandoned,
                 threads, requests, worker, token, issued, creator, destroyed>>

\* One poll of the wait finds the signal, which it takes, ...
SeesFired(d) ==
  /\ recycleDone
  /\ Goto(d, "wait", "done")
  /\ recycleDone' = FALSE
  /\ UNCHANGED <<generation, lifecycle, recycleFailure, recycleAbandoned,
                 threads, requests, worker, token, issued, creator, destroyed>>

\* MUTANT: the wait polls the signal only.
SeesNothingElse(d) == FALSE

\* ... or the claim gone or the slot quarantined, ...
SeesEnded(d) ==
  /\ generation # destroyer[d].claimed \/ lifecycle = "RecycleFailed"
  /\ Goto(d, "wait", "done")
  /\ ReadsOnly

\* ... or none of them, with the deadline past.
WaitExpires(d) ==
  /\ ~recycleDone
  /\ generation = destroyer[d].claimed
  /\ lifecycle # "RecycleFailed"
  /\ Goto(d, "wait", "expired")
  /\ ReadsOnly

Abandon(d) ==
  /\ Return(d, "expired")
  /\ recycleAbandoned' = TRUE
  /\ UNCHANGED <<generation, lifecycle, recycleFailure, recycleDone,
                 threads, requests, worker, token, issued, creator, destroyed>>

ReportQuarantine(d) ==
  /\ lifecycle = "RecycleFailed"
  /\ Return(d, "done")
  /\ ReadsOnly

NotQuarantined(d) ==
  /\ lifecycle # "RecycleFailed"
  /\ Goto(d, "done", "await")
  /\ ReadsOnly

\* MUTANT: ok is answered without waiting for the release.
ClaimNotAwaited(d) ==
  /\ Return(d, "await")
  /\ destroyed' = destroyed \union {destroyer[d].token}
  /\ UNCHANGED <<slot, threads, requests, worker, token, issued, creator>>

\* awaitClaimReleased, on the claim and not on the slot being free.
ClaimReleased(d) ==
  /\ generation # destroyer[d].claimed
  /\ Return(d, "await")
  /\ destroyed' = destroyed \union {destroyer[d].token}
  /\ UNCHANGED <<slot, threads, requests, worker, token, issued, creator>>

ReleaseTooLate(d) ==
  /\ generation = destroyer[d].claimed
  /\ Return(d, "await")
  /\ ReadsOnly

\* What the call does without the clock: the deadline of its wait is apart.
DestroyStep(d) ==
  \/ ReadClaimed(d) \/ RequestRecycle(d) \/ AlreadyRecycling(d)
  \/ ClearAbandoned(d) \/ ClearDone(d)
  \/ SeesFired(d) \/ SeesEnded(d) \/ Abandon(d)
  \/ ReportQuarantine(d) \/ NotQuarantined(d)
  \/ ClaimReleased(d) \/ ReleaseTooLate(d)

Destroy(d) ==
  \/ \E g \in issued : ResolveForDestroy(d, g)
  \/ DestroyStep(d)
  \/ WaitExpires(d)

-----------------------------------------------------------------------------
(* The FFI thread.  It alone ends requests, so a batch is its own.         *)

FfiGoto(from, to) == ffi = from /\ ffi' = to

\* It moves on and changes nothing else.
FfiOnly(from, to) ==
  /\ FfiGoto(from, to)
  /\ UNCHANGED <<slot, threads, requests, ownerGen, failure, torn, myLib, hosts>>

\* The requests S end with fate f.
Ends(S, f) ==
  req' = [r \in Requests |-> IF r \in S THEN [req[r] EXCEPT !.fate = f] ELSE req[r]]

\* The loop's first test: a destructor asked for the slot.
StartRecycle ==
  /\ running
  /\ lifecycle = "RecyclePending"
  /\ FfiGoto("loop", "drain")
  /\ lifecycle' = "Recycling"
  /\ failure' = "None"
  /\ UNCHANGED <<generation, recycleFailure, recycleAbandoned, recycleDone,
                 threads, requests, ownerGen, torn, myLib, hosts>>

\* Generation first, lifecycle second.
ReadOwner ==
  /\ running
  /\ lifecycle # "RecyclePending"
  /\ FfiGoto("loop", "owner")
  /\ ownerGen' = generation
  /\ UNCHANGED <<slot, threads, requests, failure, torn, myLib, hosts>>

ReadLifecycle ==
  /\ ffi = "owner"
  /\ IF lifecycle = "Active" THEN ffi' = "process" /\ ownerGen' = 0
                            ELSE ffi' = "reject" /\ UNCHANGED ownerGen
  /\ UNCHANGED <<slot, threads, requests, failure, torn, myLib, hosts>>

\* MUTANT: a newer owner's requests are not put back.
RejectLosesNewer(g) ==
  LET own == {r \in queue : req[r].gen = g}
      older == {r \in queue : req[r].gen < g}
  IN  /\ req' = [r \in Requests |->
                   IF r \in own THEN [req[r] EXCEPT !.fate = "rejected"]
                   ELSE IF r \in older THEN [req[r] EXCEPT !.fate = "dropped"]
                   ELSE req[r]]
      /\ queue' = {}

\* MUTANT: an older owner's requests are answered instead of dropped.
RejectAnswersOlder(g) ==
  LET notNewer == {r \in queue : req[r].gen <= g}
  IN  Ends(notNewer, "rejected") /\ queue' = queue \ notNewer

\* rejectQueuedRequests, for owner g: an older owner's requests are dropped, its
\* own are answered, a newer one's go back, but for those that find the bank full.
RejectQueuedRequests(g) ==
  LET own == {r \in queue : req[r].gen = g}
      older == {r \in queue : req[r].gen < g}
      newer == {r \in queue : req[r].gen > g}
  IN  \E full \in SUBSET newer :
        /\ req' = [r \in Requests |->
                     IF r \in own \union full THEN [req[r] EXCEPT !.fate = "rejected"]
                     ELSE IF r \in older THEN [req[r] EXCEPT !.fate = "dropped"]
                     ELSE req[r]]
        /\ queue' = newer \ full

\* MUTANT: a slot that is not Active leaves its queue alone.
RejectNothing ==
  /\ FfiGoto("reject", "loop")
  /\ ownerGen' = 0
  /\ UNCHANGED <<slot, threads, requests, failure, torn, myLib, hosts>>

RejectRound ==
  /\ FfiGoto("reject", "loop")
  /\ RejectQueuedRequests(ownerGen)
  /\ ownerGen' = 0
  /\ UNCHANGED <<slot, threads, batch, ongoing, failure, torn, myLib, hosts>>

\* processQueue: merge the shards, then take the requests one by one.
MergeQueues ==
  /\ ffi \in {"process", "lastProcess"}
  /\ batch = {}
  /\ queue # {}
  /\ batch' = queue
  /\ queue' = {}
  /\ UNCHANGED <<slot, threads, req, ongoing, worker, hosts>>

DropStale(r) ==
  /\ ffi \in {"process", "lastProcess"}
  /\ r \in batch
  /\ req[r].gen # generation
  /\ batch' = batch \ {r}
  /\ Ends({r}, "dropped")
  /\ UNCHANGED <<slot, threads, queue, ongoing, worker, hosts>>

\* MUTANT: no look at the generation the request carries.
DispatchAny(r) ==
  /\ ffi \in {"process", "lastProcess"}
  /\ r \in batch
  /\ batch' = batch \ {r}
  /\ IF r \in Ctors \/ myLib # 0
     THEN ongoing' = ongoing \union {r} /\ UNCHANGED req
     ELSE Ends({r}, "answered") /\ UNCHANGED ongoing
  /\ UNCHANGED <<slot, threads, queue, worker, hosts>>

\* A handler starts; one that needs the library and finds none answers at once.
Dispatch(r) ==
  /\ ffi \in {"process", "lastProcess"}
  /\ r \in batch
  /\ req[r].gen = generation
  /\ batch' = batch \ {r}
  /\ IF r \in Ctors \/ myLib # 0
     THEN ongoing' = ongoing \union {r} /\ UNCHANGED req
     ELSE Ends({r}, "answered") /\ UNCHANGED ongoing
  /\ UNCHANGED <<slot, threads, queue, worker, hosts>>

QueueEmpty ==
  /\ batch = {} /\ queue = {}
  /\ FfiOnly("process", "loop") \/ FfiOnly("lastProcess", "exitDrain")

\* Handlers advance only while the thread awaits; the loop awaits at its end.
\* A ctor that succeeds stores the library; one that fails does not.
Awaiting == {"loop", "drain", "cancel", "teardown", "exitDrain", "exitTeardown"}

HandlerEnds(r) ==
  /\ ffi \in Awaiting
  /\ r \in ongoing
  /\ ongoing' = ongoing \ {r}
  /\ Ends({r}, "answered")
  /\ \/ UNCHANGED myLib
     \/ r \in Ctors /\ myLib' = req[r].gen
  /\ UNCHANGED <<slot, threads, queue, batch, ffi, ownerGen, failure, torn, hosts>>

\* drainOngoing: wait, then cancel and wait again.
Drained ==
  /\ ongoing = {}
  /\ FfiOnly("drain", "teardown") \/ FfiOnly("cancel", "teardown")

CancelOngoing ==
  /\ ongoing # {}
  /\ FfiOnly("drain", "cancel")

\* MUTANT: the second round waits without a bound.
DrainForEver == FALSE

DrainTimeout ==
  /\ ongoing # {}
  /\ FfiGoto("cancel", "finish")
  /\ failure' = "DrainTimeout"
  /\ UNCHANGED <<slot, threads, requests, ownerGen, torn, myLib, hosts>>

\* runTeardown: skipped without a library, else the `{.ffiDtor.}` body.
TeardownEnds ==
  /\ FfiGoto("teardown", "reset")
  /\ torn' = torn \union {generation}
  /\ UNCHANGED <<slot, threads, requests, ownerGen, failure, myLib, hosts>>

TeardownFails ==
  /\ myLib # 0
  /\ FfiGoto("teardown", "finish")
  /\ failure' \in {"TeardownTimeout", "TeardownRaised"}
  /\ UNCHANGED <<slot, threads, requests, ownerGen, torn, myLib, hosts>>

\* freeLib, releaseAll, and the rejection of what is still queued.
ResetForNextOwner ==
  /\ FfiGoto("reset", "finish")
  /\ myLib' = 0
  /\ RejectQueuedRequests(generation)
  /\ UNCHANGED <<slot, threads, batch, ongoing, ownerGen, failure, torn, hosts>>

\* MUTANT: the reason of the quarantine is not stored.
FinishWithoutReason ==
  LET outcome == IF failure = "None" /\ recycleAbandoned THEN "CallerAbandoned"
                 ELSE failure
  IN  /\ FfiGoto("finish", IF outcome = "None" THEN "fire" ELSE "quarantine")
      /\ failure' = outcome
      /\ UNCHANGED <<slot, threads, requests, ownerGen, torn, myLib, hosts>>

\* finishRecycle: a caller that gave up turns a clean recycle into a failure.
FinishRecycle ==
  LET outcome == IF failure = "None" /\ recycleAbandoned THEN "CallerAbandoned"
                 ELSE failure
  IN  /\ FfiGoto("finish", IF outcome = "None" THEN "fire" ELSE "quarantine")
      /\ failure' = outcome
      /\ recycleFailure' = IF outcome = "None" THEN recycleFailure ELSE outcome
      /\ UNCHANGED <<generation, lifecycle, recycleAbandoned, recycleDone,
                     threads, requests, ownerGen, torn, myLib, hosts>>

Quarantine ==
  /\ FfiGoto("quarantine", "fire")
  /\ lifecycle' = "RecycleFailed"
  /\ UNCHANGED <<generation, recycleFailure, recycleAbandoned, recycleDone,
                 threads, requests, ownerGen, failure, torn, myLib, hosts>>

\* MUTANT: the slot is released whatever the outcome.
FireAlwaysReleases ==
  /\ FfiGoto("fire", "release")
  /\ recycleDone' = TRUE
  /\ UNCHANGED <<generation, lifecycle, recycleFailure, recycleAbandoned,
                 threads, requests, ownerGen, failure, torn, myLib, hosts>>

\* Fire before the release.
FireDone ==
  /\ FfiGoto("fire", IF failure = "None" THEN "release" ELSE "loop")
  /\ recycleDone' = TRUE
  /\ UNCHANGED <<generation, lifecycle, recycleFailure, recycleAbandoned,
                 threads, requests, ownerGen, failure, torn, myLib, hosts>>

ReleaseClaim ==
  /\ FfiGoto("release", "loop")
  /\ generation' = generation + 1
  /\ UNCHANGED <<lifecycle, recycleFailure, recycleAbandoned, recycleDone,
                 threads, requests, ownerGen, failure, torn, myLib, hosts>>

\* After the loop: one last processQueue, the pending handlers, the teardown.
LeaveLoop ==
  /\ ~running
  /\ FfiOnly("loop", "lastProcess")

ExitDrained ==
  /\ ongoing = {}
  /\ FfiOnly("exitDrain", "exitTeardown")

\* The teardown's outcome is ignored; the library itself is not freed.
ThreadExit == FfiOnly("exitTeardown", "exited")

RecycleStep ==
  \/ StartRecycle \/ Drained \/ CancelOngoing \/ DrainTimeout
  \/ TeardownEnds \/ TeardownFails \/ ResetForNextOwner
  \/ FinishRecycle \/ Quarantine \/ FireDone \/ ReleaseClaim

LoopStep ==
  \/ ReadOwner \/ ReadLifecycle \/ RejectRound \/ MergeQueues
  \/ \E r \in Requests : DropStale(r) \/ Dispatch(r)
  \/ QueueEmpty \/ LeaveLoop \/ ExitDrained \/ ThreadExit

FfiStep == RecycleStep \/ LoopStep

-----------------------------------------------------------------------------
(* stopAndJoinThreads: stop the pair, then wait a time for the FFI thread  *)
(* and, after it, a time for the event thread, whose exit may come at any  *)
(* time.  The exit of a thread is taken by one waiter.                     *)

JoinFfiThread ==
  /\ FfiGoto("exited", "down")
  /\ UNCHANGED <<slot, threadsUp, running, requests, ownerGen, failure, torn, myLib,
                 hosts>>

\* shutdownFFIContextPool, on this slot: a step of it that writes nothing else.
StopperGoes(from, to) ==
  /\ stopper = from
  /\ stopper' = to
  /\ UNCHANGED <<slot, threadsUp, running, parker, requests, worker, hosts>>

\* Retire the claim first, so later submits are refused ...
ReadInUse ==
  /\ Stoppable
  /\ threadsUp
  /\ StopperGoes("idle", IF IsClaimed(generation) THEN "retire" ELSE "stop")

Retire ==
  /\ stopper = "retire"
  /\ lifecycle' = "RecycleFailed"
  /\ stopper' = "stop"
  /\ UNCHANGED <<generation, recycleFailure, recycleAbandoned, recycleDone,
                 threadsUp, running, parker, requests, worker, hosts>>

\* ... then stop the threads and join them.
SignalStop ==
  /\ stopper = "stop"
  /\ running' = FALSE
  /\ stopper' = "join"
  /\ UNCHANGED <<slot, threadsUp, parker, requests, worker, hosts>>

\* A thread that is late ends the shutdown of the slot, with an error.
ExitTooLate ==
  \/ ffi # "exited" /\ StopperGoes("join", "gaveUp")
  \/ StopperGoes("joinEvent", "gaveUp")

JoinFfi ==
  /\ stopper = "join"
  /\ JoinFfiThread
  /\ stopper' = "joinEvent"
  /\ UNCHANGED parker

JoinEvent ==
  /\ stopper = "joinEvent"
  /\ threadsUp' = FALSE
  /\ stopper' = "recheck"
  /\ UNCHANGED <<slot, running, parker, requests, worker, hosts>>

\* A create that raced the park must not keep an Active context.
Recheck ==
  /\ stopper = "recheck"
  /\ lifecycle' = IF IsClaimed(generation) THEN "RecycleFailed" ELSE lifecycle
  /\ stopper' = "stopped"
  /\ UNCHANGED <<generation, recycleFailure, recycleAbandoned, recycleDone,
                 threadsUp, running, parker, requests, worker, hosts>>

Stop ==
  \/ ReadInUse \/ Retire \/ SignalStop \/ ExitTooLate
  \/ JoinFfi \/ JoinEvent \/ Recheck

\* parkIdleSlots, on this slot, after the last destroy of any: a slot with threads ...
ParkerGoes(from, to) ==
  /\ parker = from
  /\ parker' = to
  /\ UNCHANGED <<slot, threadsUp, running, stopper, requests, worker, hosts>>

ParkSeesThreads == threadsUp /\ ParkerGoes("idle", "claim")

\* ... that it claims, without a token, or leaves to the thread that took it, ...
ParkClaims ==
  /\ parker = "claim"
  /\ ~IsClaimed(generation)
  /\ generation < 2 * MaxClaims
  /\ generation' = generation + 1
  /\ parker' = "stop"
  /\ UNCHANGED <<lifecycle, recycleFailure, recycleAbandoned, recycleDone,
                 threadsUp, running, stopper, requests, worker, hosts>>

ParkFindsOwner == IsClaimed(generation) /\ ParkerGoes("claim", "idle")

ParkSignalsStop ==
  /\ parker = "stop"
  /\ running' = FALSE
  /\ parker' = "join"
  /\ UNCHANGED <<slot, threadsUp, stopper, requests, worker, hosts>>

ParkJoinsFfi ==
  /\ parker = "join"
  /\ JoinFfiThread
  /\ parker' = "joinEvent"
  /\ UNCHANGED stopper

ParkJoinsEvent ==
  /\ parker = "joinEvent"
  /\ threadsUp' = FALSE
  /\ parker' = "release"
  /\ UNCHANGED <<slot, running, stopper, requests, worker, hosts>>

\* ... and keeps for ever when a thread is late: the slot must not serve again.
ParkKeepsClaim ==
  \/ ffi # "exited" /\ ParkerGoes("join", "kept")
  \/ ParkerGoes("joinEvent", "kept")

ParkReleases ==
  /\ parker = "release"
  /\ generation' = generation + 1
  /\ parker' = "idle"
  /\ UNCHANGED <<lifecycle, recycleFailure, recycleAbandoned, recycleDone,
                 threadsUp, running, stopper, requests, worker, hosts>>

Park ==
  \/ ParkSeesThreads \/ ParkClaims \/ ParkFindsOwner \/ ParkSignalsStop
  \/ ParkJoinsFfi \/ ParkJoinsEvent \/ ParkKeepsClaim \/ ParkReleases

-----------------------------------------------------------------------------
Next ==
  \/ Create
  \/ \E r \in Requests : Submit(r)
  \/ \E d \in Destroyers : Destroy(d)
  \/ FfiStep
  \/ \E r \in Requests : HandlerEnds(r)
  \/ Stop
  \/ Park

Spec == Init /\ [][Next]_vars

\* Threads run.  No fairness on what may never happen: a host's call, the end of
\* a handler, the deadline of a destructor's wait, or a reap.
Fairness ==
  /\ WF_vars(FfiStep)
  /\ WF_vars(CreateStep)
  /\ \A d \in Destroyers : WF_vars(DestroyStep(d))

FairSpec == Spec /\ Fairness

-----------------------------------------------------------------------------
(* Properties.                                                             *)

SubmitPcs == {"idle", "resolved", "active", "current", "accepted", "refused"}
Fates == {"none", "answered", "rejected", "dropped"}
CreatorPcs == {"idle", "claimed", "marked", "starting"}
StopperPcs == {"idle", "retire", "stop", "join", "joinEvent", "gaveUp", "recheck",
               "stopped"}
ParkerPcs == {"idle", "claim", "stop", "join", "joinEvent", "release", "kept"}
DestroyerPcs == {"idle", "resolved", "request", "unabandon", "clear", "wait",
                 "expired", "done", "await"}
FfiPcs == {"down", "loop", "owner", "reject", "process",
           "drain", "cancel", "teardown", "reset", "finish", "quarantine",
           "fire", "release", "lastProcess", "exitDrain", "exitTeardown", "exited"}

\* The flags are apart: they are all booleans.
FlagsTypeOK ==
  /\ recycleAbandoned \in BOOLEAN
  /\ recycleDone \in BOOLEAN
  /\ threadsUp \in BOOLEAN
  /\ running \in BOOLEAN

StateTypeOK ==
  /\ generation \in 0 .. 2 * MaxClaims
  /\ lifecycle \in Lifecycles
  /\ recycleFailure \in Failures
  /\ myLib \in Nat
  /\ token \in Claims \union {0}
  /\ issued \subseteq Claims
  /\ creator \in CreatorPcs
  /\ req \in [Requests -> [pc : SubmitPcs, gen : Nat, fate : Fates]]
  /\ queue \subseteq Requests
  /\ batch \subseteq Requests
  /\ ongoing \subseteq Requests
  /\ ffi \in FfiPcs
  /\ ownerGen \in Nat
  /\ failure \in Failures
  /\ torn \subseteq Nat
  /\ destroyer \in [Destroyers -> [pc : DestroyerPcs, token : Nat, claimed : Nat]]
  /\ destroyed \subseteq Nat
  /\ stopper \in StopperPcs
  /\ parker \in ParkerPcs

\* Every variable stays within its type: the fields of FFIContext and the
\* positions of the threads that act on it.
TypeOK == FlagsTypeOK /\ StateTypeOK

\* A request that submit accepted is in exactly one place, the bank, the FFI
\* thread's batch or a running handler, until it ends, and in none afterwards:
\* it is never lost, never run twice and never read after its free.
RequestOwnedOnce ==
  /\ queue \cap batch = {} /\ queue \cap ongoing = {} /\ batch \cap ongoing = {}
  /\ \A r \in Requests :
       r \in queue \union batch \union ongoing
         <=> req[r].pc = "accepted" /\ req[r].fate = "none"

\* A handler only ever runs with its own claim's library, or before there is
\* one: a request that outlived its owner never reaches the next owner's.
LibraryOfOwnClaim ==
  \A r \in ongoing : req[r].gen = generation /\ myLib \in {0, generation}

\* A destroy that answered ok names a claim that is over and whose teardown ran
\* to its end, whatever other destroys, creates and stops ran beside it.
OkMeansTornDown ==
  \A g \in destroyed : g < generation /\ g \in torn

\* A claim ends only after its teardown ran to its end: every other outcome
\* keeps the slot claimed.
EndedMeansTornDown ==
  \A g \in issued : g < generation => g \in torn

\* Once a destroy answered ok the host may free its userData: no request of that
\* claim is answered any more.
NoAnswerAfterDestroy ==
  [][\A r \in Requests :
       req'[r].fate \in {"answered", "rejected"} /\ req[r].fate = "none"
         => req[r].gen \notin destroyed]_vars

\* A failed recycle takes the slot out of service for good: while no shutdown
\* interferes, it stays claimed, quarantined and with the reason it was given.
QuarantineIsFinal ==
  [][lifecycle = "RecycleFailed" /\ stopper' = "idle" =>
       /\ UNCHANGED <<generation, lifecycle, recycleFailure>>
       /\ recycleFailure # "None"]_vars

\* Once a shutdown of the pool is over, in whatever way it ended, no context that
\* accepts requests is left with a thread that has exited.
NoActiveContextWithoutThread ==
  (stopper \in {"stopped", "gaveUp"} /\ generation \in issued
     /\ ffi \in {"exited", "down"})
    => lifecycle = "RecycleFailed"

\* The whole handshake is one of an abstract slot: free, owned or, until a shutdown
\* comes, quarantined for good; with or without one it answers each request at most
\* once and only under its own claim.
AbstractSlot == INSTANCE SlotLifecycle WITH
  Rebuildable <- FALSE,
  quarantined <- lifecycle = "RecycleFailed",
  retired <- stopper # "idle",
  answers <- {[req |-> r, claim |-> req[r].gen] :
                r \in {q \in Requests : req[q].fate \in {"answered", "rejected"}}}

ImplementsSlotLifecycle == AbstractSlot!Spec

\* Once the FFI thread is asked, it releases the slot or quarantines it, though
\* handlers never end and the teardown fails.
RecycleEnds ==
  (generation \in issued /\ lifecycle \in {"RecyclePending", "Recycling"})
    ~> generation \notin issued \/ lifecycle = "RecycleFailed"

\* The destructor returns to its caller though the deadline of its wait never
\* comes: no step of the slot's other users makes it miss the end of its claim.
DestroyReturns ==
  \A d \in Destroyers : destroyer[d].pc # "idle" ~> destroyer[d].pc = "idle"

\* An accepted request does not wait for ever for a thread that runs: it is run,
\* rejected or dropped, unless it came too late for the last look at the queue of
\* a thread that a reap joined.
AcceptedIsServed ==
  \A r \in Requests :
    req[r].pc = "accepted" ~>
      \/ r \in ongoing
      \/ req[r].fate # "none"
      \/ r \in queue /\ ffi \in {"exitDrain", "exitTeardown", "exited", "down"}
=============================================================================
