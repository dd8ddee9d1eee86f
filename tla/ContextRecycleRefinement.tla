---------------------- MODULE ContextRecycleRefinement ----------------------
(***************************************************************************)
(* Proofs that a quarantine of the slot is final until a shutdown, and     *)
(* that the slot of ContextRecycle implements SlotLifecycle, with or       *)
(* without a shutdown.                                                     *)
(*                                                                         *)
(* To IInv they add where the threads may be once the slot is quarantined: *)
(* no creator is about to call it Active, no reap has claimed it, and no   *)
(* recycle is under way but the one that has yet to fire its failure.      *)
(***************************************************************************)
EXTENDS ContextRecycleProofs

\* Until a shutdown comes, a quarantined slot is out of everybody's reach.
QuarantineHolds ==
  stopper = "idle" =>
    /\ lifecycle = "RecycleFailed" =>
         /\ IsClaimed(generation)
         /\ creator # "claimed"
         /\ parker \in {"idle", "claim"}
         /\ ffi \in RecyclePcs => ffi = "fire" /\ failure # "None"
         /\ recycleFailure # "None"
    /\ ffi = "quarantine" => recycleFailure # "None"

-----------------------------------------------------------------------------
(* QuarantineHolds is kept, and what it is about stays.                    *)

\* Its step, for the actions that leave alone all that it speaks of.
LEMMA UntouchedQuarantine ==
  ASSUME QuarantineHolds,
         UNCHANGED <<generation, lifecycle, recycleFailure, failure, ffi>>,
         stopper' = "idle" => stopper = "idle",
         creator' = "claimed" => creator = "claimed",
         parker' \in {"idle", "claim"} \/ parker' = parker
  PROVE  QuarantineHolds'
  BY DEF QuarantineHolds, RecyclePcs

\* createFFIContext cannot claim a quarantined slot.
LEMMA CreateKeepsQuarantine ==
  ASSUME CoreInv, QuarantineHolds, Create
  PROVE  QuarantineHolds'
<1> USE DEF slot, threads, requests, worker
<1>1. CASE Claim
  BY <1>1 DEF Claim, QuarantineHolds
<1>2. CASE MarkAsActive
  BY <1>2 DEF MarkAsActive, QuarantineHolds, CoreInv, FreshClaim, RecyclePcs
<1>3. CASE Reuse
  BY <1>3, UntouchedQuarantine DEF Reuse
<1>4. CASE StartContextThreads
  BY <1>4 DEF StartContextThreads, QuarantineHolds, RecyclePcs
<1>5. CASE ThreadsStarted
  BY <1>5, UntouchedQuarantine DEF ThreadsStarted
<1> QED
  BY <1>1, <1>2, <1>3, <1>4, <1>5 DEF Create, CreateStep

\* requestRecycle starts from an Active slot only.
LEMMA DestroyKeepsQuarantine ==
  ASSUME QuarantineHolds, NEW d \in Destroyers, Destroy(d)
  PROVE  QuarantineHolds'
<1> USE DEF slot, threads, requests, worker, ReadsOnly
<1>1. CASE RequestRecycle(d)
  BY <1>1 DEF RequestRecycle, QuarantineHolds, RecyclePcs
<1>2. ASSUME Destroy(d), ~RequestRecycle(d)
      PROVE  /\ UNCHANGED <<generation, lifecycle, recycleFailure, failure, ffi>>
             /\ UNCHANGED <<stopper, creator, parker>>
  BY <1>2 DEF Destroy, DestroyStep, ResolveForDestroy, ReadClaimed, AlreadyRecycling,
              ClearAbandoned, ClearDone, SeesFired, SeesEnded, WaitExpires, Abandon,
              ReportQuarantine, NotQuarantined, ClaimReleased, ReleaseTooLate
<1> QED
  BY <1>1, <1>2, UntouchedQuarantine

\* submit and the end of a handler leave the lifecycle alone.
LEMMA RequestsKeepQuarantine ==
  ASSUME QuarantineHolds, NEW r \in Requests, Submit(r) \/ HandlerEnds(r)
  PROVE  QuarantineHolds'
<1>1. /\ UNCHANGED <<generation, lifecycle, recycleFailure, failure, ffi>>
      /\ UNCHANGED <<stopper, creator, parker>>
  BY DEF Submit, Resolve, CheckLifecycle, CheckGeneration, RefuseForLimits, Push,
         SubmitRefused, SubmitPasses, HandlerEnds, slot, threads, worker, hosts
<1> QED
  BY <1>1, UntouchedQuarantine

\* The loop does not start a recycle of a quarantined slot.
LEMMA LoopKeepsQuarantine ==
  ASSUME QuarantineHolds, LoopStep
  PROVE  QuarantineHolds'
<1>1. /\ UNCHANGED <<generation, lifecycle, recycleFailure, failure>>
      /\ UNCHANGED <<stopper, creator, parker>>
      /\ ffi' = ffi \/ ffi' \notin RecyclePcs
  BY DEF LoopStep, ReadOwner, ReadLifecycle, RejectRound, MergeQueues, DropStale,
         Dispatch, QueueEmpty, LeaveLoop, ExitDrained, ThreadExit, FfiOnly, FfiGoto,
         slot, threads, worker, hosts, RecyclePcs
<1> QED
  BY <1>1 DEF QuarantineHolds, RecyclePcs

\* A recycle stores its reason before it quarantines, and fires afterwards.
LEMMA RecycleKeepsQuarantine ==
  ASSUME CoreInv, QuarantineHolds, RecycleStep
  PROVE  QuarantineHolds'
<1> USE DEF slot, threads, worker, hosts, FfiOnly, FfiGoto, RecyclePcs, QuarantineHolds
<1>1. CASE StartRecycle
  BY <1>1 DEF StartRecycle
<1>2. CASE Drained \/ CancelOngoing \/ DrainTimeout
  BY <1>2 DEF Drained, CancelOngoing, DrainTimeout
<1>3. CASE TeardownEnds \/ TeardownFails \/ ResetForNextOwner
  BY <1>3 DEF TeardownEnds, TeardownFails, ResetForNextOwner
<1>4. CASE FinishRecycle
  BY <1>4 DEF FinishRecycle
<1>5. CASE Quarantine
  BY <1>5 DEF Quarantine, CoreInv, RecycleOwnsSlot, FreshClaim, CleanRelease, ParkOwns,
              ParkerPcs, StateTypeOK
<1>6. CASE FireDone
  BY <1>6 DEF FireDone
<1>7. CASE ReleaseClaim
  BY <1>7 DEF ReleaseClaim
<1> QED
  BY <1>1, <1>2, <1>3, <1>4, <1>5, <1>6, <1>7 DEF RecycleStep

\* A reap claims a free slot, so never a quarantined one.
LEMMA ParkKeepsQuarantine ==
  ASSUME CoreInv, QuarantineHolds, Park
  PROVE  QuarantineHolds'
<1> USE DEF slot, threads, worker, hosts, QuarantineHolds
<1>1. CASE ParkSeesThreads \/ ParkFindsOwner
  BY <1>1 DEF ParkSeesThreads, ParkFindsOwner, ParkerGoes
<1>2. CASE ParkClaims
  BY <1>2 DEF ParkClaims, CoreInv, RecycleOwnsSlot, RecyclePcs
<1>3. CASE ParkSignalsStop \/ ParkJoinsEvent \/ ParkReleases
  BY <1>3 DEF ParkSignalsStop, ParkJoinsEvent, ParkReleases
<1>4. CASE ParkJoinsFfi
  BY <1>4 DEF ParkJoinsFfi, JoinFfiThread, FfiGoto, RecyclePcs
<1>5. CASE ParkKeepsClaim
  BY <1>5 DEF ParkKeepsClaim, ParkerGoes
<1> QED
  BY <1>1, <1>2, <1>3, <1>4, <1>5 DEF Park

\* A shutdown that began is never idle again.
LEMMA StopBegan == Stop => stopper' # "idle"
  BY DEF Stop, ReadInUse, Retire, SignalStop, ExitTooLate, JoinFfi, JoinEvent, Recheck,
         StopperGoes, JoinFfiThread

\* Every step keeps it.
LEMMA QuarantineInductive ==
  ASSUME CoreInv, QuarantineHolds, [Next]_vars
  PROVE  QuarantineHolds'
<1>1. CASE UNCHANGED vars
  BY <1>1, UntouchedQuarantine DEF vars, slot, threads, worker, hosts
<1>2. CASE Stop
  BY <1>2, StopBegan DEF QuarantineHolds
<1> QED
  BY <1>1, <1>2, CreateKeepsQuarantine, DestroyKeepsQuarantine, RequestsKeepQuarantine,
     LoopKeepsQuarantine, RecycleKeepsQuarantine, ParkKeepsQuarantine
  DEF Next, FfiStep

\* So it holds throughout, beside IInv.
LEMMA QuarantineInvariant == Spec => [](IInv /\ QuarantineHolds)
<1>1. Init => QuarantineHolds
  BY DEF Init, QuarantineHolds
<1>2. IInv /\ QuarantineHolds /\ [Next]_vars => QuarantineHolds'
  BY QuarantineInductive DEF IInv
<1> QED
  BY <1>1, <1>2, Inductive, PTL DEF Spec

-----------------------------------------------------------------------------
(* A quarantine is final.                                                  *)

\* The stopper is the only one that moves it.
LEMMA OnlyStopMovesStopper == [Next]_vars => Stop \/ UNCHANGED stopper
<1> USE DEF threads
<1>1. Create => UNCHANGED stopper
  BY DEF Create, CreateStep, Claim, MarkAsActive, Reuse, StartContextThreads,
         ThreadsStarted
<1>2. ASSUME NEW r \in Requests, Submit(r) \/ HandlerEnds(r)
      PROVE  UNCHANGED stopper
  BY <1>2 DEF Submit, Resolve, CheckLifecycle, CheckGeneration, RefuseForLimits, Push,
              SubmitRefused, SubmitPasses, HandlerEnds
<1>3. ASSUME NEW d \in Destroyers, Destroy(d)
      PROVE  UNCHANGED stopper
  BY <1>3 DEF Destroy, DestroyStep, ResolveForDestroy, ReadClaimed, RequestRecycle,
              AlreadyRecycling, ClearAbandoned, ClearDone, SeesFired, SeesEnded,
              WaitExpires, Abandon, ReportQuarantine, NotQuarantined, ClaimReleased,
              ReleaseTooLate, ReadsOnly
<1>4. RecycleStep => UNCHANGED stopper
  BY DEF RecycleStep, StartRecycle, Drained, CancelOngoing, DrainTimeout, TeardownEnds,
         TeardownFails, ResetForNextOwner, FinishRecycle, Quarantine, FireDone,
         ReleaseClaim, FfiOnly
<1>5. LoopStep => UNCHANGED stopper
  BY DEF LoopStep, ReadOwner, ReadLifecycle, RejectRound, MergeQueues, DropStale,
         Dispatch, QueueEmpty, LeaveLoop, ExitDrained, ThreadExit, FfiOnly
<1>6. Park => UNCHANGED stopper
  BY DEF Park, ParkSeesThreads, ParkClaims, ParkFindsOwner, ParkSignalsStop,
         ParkJoinsFfi, ParkJoinsEvent, ParkKeepsClaim, ParkReleases, ParkerGoes
<1> QED
  BY <1>1, <1>2, <1>3, <1>4, <1>5, <1>6 DEF Next, FfiStep, vars

\* What a step may do while the slot is quarantined: neither the generation nor the
\* lifecycle nor the reason is written, but by a shutdown.
LEMMA QuarantineStays ==
  ASSUME CoreInv, QuarantineHolds, [Next]_vars,
         lifecycle = "RecycleFailed", stopper' = "idle"
  PROVE  UNCHANGED <<generation, lifecycle, recycleFailure>> /\ recycleFailure # "None"
<1>1. ~Stop
  BY StopBegan
<1>2. stopper = "idle"
  BY <1>1, OnlyStopMovesStopper
<1>3. /\ IsClaimed(generation) /\ creator # "claimed" /\ recycleFailure # "None"
      /\ parker \in {"idle", "claim"}
      /\ ffi \in RecyclePcs => ffi = "fire"
  BY <1>2 DEF QuarantineHolds
<1>4. CASE UNCHANGED vars
  BY <1>3, <1>4 DEF vars, slot
<1>5. CASE Create
  BY <1>3, <1>5 DEF Create, CreateStep, Claim, MarkAsActive, Reuse, StartContextThreads,
                    ThreadsStarted, slot
<1>6. ASSUME NEW r \in Requests, Submit(r) \/ HandlerEnds(r)
      PROVE  UNCHANGED slot
  BY <1>6 DEF Submit, Resolve, CheckLifecycle, CheckGeneration, RefuseForLimits, Push,
              SubmitRefused, SubmitPasses, HandlerEnds
<1>7. ASSUME NEW d \in Destroyers, Destroy(d)
      PROVE  UNCHANGED <<generation, lifecycle, recycleFailure>>
  BY <1>7 DEF Destroy, DestroyStep, ResolveForDestroy, ReadClaimed, RequestRecycle,
              AlreadyRecycling, ClearAbandoned, ClearDone, SeesFired, SeesEnded,
              WaitExpires, Abandon, ReportQuarantine, NotQuarantined, ClaimReleased,
              ReleaseTooLate, ReadsOnly, slot
<1>8. CASE RecycleStep
  BY <1>3, <1>8 DEF RecycleStep, StartRecycle, Drained, CancelOngoing, DrainTimeout,
                    TeardownEnds, TeardownFails, ResetForNextOwner, FinishRecycle,
                    Quarantine, FireDone, ReleaseClaim, FfiOnly, FfiGoto, RecyclePcs,
                    slot
<1>9. CASE LoopStep
  BY <1>3, <1>9 DEF LoopStep, ReadOwner, ReadLifecycle, RejectRound, MergeQueues,
                    DropStale, Dispatch, QueueEmpty, LeaveLoop, ExitDrained,
                    ThreadExit, FfiOnly, slot
<1>10. CASE Park
  BY <1>3, <1>10 DEF Park, ParkSeesThreads, ParkClaims, ParkFindsOwner, ParkSignalsStop,
                     ParkJoinsFfi, ParkJoinsEvent, ParkKeepsClaim, ParkReleases,
                     ParkerGoes, JoinFfiThread, slot
<1> QED
  BY <1>1, <1>3, <1>4, <1>5, <1>6, <1>7, <1>8, <1>9, <1>10 DEF Next, FfiStep, slot

\* Until a shutdown comes a slot whose recycle failed stays claimed, quarantined and
\* with its reason: ffi_context.nim's RecycleFailed is terminal.
THEOREM QuarantineFinal == Spec => QuarantineIsFinal
<1>1. (IInv /\ QuarantineHolds) /\ [Next]_vars =>
        [lifecycle = "RecycleFailed" /\ stopper' = "idle" =>
           /\ UNCHANGED <<generation, lifecycle, recycleFailure>>
           /\ recycleFailure # "None"]_vars
  BY QuarantineStays DEF IInv
<1> QED
  BY <1>1, QuarantineInvariant, PTL DEF Spec, QuarantineIsFinal

-----------------------------------------------------------------------------
(* The refinement.  An answer is a request and the claim it was given      *)
(* under; the claim of a request is fixed before the request can end.      *)

\* No step changes a request that ended, nor the claim of one that ends.
Settled ==
  \A r \in Requests :
    /\ req[r].fate # "none" => req'[r] = req[r]
    /\ req'[r].fate # req[r].fate => req'[r].gen = req[r].gen

\* rejectQueuedRequests ends what is in the bank, and only that.
LEMMA RejectSettles ==
  ASSUME StateTypeOK, RequestOwnedOnce, NEW g \in Nat, RejectQueuedRequests(g)
  PROVE  Settled
<1> SUFFICES ASSUME NEW r \in Requests
             PROVE  /\ req[r].fate # "none" => req'[r] = req[r]
                    /\ req'[r].gen = req[r].gen
  BY DEF Settled
<1>1. req[r] \in [pc : SubmitPcs, gen : Nat, fate : Fates]
  BY DEF StateTypeOK
<1>2. req[r].fate # "none" => r \notin queue
  BY DEF RequestOwnedOnce
<1> QED
  BY <1>1, <1>2 DEF RejectQueuedRequests

\* Every step leaves the requests that ended alone.
LEMMA NextSettles ==
  ASSUME CoreInv, [Next]_vars
  PROVE  Settled
<1> USE DEF CoreInv, StateTypeOK
<1>1. CASE UNCHANGED req
  BY <1>1 DEF Settled
<1>2. ASSUME NEW r \in Requests, Submit(r)
      PROVE  Settled
  <2>1. req[r].pc # "accepted"
    BY <1>2 DEF Submit, Resolve, CheckLifecycle, CheckGeneration, RefuseForLimits, Push,
                SubmitRefused, SubmitPasses
  <2>2. req[r].fate = "none"
    BY <2>1 DEF OnlyAcceptedEnd
  <2>3. /\ req'[r].fate = req[r].fate
        /\ \A q \in Requests \ {r} : req'[q] = req[q]
    BY <1>2 DEF Submit, Resolve, CheckLifecycle, CheckGeneration, RefuseForLimits, Push,
                SubmitRefused, SubmitPasses
  <2> QED
    BY <2>2, <2>3 DEF Settled
<1>3. ASSUME NEW r \in Requests, DropStale(r) \/ Dispatch(r) \/ HandlerEnds(r)
      PROVE  Settled
  <2>1. r \in batch \union ongoing
    BY <1>3 DEF DropStale, Dispatch, HandlerEnds
  <2>2. req[r].fate = "none"
    BY <2>1 DEF RequestOwnedOnce
  <2>3. UNCHANGED req \/ \E f \in Fates : Ends({r}, f)
    BY <1>3 DEF DropStale, Dispatch, HandlerEnds, Fates
  <2> QED
    BY <2>2, <2>3 DEF Settled, Ends
<1>4. CASE RejectRound \/ ResetForNextOwner
  BY <1>4, RejectSettles DEF RejectRound, ResetForNextOwner
<1>5. Create \/ Stop \/ Park => UNCHANGED req
  BY DEF Create, CreateStep, Claim, MarkAsActive, Reuse, StartContextThreads,
         ThreadsStarted, Stop, ReadInUse, Retire, SignalStop, ExitTooLate, JoinFfi,
         JoinEvent, Recheck, StopperGoes, JoinFfiThread, Park, ParkSeesThreads,
         ParkClaims, ParkFindsOwner, ParkSignalsStop, ParkJoinsFfi, ParkJoinsEvent,
         ParkKeepsClaim, ParkReleases, ParkerGoes, requests
<1>6. ASSUME NEW d \in Destroyers, Destroy(d)
      PROVE  UNCHANGED req
  BY <1>6 DEF Destroy, DestroyStep, ResolveForDestroy, ReadClaimed, RequestRecycle,
              AlreadyRecycling, ClearAbandoned, ClearDone, SeesFired, SeesEnded,
              WaitExpires, Abandon, ReportQuarantine, NotQuarantined, ClaimReleased,
              ReleaseTooLate, ReadsOnly, requests
<1>7. RecycleStep => ResetForNextOwner \/ UNCHANGED req
  BY DEF RecycleStep, StartRecycle, Drained, CancelOngoing, DrainTimeout, TeardownEnds,
         TeardownFails, FinishRecycle, Quarantine, FireDone, ReleaseClaim, FfiOnly,
         requests
<1>8. LoopStep =>
        \/ RejectRound
        \/ \E r \in Requests : DropStale(r) \/ Dispatch(r)
        \/ UNCHANGED req
  BY DEF LoopStep, ReadOwner, ReadLifecycle, MergeQueues, QueueEmpty, LeaveLoop,
         ExitDrained, ThreadExit, FfiOnly, requests
<1> QED
  BY <1>1, <1>2, <1>3, <1>4, <1>5, <1>6, <1>7, <1>8 DEF Next, FfiStep, vars, requests

\* The steps that the abstract slot sees, beside the answers.
SlotStep ==
  \/ Claim \/ MarkAsActive \/ ReleaseClaim \/ Quarantine \/ Stop
  \/ ParkClaims \/ ParkReleases

LEMMA SlotSteps ==
  ASSUME [Next]_vars
  PROVE  \/ SlotStep
         \/ /\ generation' = generation
            /\ lifecycle' = "RecycleFailed" <=> lifecycle = "RecycleFailed"
            /\ stopper' = stopper
<1> USE DEF slot, threads
<1>1. CASE UNCHANGED vars
  BY <1>1 DEF vars
<1>2. CASE Create
  BY <1>2 DEF Create, CreateStep, Reuse, StartContextThreads, ThreadsStarted, SlotStep
<1>3. ASSUME NEW r \in Requests, Submit(r) \/ HandlerEnds(r)
      PROVE  UNCHANGED <<slot, stopper>>
  BY <1>3 DEF Submit, Resolve, CheckLifecycle, CheckGeneration, RefuseForLimits, Push,
              SubmitRefused, SubmitPasses, HandlerEnds
<1>4. ASSUME NEW d \in Destroyers, Destroy(d)
      PROVE  /\ generation' = generation
             /\ lifecycle' = "RecycleFailed" <=> lifecycle = "RecycleFailed"
             /\ stopper' = stopper
  BY <1>4 DEF Destroy, DestroyStep, ResolveForDestroy, ReadClaimed, RequestRecycle,
              AlreadyRecycling, ClearAbandoned, ClearDone, SeesFired, SeesEnded,
              WaitExpires, Abandon, ReportQuarantine, NotQuarantined, ClaimReleased,
              ReleaseTooLate, ReadsOnly
<1>5. CASE RecycleStep
  BY <1>5 DEF RecycleStep, StartRecycle, Drained, CancelOngoing, DrainTimeout,
              TeardownEnds, TeardownFails, ResetForNextOwner, FinishRecycle,
              FireDone, FfiOnly, SlotStep
<1>6. CASE LoopStep
  BY <1>6 DEF LoopStep, ReadOwner, ReadLifecycle, RejectRound, MergeQueues, DropStale,
              Dispatch, QueueEmpty, LeaveLoop, ExitDrained, ThreadExit, FfiOnly
<1>7. CASE Park
  BY <1>7 DEF Park, ParkSeesThreads, ParkFindsOwner, ParkSignalsStop, ParkJoinsFfi,
              ParkJoinsEvent, ParkKeepsClaim, ParkerGoes, JoinFfiThread, SlotStep
<1> QED
  BY <1>1, <1>2, <1>3, <1>4, <1>5, <1>6, <1>7 DEF Next, FfiStep, SlotStep

Answers ==
  {[req |-> r, claim |-> req[r].gen] :
     r \in {q \in Requests : req[q].fate \in {"answered", "rejected"}}}

\* The requests that a step answers.
Newly ==
  {r \in Requests : req'[r].fate \in {"answered", "rejected"} /\ req[r].fate = "none"}

\* What a step adds to the answers: its own, under the claim that owns the slot.
LEMMA AnswersGrow ==
  ASSUME CoreInv, [Next]_vars
  PROVE  /\ Answers' = Answers \union {[req |-> r, claim |-> generation] : r \in Newly}
         /\ Newly \cap {a.req : a \in Answers} = {}
         /\ \A r \in Newly : req'[r].gen = generation
<1>1. /\ AnswersOwner
      /\ Settled
      /\ \A r \in Requests : req[r].fate \in Fates
  BY NextAnswersOwner, NextSettles DEF CoreInv, StateTypeOK
<1>2. \A r \in Newly : req'[r].gen = generation
  BY <1>1 DEF Newly, AnswersOwner, Settled
<1>3. \A r \in Requests :
        req[r].fate \in {"answered", "rejected"} =>
          req'[r].fate = req[r].fate /\ req'[r].gen = req[r].gen
  BY <1>1 DEF Settled
<1>4. \A r \in Requests :
        req'[r].fate \in {"answered", "rejected"} =>
          req[r].fate \in {"answered", "rejected"} \/ r \in Newly
  BY <1>1 DEF Settled, Newly, Fates
<1>5. Answers' \subseteq Answers \union {[req |-> r,
claim |-> generation] : r \in Newly}
  BY <1>2, <1>3, <1>4 DEF Answers
<1>6. Answers \subseteq Answers'
  BY <1>3 DEF Answers
<1>7. {[req |-> r, claim |-> generation] : r \in Newly} \subseteq Answers'
  BY <1>2 DEF Answers, Newly
<1>8. Newly \cap {a.req : a \in Answers} = {}
  BY DEF Answers, Newly
<1> QED
  BY <1>2, <1>5, <1>6, <1>7, <1>8

\* A step that leaves generation and quarantine alone answers, or is a stutter.
LEMMA AnswerStep ==
  ASSUME CoreInv, CoreInv', [Next]_vars, generation' = generation, stopper' = stopper,
         lifecycle' = "RecycleFailed" <=> lifecycle = "RecycleFailed"
  PROVE  [AbstractSlot!Next]_(AbstractSlot!vars)
<1>1. /\ (lifecycle = "RecycleFailed")' = (lifecycle = "RecycleFailed")
      /\ (stopper # "idle")' = (stopper # "idle")
  OBVIOUS
<1>2. CASE Newly = {}
  <2>1. Answers' = Answers
    BY <1>2, AnswersGrow
  <2> QED
    BY <1>1, <2>1 DEF AbstractSlot!vars, Answers
<1>3. CASE Newly # {}
  <2>1. PICK r \in Newly : req'[r].gen = generation
    BY <1>3, AnswersGrow
  <2>2. generation \in Claims
    BY <2>1 DEF CoreInv, OnlyAcceptedEnd, RequestsOfClaims, StateTypeOK, Newly
  <2>3. AbstractSlot!Owned
    BY <2>2 DEF AbstractSlot!Owned, Claims, IsClaimed
  <2>4. PICK S \in SUBSET Requests : S = Newly
    BY DEF Newly
  <2>5. AbstractSlot!Answer(S)
    BY <1>1, <2>3, <2>4, AnswersGrow
    DEF AbstractSlot!Answer, AbstractSlot!Answered, Answers
  <2> QED
    BY <2>5 DEF AbstractSlot!Next
<1> QED
  BY <1>2, <1>3

\* What a shutdown does to the slot: it retires it, and marks it as it likes.
LEMMA StopMaps ==
  ASSUME Stop
  PROVE  \/ AbstractSlot!Retire
         \/ AbstractSlot!Remark
<1> USE DEF requests
<1>1. CASE ReadInUse
  <2>1. (stopper # "idle")' = TRUE
    BY <1>1 DEF ReadInUse, StopperGoes
  <2> QED
    BY <1>1, <2>1 DEF ReadInUse, StopperGoes, AbstractSlot!Retire, slot
<1>2. CASE Stop /\ ~ReadInUse
  <2>1. stopper # "idle" /\ stopper' # "idle"
    BY <1>2, StopBegan DEF Stop, Retire, SignalStop, ExitTooLate, JoinFfi, JoinEvent,
         Recheck, StopperGoes, JoinFfiThread
  <2>2. UNCHANGED <<generation, req>>
    BY <1>2 DEF Stop, Retire, SignalStop, ExitTooLate, JoinFfi, JoinEvent, Recheck,
         StopperGoes, JoinFfiThread, slot
  <2>3. (stopper # "idle")' = (stopper # "idle")
    BY <2>1
  <2>4. (lifecycle = "RecycleFailed")' \in BOOLEAN
    OBVIOUS
  <2> QED
    BY <2>1, <2>2, <2>3, <2>4 DEF AbstractSlot!Remark
<1> QED
  BY <1>1, <1>2

\* Each of the slot's own steps is a step of the abstract slot, or a stutter.
LEMMA SlotStepMaps ==
  ASSUME CoreInv, QuarantineHolds, SlotStep
  PROVE  [AbstractSlot!Next]_(AbstractSlot!vars)
<1> USE DEF requests, threads, AbstractSlot!Owned, IsClaimed, AbstractSlot!Next
<1>1. CASE Claim
  <2>1. AbstractSlot!Claim
    BY <1>1 DEF Claim, AbstractSlot!Claim
  <2> QED
    BY <2>1
<1>2. CASE MarkAsActive
  <2>1. CASE stopper = "idle"
    <3>1. (lifecycle = "RecycleFailed")' = (lifecycle = "RecycleFailed")
      BY <1>2, <2>1 DEF MarkAsActive, QuarantineHolds
    <3> QED
      BY <1>2, <3>1 DEF MarkAsActive, AbstractSlot!vars
  <2>2. CASE stopper # "idle"
    <3>1. (lifecycle = "RecycleFailed")' \in BOOLEAN
      OBVIOUS
    <3>2. AbstractSlot!Remark
      BY <1>2, <2>2, <3>1 DEF MarkAsActive, AbstractSlot!Remark
    <3> QED
      BY <3>2
  <2> QED
    BY <2>1, <2>2
<1>3. CASE ReleaseClaim
  <2>1. lifecycle = "RecycleFailed" => stopper # "idle"
    BY <1>3 DEF ReleaseClaim, FfiGoto, QuarantineHolds, RecyclePcs
  <2>2. AbstractSlot!Release
    BY <1>3, <2>1 DEF ReleaseClaim, AbstractSlot!Release, FfiGoto, CoreInv,
                      RecycleOwnsSlot, RecyclePcs
  <2> QED
    BY <2>2
<1>4. CASE Quarantine
  <2>1. AbstractSlot!Quarantine
    BY <1>4 DEF Quarantine, AbstractSlot!Quarantine, FfiGoto, CoreInv, RecycleOwnsSlot,
                RecyclePcs
  <2> QED
    BY <2>1
<1>5. CASE Stop
  BY <1>5, StopMaps
<1>6. CASE ParkClaims
  <2>1. AbstractSlot!Claim
    BY <1>6 DEF ParkClaims, AbstractSlot!Claim
  <2> QED
    BY <2>1
<1>7. CASE ParkReleases
  <2>1. lifecycle = "RecycleFailed" => stopper # "idle"
    BY <1>7 DEF ParkReleases, QuarantineHolds
  <2>2. AbstractSlot!Release
    BY <1>7, <2>1 DEF ParkReleases, AbstractSlot!Release, CoreInv, ParkOwns
  <2> QED
    BY <2>2
<1> QED
  BY <1>1, <1>2, <1>3, <1>4, <1>5, <1>6, <1>7 DEF SlotStep

\* The slot that hosts, the FFI thread and a shutdown share is a free, owned or
\* quarantined one that answers each request once, under its own claim; a shutdown
\* takes away no more than the finality of its quarantine.
THEOREM ImplementsSlot == Spec => ImplementsSlotLifecycle
<1>1. Init => AbstractSlot!Init
  BY DEF Init, AbstractSlot!Init
<1>2. (IInv /\ QuarantineHolds) /\ [Next]_vars => [AbstractSlot!Next]_(AbstractSlot!vars)
  BY CoreInductive, SlotSteps, AnswerStep, SlotStepMaps DEF IInv
<1>3. Spec => AbstractSlot!Init /\ [][AbstractSlot!Next]_(AbstractSlot!vars)
  BY <1>1, <1>2, QuarantineInvariant, PTL DEF Spec
<1> QED
  BY <1>3 DEF ImplementsSlotLifecycle, AbstractSlot!Spec
=============================================================================
