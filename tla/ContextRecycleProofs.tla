------------------------ MODULE ContextRecycleProofs ------------------------
(***************************************************************************)
(* Proofs, for every number of requests, destroyers and claims, that the   *)
(* slot of ContextRecycle keeps its types, owns each accepted request      *)
(* once, runs a handler only with its own claim's library, and ends a      *)
(* claim, or answers ok to its destructor, only after its teardown, with a *)
(* shutdown and reaps of the idle slot beside it.                          *)
(*                                                                         *)
(* All follows from one inductive invariant, IInv.  Its core is that the   *)
(* claim of a host can only end where the FFI thread releases it: while it *)
(* is in a recycle the slot is claimed and no creator can call it Active   *)
(* (RecycleOwnsSlot), the release is reached with no handler running, no   *)
(* library left and the teardown done (CleanRelease), and what a reap      *)
(* claims and releases is a slot that nobody holds a token of (ParkOwns).  *)
(***************************************************************************)
EXTENDS ContextRecycle, TLAPS

RecyclePcs == {"drain", "cancel", "teardown", "reset", "finish", "quarantine",
               "fire", "release"}

\* An Active or pending slot has an owner, but for one never claimed.
LiveIsClaimed ==
  lifecycle \in {"Active", "RecyclePending"} =>
    \/ IsClaimed(generation)
    \/ generation = 0 /\ lifecycle = "Active" /\ issued = {}

\* Between the claim and markAsActive nobody can start a recycle.
FreshClaim ==
  creator = "claimed" =>
    /\ IsClaimed(generation)
    /\ ffi \notin RecyclePcs
    /\ lifecycle # "RecyclePending"
    /\ lifecycle = "Active" => issued = {}

RecycleOwnsSlot ==
  ffi \in RecyclePcs =>
    IsClaimed(generation) /\ lifecycle \in {"Recycling", "RecycleFailed"}

\* A slot that was never claimed has no threads to reap.
Unused ==
  generation = 0 => ~threadsUp /\ creator = "idle" /\ parker = "idle"

\* The claim of a reap: no host's, and with no recycle or library behind it.
ParkOwns ==
  parker \in {"stop", "join", "joinEvent", "release", "kept"} =>
    /\ IsClaimed(generation)
    /\ generation \notin issued \union {token}
    /\ creator # "claimed"
    /\ ffi \notin RecyclePcs
    /\ lifecycle \notin {"Active", "RecyclePending"}
    /\ myLib = 0

\* What a recycle has done by the time it releases the slot.
CleanRelease ==
  /\ ffi \in {"teardown", "reset"} => ongoing = {}
  /\ ffi = "reset" => generation \in torn
  /\ ffi \in {"finish", "fire", "release"} /\ failure = "None" =>
       ongoing = {} /\ myLib = 0 /\ generation \in torn
  /\ ffi = "release" => failure = "None"
  /\ ffi = "quarantine" => failure # "None"

\* Tokens name claims made so far.
TokensIssued ==
  /\ creator # "idle" => token \in Claims
  /\ \A g \in issued : g <= generation
  /\ token <= generation

\* A request of a host carries a claim it held the token of.
RequestsOfClaims ==
  \A r \in Requests : req[r].pc # "idle" => req[r].gen \in issued

\* A request ends only after it was accepted.
OnlyAcceptedEnd ==
  \A r \in Requests : req[r].fate # "none" => req[r].pc = "accepted"

\* A handler runs under the claim it was dispatched for.
HandlersOfOwner ==
  /\ \A r \in ongoing : req[r].gen = generation
  /\ myLib # 0 => myLib = generation /\ IsClaimed(generation)

\* No host's claim began and ended since the loop read the generation.
OwnerRead ==
  ffi \in {"owner", "reject"} =>
    \A g \in issued \union {token} : IsClaimed(g) => g < ownerGen \/ g = generation

\* A host's claim that is over was torn down.
PastTornDown ==
  \A g \in issued \union {token} : IsClaimed(g) /\ g < generation => g \in torn

\* A destructor waits for the claim of its token, or for a later one.
DestroyersBehind ==
  \A d \in Destroyers :
    /\ destroyer[d].pc # "idle" => destroyer[d].token \in issued
    /\ destroyer[d].pc \notin {"idle", "resolved"} =>
         /\ destroyer[d].token <= destroyer[d].claimed
         /\ destroyer[d].claimed <= generation

DestroyedOver == \A g \in destroyed : g \in issued /\ g < generation

\* All but the flags, which no other part depends on.
CoreInv ==
  /\ StateTypeOK
  /\ RequestOwnedOnce
  /\ LiveIsClaimed
  /\ FreshClaim
  /\ RecycleOwnsSlot
  /\ Unused
  /\ ParkOwns
  /\ CleanRelease
  /\ TokensIssued
  /\ RequestsOfClaims
  /\ OnlyAcceptedEnd
  /\ HandlersOfOwner
  /\ OwnerRead
  /\ PastTornDown
  /\ DestroyersBehind
  /\ DestroyedOver

\* The inductive invariant.
IInv == FlagsTypeOK /\ CoreInv

-----------------------------------------------------------------------------
(* Parity: a claim is odd, and a release brings it to an even number.      *)

LEMMA ClaimNumbers ==
  ASSUME NEW n \in Nat
  PROVE  /\ IsClaimed(n) <=> ~IsClaimed(n + 1)
         /\ ~IsClaimed(0)
         /\ n \in Claims <=> IsClaimed(n) /\ 1 <= n /\ n <= 2 * MaxClaims
         /\ IsClaimed(n) /\ n <= 2 * MaxClaims => n + 1 <= 2 * MaxClaims
  BY MaxClaimsAssumption DEF IsClaimed, Claims

\* Claims are numbers.
LEMMA ClaimsNat == Claims \subseteq Nat
  BY MaxClaimsAssumption DEF Claims

-----------------------------------------------------------------------------
(* The initial state.                                                      *)

LEMMA InitCore == Init => CoreInv
<1> USE ClaimNumbers, ClaimsNat, MaxClaimsAssumption
    DEF CoreInv, StateTypeOK, RequestOwnedOnce, LiveIsClaimed, FreshClaim,
        RecycleOwnsSlot, Unused, ParkOwns, CleanRelease, TokensIssued,
        RequestsOfClaims, OnlyAcceptedEnd, HandlersOfOwner, OwnerRead, PastTornDown,
        DestroyersBehind, DestroyedOver,
        slot, threads, requests, worker, hosts,
        Init, Lifecycles, Failures, CreatorPcs, StopperPcs, ParkerPcs, DestroyerPcs,
        FfiPcs, SubmitPcs, Fates, NoCall, RecyclePcs
<1> QED  OBVIOUS

-----------------------------------------------------------------------------
(* rejectQueuedRequests, for whatever owner: each request it takes out of  *)
(* the bank ends, the others stay, and no request changes its claim.       *)

LEMMA RejectKeepsRequests ==
  ASSUME StateTypeOK, RequestOwnedOnce, OnlyAcceptedEnd, UNCHANGED <<batch, ongoing>>,
         NEW g \in Nat, RejectQueuedRequests(g)
  PROVE  /\ req' \in [Requests -> [pc : SubmitPcs, gen : Nat, fate : Fates]]
         /\ queue' \subseteq Requests
         /\ \A r \in Requests : req'[r].pc = req[r].pc /\ req'[r].gen = req[r].gen
         /\ RequestOwnedOnce' /\ OnlyAcceptedEnd'
<1>1. \A r \in Requests :
        /\ req[r].gen \in Nat
        /\ req'[r] \in [pc : SubmitPcs, gen : Nat, fate : Fates]
        /\ req'[r].pc = req[r].pc /\ req'[r].gen = req[r].gen
        /\ r \in queue' => r \in queue
        /\ r \in queue \ queue' => req'[r].fate # "none"
        /\ r \in queue' \/ r \notin queue => req'[r].fate = req[r].fate
  BY SMTT(40) DEF RejectQueuedRequests, StateTypeOK, Fates
<1>2. queue' \subseteq queue
  BY DEF RejectQueuedRequests
<1>3. req' \in [Requests -> [pc : SubmitPcs, gen : Nat, fate : Fates]]
  BY <1>1 DEF RejectQueuedRequests
<1>4. RequestOwnedOnce' /\ OnlyAcceptedEnd'
  BY <1>1, <1>2 DEF RequestOwnedOnce, OnlyAcceptedEnd, StateTypeOK
<1> QED
  BY <1>1, <1>2, <1>3, <1>4 DEF StateTypeOK

-----------------------------------------------------------------------------
(* Each step keeps CoreInv.                                                *)

\* createFFIContext.
LEMMA CreateKeepsCore ==
  ASSUME CoreInv, Create
  PROVE  CoreInv'
<1> USE ClaimNumbers, ClaimsNat, MaxClaimsAssumption
    DEF CoreInv, StateTypeOK, RequestOwnedOnce, LiveIsClaimed, FreshClaim,
        RecycleOwnsSlot, Unused, ParkOwns, CleanRelease, TokensIssued,
        RequestsOfClaims, OnlyAcceptedEnd, HandlersOfOwner, OwnerRead, PastTornDown,
        DestroyersBehind, DestroyedOver,
        slot, threads, requests, worker, hosts,
        Lifecycles, CreatorPcs, FfiPcs, RecyclePcs
<1>1. CASE Claim
  BY <1>1 DEF Claim
<1>2. CASE MarkAsActive
  BY <1>2 DEF MarkAsActive
<1>3. CASE Reuse
  BY <1>3 DEF Reuse
<1>4. CASE StartContextThreads
  BY <1>4 DEF StartContextThreads
<1>5. CASE ThreadsStarted
  BY <1>5 DEF ThreadsStarted
<1> QED
  BY <1>1, <1>2, <1>3, <1>4, <1>5 DEF Create, CreateStep

\* The release ends a claim that was torn down.
LEMMA ReleaseTornDown ==
  ASSUME StateTypeOK, RecycleOwnsSlot, CleanRelease, PastTornDown, TokensIssued,
         ReleaseClaim
  PROVE  PastTornDown'
<1>1. generation \in torn /\ generation \in Nat
  BY MaxClaimsAssumption
  DEF ReleaseClaim, FfiGoto, CleanRelease, RecycleOwnsSlot, RecyclePcs, StateTypeOK
<1>2. /\ generation' = generation + 1
      /\ UNCHANGED <<torn, issued, token>>
  BY DEF ReleaseClaim, hosts
<1>3. \A g \in issued \union {token} : g \in Nat /\ g <= generation
  BY ClaimsNat DEF TokensIssued, StateTypeOK
<1> QED
  BY <1>1, <1>2, <1>3 DEF PastTornDown

\* recycleContext.
LEMMA RecycleStepKeepsCore ==
  ASSUME CoreInv, RecycleStep
  PROVE  CoreInv'
<1> USE ClaimNumbers, ClaimsNat, MaxClaimsAssumption
    DEF CoreInv, StateTypeOK, RequestOwnedOnce, LiveIsClaimed, FreshClaim,
        RecycleOwnsSlot, Unused, ParkOwns, CleanRelease, TokensIssued,
        RequestsOfClaims, OnlyAcceptedEnd, HandlersOfOwner, OwnerRead, PastTornDown,
        DestroyersBehind, DestroyedOver,
        slot, threads, requests, worker, hosts,
        FfiGoto, FfiOnly, Lifecycles, Failures, FfiPcs, RecyclePcs
<1>1. CASE StartRecycle
  BY <1>1 DEF StartRecycle
<1>2. CASE Drained
  <2>1. CASE FfiOnly("drain", "teardown")
    BY <1>2, <2>1 DEF Drained
  <2>2. CASE FfiOnly("cancel", "teardown")
    BY <1>2, <2>2 DEF Drained
  <2> QED
    BY <1>2, <2>1, <2>2 DEF Drained
<1>3. CASE CancelOngoing
  BY <1>3 DEF CancelOngoing
<1>4. CASE DrainTimeout
  BY <1>4 DEF DrainTimeout
<1>5. CASE TeardownEnds
  BY <1>5 DEF TeardownEnds
<1>6. CASE TeardownFails
  BY <1>6 DEF TeardownFails
<1>7. CASE ResetForNextOwner
  BY <1>7, RejectKeepsRequests DEF ResetForNextOwner
<1>8. CASE FinishRecycle
  BY <1>8 DEF FinishRecycle
<1>9. CASE Quarantine
  BY <1>9 DEF Quarantine
<1>10. CASE FireDone
  BY <1>10 DEF FireDone
<1>11. CASE ReleaseClaim
  <2>1. StateTypeOK' /\ RequestOwnedOnce'
    BY <1>11 DEF ReleaseClaim
  <2>2. /\ LiveIsClaimed' /\ FreshClaim' /\ RecycleOwnsSlot' /\ CleanRelease'
        /\ Unused' /\ ParkOwns'
    BY <1>11 DEF ReleaseClaim
  <2>3. /\ TokensIssued' /\ RequestsOfClaims' /\ OnlyAcceptedEnd'
        /\ HandlersOfOwner' /\ OwnerRead'
    BY <1>11 DEF ReleaseClaim
  <2>4. PastTornDown'
    BY <1>11, ReleaseTornDown
  <2>5. DestroyersBehind' /\ DestroyedOver'
    BY <1>11 DEF ReleaseClaim
  <2> QED
    BY <2>1, <2>2, <2>3, <2>4, <2>5
<1> QED
  BY <1>1, <1>2, <1>3, <1>4, <1>5, <1>6, <1>7, <1>8, <1>9, <1>10, <1>11 DEF RecycleStep

\* shutdownFFIContextPool.
LEMMA StopKeepsCore ==
  ASSUME CoreInv, Stop
  PROVE  CoreInv'
<1> USE ClaimNumbers, ClaimsNat, MaxClaimsAssumption
    DEF CoreInv, StateTypeOK, RequestOwnedOnce, LiveIsClaimed, FreshClaim,
        RecycleOwnsSlot, Unused, ParkOwns, CleanRelease, TokensIssued,
        RequestsOfClaims, OnlyAcceptedEnd, HandlersOfOwner, OwnerRead, PastTornDown,
        DestroyersBehind, DestroyedOver,
        slot, threads, requests, worker, hosts,
        FfiGoto, Lifecycles, FfiPcs, RecyclePcs, StopperPcs
<1>1. CASE ReadInUse
  BY <1>1 DEF ReadInUse, StopperGoes
<1>2. CASE Retire
  BY <1>2 DEF Retire
<1>3. CASE SignalStop
  BY <1>3 DEF SignalStop
<1>4. CASE ExitTooLate
  <2>1. CASE StopperGoes("join", "gaveUp")
    BY <2>1 DEF StopperGoes
  <2>2. CASE StopperGoes("joinEvent", "gaveUp")
    BY <2>2 DEF StopperGoes
  <2> QED
    BY <1>4, <2>1, <2>2 DEF ExitTooLate
<1>5. CASE JoinFfi
  BY <1>5 DEF JoinFfi, JoinFfiThread
<1>6. CASE JoinEvent
  BY <1>6 DEF JoinEvent
<1>7. CASE Recheck
  BY <1>7 DEF Recheck
<1> QED
  BY <1>1, <1>2, <1>3, <1>4, <1>5, <1>6, <1>7 DEF Stop

\* parkIdleSlots.
LEMMA ParkKeepsCore ==
  ASSUME CoreInv, Park
  PROVE  CoreInv'
<1> USE ClaimNumbers, ClaimsNat, MaxClaimsAssumption
    DEF CoreInv, StateTypeOK, RequestOwnedOnce, LiveIsClaimed, FreshClaim,
        RecycleOwnsSlot, Unused, ParkOwns, CleanRelease, TokensIssued,
        RequestsOfClaims, OnlyAcceptedEnd, HandlersOfOwner, OwnerRead, PastTornDown,
        DestroyersBehind, DestroyedOver,
        slot, threads, requests, worker, hosts,
        FfiGoto, Lifecycles, FfiPcs, RecyclePcs, ParkerPcs
<1>1. CASE ParkSeesThreads
  BY <1>1 DEF ParkSeesThreads, ParkerGoes
<1>2. CASE ParkClaims
  BY <1>2 DEF ParkClaims
<1>3. CASE ParkFindsOwner
  BY <1>3 DEF ParkFindsOwner, ParkerGoes
<1>4. CASE ParkSignalsStop
  BY <1>4 DEF ParkSignalsStop
<1>5. CASE ParkJoinsFfi
  BY <1>5 DEF ParkJoinsFfi, JoinFfiThread
<1>6. CASE ParkJoinsEvent
  BY <1>6 DEF ParkJoinsEvent
<1>7. CASE ParkKeepsClaim
  <2>1. CASE ParkerGoes("join", "kept")
    BY <2>1 DEF ParkerGoes
  <2>2. CASE ParkerGoes("joinEvent", "kept")
    BY <2>2 DEF ParkerGoes
  <2> QED
    BY <1>7, <2>1, <2>2 DEF ParkKeepsClaim
<1>8. CASE ParkReleases
  <2>1. StateTypeOK' /\ RequestOwnedOnce'
    BY <1>8 DEF ParkReleases
  <2>2. /\ LiveIsClaimed' /\ FreshClaim' /\ RecycleOwnsSlot' /\ CleanRelease'
        /\ Unused' /\ ParkOwns'
    BY <1>8 DEF ParkReleases
  <2>3. TokensIssued' /\ RequestsOfClaims' /\ OnlyAcceptedEnd'
    BY <1>8 DEF ParkReleases
  <2>4. HandlersOfOwner' /\ OwnerRead'
    BY <1>8 DEF ParkReleases
  <2>5. PastTornDown' /\ DestroyersBehind' /\ DestroyedOver'
    BY <1>8 DEF ParkReleases
  <2> QED
    BY <2>1, <2>2, <2>3, <2>4, <2>5
<1> QED
  BY <1>1, <1>2, <1>3, <1>4, <1>5, <1>6, <1>7, <1>8 DEF Park

\* The loop of the FFI thread, and its exit.
LEMMA LoopStepKeepsCore ==
  ASSUME CoreInv, LoopStep
  PROVE  CoreInv'
<1> USE ClaimNumbers, ClaimsNat, MaxClaimsAssumption
    DEF CoreInv, StateTypeOK, RequestOwnedOnce, LiveIsClaimed, FreshClaim,
        RecycleOwnsSlot, Unused, ParkOwns, CleanRelease, TokensIssued,
        RequestsOfClaims, OnlyAcceptedEnd, HandlersOfOwner, OwnerRead, PastTornDown,
        DestroyersBehind, DestroyedOver,
        slot, threads, requests, worker, hosts,
        FfiGoto, FfiOnly, Lifecycles, Fates, FfiPcs, RecyclePcs
<1>1. CASE ReadOwner
  BY <1>1 DEF ReadOwner
<1>2. CASE ReadLifecycle
  BY <1>2 DEF ReadLifecycle
<1>3. CASE RejectRound
  BY <1>3, RejectKeepsRequests DEF RejectRound
<1>4. CASE MergeQueues
  BY <1>4 DEF MergeQueues
<1>5. ASSUME NEW r \in Requests, DropStale(r)
      PROVE  CoreInv'
  BY <1>5 DEF DropStale, Ends
<1>6. ASSUME NEW r \in Requests, Dispatch(r)
      PROVE  CoreInv'
  BY <1>6 DEF Dispatch, Ends
<1>7. CASE QueueEmpty
  <2>1. CASE FfiOnly("process", "loop")
    BY <1>7, <2>1
  <2>2. CASE FfiOnly("lastProcess", "exitDrain")
    BY <1>7, <2>2
  <2> QED
    BY <1>7, <2>1, <2>2 DEF QueueEmpty
<1>8. CASE LeaveLoop
  BY <1>8 DEF LeaveLoop
<1>9. CASE ExitDrained
  BY <1>9 DEF ExitDrained
<1>10. CASE ThreadExit
  BY <1>10 DEF ThreadExit
<1> QED
  BY <1>1, <1>2, <1>3, <1>4, <1>5, <1>6, <1>7, <1>8, <1>9, <1>10 DEF LoopStep

\* The end of a handler.
LEMMA HandlerKeepsCore ==
  ASSUME CoreInv, NEW r \in Requests, HandlerEnds(r)
  PROVE  CoreInv'
<1> USE ClaimNumbers, ClaimsNat, MaxClaimsAssumption
    DEF CoreInv, StateTypeOK, RequestOwnedOnce, LiveIsClaimed, FreshClaim,
        RecycleOwnsSlot, Unused, ParkOwns, CleanRelease, TokensIssued,
        RequestsOfClaims, OnlyAcceptedEnd, HandlersOfOwner, OwnerRead, PastTornDown,
        DestroyersBehind, DestroyedOver,
        slot, threads, requests, worker, hosts,
        HandlerEnds, Ends, Awaiting, Fates, FfiPcs, RecyclePcs
<1> QED
  OBVIOUS

\* What a submit knows once its token resolved.
LEMMA ResolveUpdates ==
  ASSUME StateTypeOK, NEW r \in Requests, NEW g \in issued, Resolve(r, g)
  PROVE  /\ StateTypeOK'
         /\ req'[r].pc = "resolved" /\ req'[r].gen = g
         /\ req'[r].fate = req[r].fate
         /\ \A q \in Requests \ {r} : req'[q] = req[q]
<1>1. req \in [Requests -> [pc : SubmitPcs, gen : Nat, fate : Fates]] /\ g \in Nat
  BY ClaimsNat DEF StateTypeOK
<1>2. /\ req' \in [Requests -> [pc : SubmitPcs, gen : Nat, fate : Fates]]
      /\ req'[r].pc = "resolved" /\ req'[r].gen = g
      /\ req'[r].fate = req[r].fate
      /\ \A q \in Requests \ {r} : req'[q] = req[q]
  BY <1>1 DEF Resolve, SubmitPcs
<1>3. UNCHANGED <<slot, threads, queue, batch, ongoing, worker, hosts>>
  BY DEF Resolve
<1>4. StateTypeOK'
  BY <1>2, <1>3 DEF StateTypeOK, slot, threads, worker, hosts
<1> QED
  BY <1>2, <1>4

\* submit.
LEMMA SubmitKeepsCore ==
  ASSUME CoreInv, NEW r \in Requests, Submit(r)
  PROVE  CoreInv'
<1> USE ClaimNumbers, ClaimsNat, MaxClaimsAssumption
    DEF CoreInv, StateTypeOK, RequestOwnedOnce, LiveIsClaimed, FreshClaim,
        RecycleOwnsSlot, Unused, ParkOwns, CleanRelease, TokensIssued,
        RequestsOfClaims, OnlyAcceptedEnd, HandlersOfOwner, OwnerRead, PastTornDown,
        DestroyersBehind, DestroyedOver,
        slot, threads, requests, worker, hosts,
        SubmitRefused, SubmitPasses, SubmitPcs, Fates
<1>1. ASSUME NEW g \in issued, Resolve(r, g)
      PROVE  CoreInv'
  <2>1. req[r].pc = "idle"
    BY <1>1 DEF Resolve
  <2>2. /\ req'[r].pc = "resolved" /\ req'[r].gen = g
        /\ req'[r].fate = req[r].fate
        /\ \A q \in Requests \ {r} : req'[q] = req[q]
    BY <1>1, ResolveUpdates
  <2>3. StateTypeOK'
    BY <1>1, ResolveUpdates
  <2>4. RequestOwnedOnce'
    BY <1>1, <2>1, <2>2 DEF Resolve
  <2>5. RequestsOfClaims' /\ OnlyAcceptedEnd' /\ HandlersOfOwner'
    BY <1>1, <2>1, <2>2 DEF Resolve
  <2> QED
    BY <1>1, <2>3, <2>4, <2>5 DEF Resolve
<1>2. CASE CheckLifecycle(r)
  BY <1>2, SMTT(40) DEF CheckLifecycle
<1>3. CASE CheckGeneration(r)
  BY <1>3, SMTT(40) DEF CheckGeneration
<1>4. CASE RefuseForLimits(r)
  BY <1>4 DEF RefuseForLimits
<1>5. CASE Push(r)
  <2>1. /\ req[r].pc = "current" /\ req'[r] = [req[r] EXCEPT !.pc = "accepted"]
        /\ \A q \in Requests : q # r => req'[q] = req[q]
        /\ req' \in [Requests -> [pc : SubmitPcs, gen : Nat, fate : Fates]]
    BY <1>5 DEF Push
  <2>2. r \notin queue \union batch \union ongoing
    BY <2>1
  <2>3. RequestOwnedOnce'
    BY <1>5, <2>1, <2>2 DEF Push
  <2> QED
    BY <1>5, <2>1, <2>3 DEF Push
<1> QED
  BY <1>1, <1>2, <1>3, <1>4, <1>5 DEF Submit

\* What a destructor knows once it read the generation.
LEMMA ReadClaimedUpdates ==
  ASSUME StateTypeOK, NEW d \in Destroyers, ReadClaimed(d)
  PROVE  /\ destroyer' \in
              [Destroyers -> [pc : DestroyerPcs, token : Nat, claimed : Nat]]
         /\ destroyer'[d].pc = "request" /\ destroyer'[d].claimed = generation
         /\ destroyer'[d].token = destroyer[d].token
         /\ \A e \in Destroyers \ {d} : destroyer'[e] = destroyer[e]
<1>1. /\ destroyer \in [Destroyers -> [pc : DestroyerPcs, token : Nat, claimed : Nat]]
      /\ generation \in Nat
  BY MaxClaimsAssumption DEF StateTypeOK
<1> QED
  BY <1>1 DEF ReadClaimed, DestroyerPcs

\* And once its token resolved.
LEMMA ResolveForDestroyUpdates ==
  ASSUME StateTypeOK, NEW d \in Destroyers, NEW g \in issued, ResolveForDestroy(d, g)
  PROVE  /\ destroyer' \in
              [Destroyers -> [pc : DestroyerPcs, token : Nat, claimed : Nat]]
         /\ destroyer'[d].pc = "resolved" /\ destroyer'[d].token = g
         /\ \A e \in Destroyers \ {d} : destroyer'[e] = destroyer[e]
<1>1. /\ destroyer \in [Destroyers -> [pc : DestroyerPcs, token : Nat, claimed : Nat]]
      /\ g \in Nat
  BY ClaimsNat DEF StateTypeOK
<1> QED
  BY <1>1 DEF ResolveForDestroy, DestroyerPcs

\* requestRecycle.
LEMMA DestroyKeepsCore ==
  ASSUME CoreInv, NEW d \in Destroyers, Destroy(d)
  PROVE  CoreInv'
<1> USE ClaimNumbers, ClaimsNat, MaxClaimsAssumption
    DEF CoreInv, StateTypeOK, RequestOwnedOnce, LiveIsClaimed, FreshClaim,
        RecycleOwnsSlot, Unused, ParkOwns, CleanRelease, TokensIssued,
        RequestsOfClaims, OnlyAcceptedEnd, HandlersOfOwner, OwnerRead, PastTornDown,
        DestroyersBehind, DestroyedOver,
        slot, threads, requests, worker, hosts,
        Goto, Return, ReadsOnly, NoCall, DestroyerPcs, Lifecycles, FfiPcs, RecyclePcs
<1>1. ASSUME NEW g \in issued, ResolveForDestroy(d, g)
      PROVE  CoreInv'
  <2>1. StateTypeOK'
    BY <1>1, ResolveForDestroyUpdates DEF ResolveForDestroy
  <2>2. /\ destroyer'[d].pc = "resolved" /\ destroyer'[d].token \in issued
        /\ \A e \in Destroyers \ {d} : destroyer'[e] = destroyer[e]
    BY <1>1, ResolveForDestroyUpdates
  <2>3. DestroyersBehind'
    BY <1>1, <2>2 DEF ResolveForDestroy
  <2> QED
    BY <1>1, <2>1, <2>3 DEF ResolveForDestroy
<1>2. CASE ReadClaimed(d)
  <2>1. StateTypeOK'
    BY <1>2, ReadClaimedUpdates DEF ReadClaimed
  <2>2. /\ destroyer'[d].token \in issued /\ destroyer'[d].token <= generation
        /\ destroyer'[d].claimed = generation
        /\ \A e \in Destroyers \ {d} : destroyer'[e] = destroyer[e]
    BY <1>2, ReadClaimedUpdates DEF ReadClaimed
  <2>3. DestroyersBehind'
    BY <1>2, <2>2 DEF ReadClaimed
  <2> QED
    BY <1>2, <2>1, <2>3 DEF ReadClaimed
<1>3. CASE RequestRecycle(d)
  BY <1>3 DEF RequestRecycle
<1>4. CASE AlreadyRecycling(d)
  BY <1>4 DEF AlreadyRecycling
<1>5. CASE ClearAbandoned(d)
  BY <1>5 DEF ClearAbandoned
<1>6. CASE ClearDone(d)
  BY <1>6 DEF ClearDone
<1>7. CASE SeesFired(d)
  BY <1>7 DEF SeesFired
<1>8. CASE SeesEnded(d)
  BY <1>8 DEF SeesEnded
<1>9. CASE Abandon(d)
  BY <1>9 DEF Abandon
<1>10. CASE ReportQuarantine(d)
  BY <1>10 DEF ReportQuarantine
<1>11. CASE NotQuarantined(d)
  BY <1>11 DEF NotQuarantined
<1>12. CASE ClaimReleased(d)
  <2>1. /\ destroyer[d].token \in issued
        /\ destroyer[d].token <= destroyer[d].claimed
        /\ destroyer[d].claimed <= generation
        /\ destroyer[d].claimed # generation
        /\ destroyer[d].token \in Nat /\ destroyer[d].claimed \in Nat
    BY <1>12 DEF ClaimReleased
  <2>2. destroyer[d].token \in Claims /\ destroyer[d].token < generation
    BY <2>1
  <2>3. StateTypeOK' /\ DestroyersBehind'
    BY <1>12, <2>1 DEF ClaimReleased
  <2>4. DestroyedOver'
    BY <1>12, <2>2 DEF ClaimReleased
  <2> QED
    BY <1>12, <2>3, <2>4 DEF ClaimReleased
<1>13. CASE ReleaseTooLate(d)
  BY <1>13 DEF ReleaseTooLate
<1>14. CASE WaitExpires(d)
  BY <1>14 DEF WaitExpires
<1> QED
  BY <1>1, <1>2, <1>3, <1>4, <1>5, <1>6, <1>7,
     <1>8, <1>9, <1>10, <1>11, <1>12, <1>13, <1>14
  DEF Destroy, DestroyStep

\* Every step keeps CoreInv.
LEMMA CoreInductive == CoreInv /\ [Next]_vars => CoreInv'
<1>1. ASSUME CoreInv, UNCHANGED vars
      PROVE  CoreInv'
  BY <1>1
  DEF vars, slot, threads, requests, worker, hosts, CoreInv, StateTypeOK,
      RequestOwnedOnce, LiveIsClaimed, FreshClaim, RecycleOwnsSlot, Unused, ParkOwns,
      CleanRelease, TokensIssued, RequestsOfClaims, OnlyAcceptedEnd, HandlersOfOwner,
      OwnerRead, PastTornDown, DestroyersBehind, DestroyedOver
<1> QED
  BY <1>1, CreateKeepsCore, SubmitKeepsCore, DestroyKeepsCore, RecycleStepKeepsCore,
     LoopStepKeepsCore, HandlerKeepsCore, StopKeepsCore, ParkKeepsCore
  DEF Next, FfiStep

-----------------------------------------------------------------------------
(* The flags, on their own: every step leaves a flag or stores a boolean.  *)

LEMMA FlagsInductive == FlagsTypeOK /\ [Next]_vars => FlagsTypeOK'
<1> SUFFICES ASSUME FlagsTypeOK, [Next]_vars
             PROVE  FlagsTypeOK'
  OBVIOUS
<1> USE DEF FlagsTypeOK, slot, threads
<1>1. CASE Create
  BY <1>1 DEF Create, CreateStep, Claim, MarkAsActive, Reuse, StartContextThreads,
              ThreadsStarted
<1>2. ASSUME NEW r \in Requests, Submit(r)
      PROVE  FlagsTypeOK'
  BY <1>2 DEF Submit, Resolve, CheckLifecycle, CheckGeneration, RefuseForLimits, Push,
              SubmitRefused, SubmitPasses
<1>3. ASSUME NEW d \in Destroyers, Destroy(d)
      PROVE  FlagsTypeOK'
  BY <1>3 DEF Destroy, DestroyStep, ResolveForDestroy, ReadClaimed, RequestRecycle,
              AlreadyRecycling, ClearAbandoned, ClearDone, SeesFired, SeesEnded,
              WaitExpires, Abandon, ReportQuarantine, NotQuarantined, ClaimReleased,
              ReleaseTooLate, ReadsOnly
<1>4. CASE RecycleStep
  BY <1>4 DEF RecycleStep, StartRecycle, Drained, CancelOngoing, DrainTimeout,
              TeardownEnds, TeardownFails, ResetForNextOwner, FinishRecycle,
              Quarantine, FireDone, ReleaseClaim, FfiOnly
<1>5. CASE LoopStep
  BY <1>5 DEF LoopStep, ReadOwner, ReadLifecycle, RejectRound, MergeQueues, DropStale,
              Dispatch, QueueEmpty, LeaveLoop, ExitDrained, ThreadExit, FfiOnly
<1>6. ASSUME NEW r \in Requests, HandlerEnds(r)
      PROVE  FlagsTypeOK'
  BY <1>6 DEF HandlerEnds
<1>7. CASE Stop
  BY <1>7 DEF Stop, ReadInUse, Retire, SignalStop, ExitTooLate, JoinFfi, JoinEvent,
              Recheck, StopperGoes, JoinFfiThread
<1>8. CASE Park
  BY <1>8 DEF Park, ParkSeesThreads, ParkClaims, ParkFindsOwner, ParkSignalsStop,
              ParkJoinsFfi, ParkJoinsEvent, ParkKeepsClaim, ParkReleases, ParkerGoes,
              JoinFfiThread
<1>9. CASE UNCHANGED vars
  BY <1>9 DEF vars
<1> QED
  BY <1>1, <1>2, <1>3, <1>4, <1>5, <1>6, <1>7, <1>8, <1>9 DEF Next, FfiStep

\* IInv holds throughout.
LEMMA Inductive == Spec => []IInv
<1>1. Init => IInv
  BY InitCore DEF IInv, Init, FlagsTypeOK
<1>2. IInv /\ [Next]_vars => IInv'
  BY CoreInductive, FlagsInductive DEF IInv
<1> QED
  BY <1>1, <1>2, PTL DEF Spec

-----------------------------------------------------------------------------
(* What follows from it.                                                   *)

\* Every variable keeps its type, whatever the hosts and the threads do.
THEOREM TypeCorrect == Spec => []TypeOK
<1>1. IInv => TypeOK
  BY DEF IInv, CoreInv, TypeOK
<1> QED
  BY <1>1, Inductive, PTL

\* An accepted request is owned by exactly one of the bank, the FFI thread's
\* batch and a handler until it ends: ffi_thread.nim never loses it, runs it twice
\* or reads it after its free.
THEOREM AcceptedIsOwnedOnce == Spec => []RequestOwnedOnce
<1>1. IInv => RequestOwnedOnce
  BY DEF IInv, CoreInv
<1> QED
  BY <1>1, Inductive, PTL

\* The generation check of processRequest is enough: a handler never runs with
\* another claim's library.
THEOREM HandlerUsesOwnLibrary == Spec => []LibraryOfOwnClaim
<1>1. IInv => LibraryOfOwnClaim
  BY DEF IInv, CoreInv, HandlersOfOwner, LibraryOfOwnClaim, StateTypeOK
<1> QED
  BY <1>1, Inductive, PTL

\* A claim ends only after its teardown ran to its end.
THEOREM ClaimEndsTornDown == Spec => []EndedMeansTornDown
<1>1. IInv => EndedMeansTornDown
  BY DEF IInv, CoreInv, PastTornDown, EndedMeansTornDown, StateTypeOK, Claims
<1> QED
  BY <1>1, Inductive, PTL

\* An ok from requestRecycle means that the claim is over and torn down, for any
\* number of destroyers racing on the same token, creates and a shutdown.
THEOREM DestroyOkIsTornDown == Spec => []OkMeansTornDown
<1>1. IInv => OkMeansTornDown
  BY DEF IInv, CoreInv, PastTornDown, DestroyedOver, OkMeansTornDown, StateTypeOK,
         Claims
<1> QED
  BY <1>1, Inductive, PTL

-----------------------------------------------------------------------------
(* Answers are given under the claim that owns the slot.                   *)

AnswersOwner ==
  \A r \in Requests :
    req'[r].fate \in {"answered", "rejected"} /\ req[r].fate = "none"
      => req[r].gen = generation

\* rejectQueuedRequests answers no request older than the owner it is given.
LEMMA RejectAnswersOwner ==
  ASSUME NEW g \in Nat, RejectQueuedRequests(g), StateTypeOK,
         \A r \in queue : req[r].gen >= g => req[r].gen = generation
  PROVE  AnswersOwner
<1> SUFFICES ASSUME NEW r \in Requests, req[r].fate = "none",
                    req'[r].fate \in {"answered", "rejected"}
             PROVE  req[r].gen = generation
  BY DEF AnswersOwner
<1>1. req[r] \in [pc : SubmitPcs, gen : Nat, fate : Fates]
  BY DEF StateTypeOK
<1>2. r \in queue /\ req[r].gen >= g
  BY <1>1 DEF RejectQueuedRequests
<1> QED
  BY <1>2

\* The FFI thread answers requests of the owner only.
LEMMA FfiAnswersOwner ==
  ASSUME CoreInv, FfiStep \/ \E r \in Requests : HandlerEnds(r)
  PROVE  AnswersOwner
<1> USE DEF CoreInv, StateTypeOK
<1>1. CASE UNCHANGED req
  BY <1>1 DEF AnswersOwner
<1>2. CASE RejectRound
  <2>1. \A r \in queue : req[r].gen \in issued /\ req[r].gen \in Claims
    BY DEF RequestOwnedOnce, RequestsOfClaims
  <2>2. \A r \in queue : req[r].gen >= ownerGen => req[r].gen = generation
    BY <1>2, <2>1, ClaimNumbers, ClaimsNat DEF RejectRound, FfiGoto, OwnerRead
  <2> QED
    BY <1>2, <2>2, RejectAnswersOwner DEF RejectRound
<1>3. CASE ResetForNextOwner
  <2>1. \A r \in queue : req[r].gen \in Nat /\ req[r].gen <= generation
    BY ClaimsNat DEF RequestOwnedOnce, RequestsOfClaims, TokensIssued
  <2>2. generation \in Nat
    BY MaxClaimsAssumption
  <2>3. \A r \in queue : req[r].gen >= generation => req[r].gen = generation
    BY <2>1, <2>2
  <2>4. RejectQueuedRequests(generation)
    BY <1>3 DEF ResetForNextOwner
  <2> QED
    BY <2>2, <2>3, <2>4, RejectAnswersOwner
<1>4. ASSUME NEW r \in Requests, DropStale(r)
      PROVE  AnswersOwner
  BY <1>4 DEF DropStale, Ends, AnswersOwner
<1>5. ASSUME NEW r \in Requests, Dispatch(r)
      PROVE  AnswersOwner
  BY <1>5 DEF Dispatch, Ends, AnswersOwner
<1>6. ASSUME NEW r \in Requests, HandlerEnds(r)
      PROVE  AnswersOwner
  BY <1>6 DEF HandlerEnds, Ends, AnswersOwner, HandlersOfOwner
<1>7. RecycleStep => ResetForNextOwner \/ UNCHANGED req
  BY DEF RecycleStep, StartRecycle, Drained, CancelOngoing, DrainTimeout, TeardownEnds,
         TeardownFails, FinishRecycle, Quarantine, FireDone, ReleaseClaim, FfiOnly,
         requests
<1>8. LoopStep =>
        \/ RejectRound
        \/ \E r \in Requests : DropStale(r) \/ Dispatch(r)
        \/ UNCHANGED req
  BY DEF LoopStep, ReadOwner, ReadLifecycle, MergeQueues, QueueEmpty, LeaveLoop,
         ExitDrained, ThreadExit, FfiOnly, requests
<1> QED
  BY <1>1, <1>2, <1>3, <1>4, <1>5, <1>6, <1>7, <1>8 DEF FfiStep

\* And nobody else answers any.
LEMMA NextAnswersOwner ==
  ASSUME CoreInv, [Next]_vars
  PROVE  AnswersOwner
<1>1. CASE UNCHANGED req
  BY <1>1 DEF AnswersOwner
<1>2. ASSUME NEW r \in Requests, Submit(r)
      PROVE  AnswersOwner
  BY <1>2 DEF Submit, Resolve, CheckLifecycle, CheckGeneration, RefuseForLimits, Push,
              SubmitRefused, SubmitPasses, AnswersOwner, CoreInv, StateTypeOK
<1>3. Create \/ Stop \/ Park => UNCHANGED req
  BY DEF Create, CreateStep, Claim, MarkAsActive, Reuse, StartContextThreads,
         ThreadsStarted, Stop, ReadInUse, Retire, SignalStop, ExitTooLate, JoinFfi,
              JoinEvent, Recheck, StopperGoes, JoinFfiThread, Park, ParkSeesThreads,
         ParkClaims, ParkFindsOwner, ParkSignalsStop, ParkJoinsFfi, ParkJoinsEvent,
         ParkKeepsClaim, ParkReleases, ParkerGoes, requests
<1>4. ASSUME NEW d \in Destroyers, Destroy(d)
      PROVE  UNCHANGED req
  BY <1>4 DEF Destroy, DestroyStep, ResolveForDestroy, ReadClaimed, RequestRecycle,
              AlreadyRecycling, ClearAbandoned, ClearDone, SeesFired, SeesEnded,
              WaitExpires, Abandon, ReportQuarantine, NotQuarantined, ClaimReleased,
              ReleaseTooLate, ReadsOnly, requests
<1> QED
  BY <1>1, <1>2, <1>3, <1>4, FfiAnswersOwner DEF Next, vars, requests

\* Once its destructor answered ok, no request of a claim is answered: what the
\* host passed as userData may be freed.
THEOREM NoLateAnswer == Spec => NoAnswerAfterDestroy
<1>1. ASSUME IInv, [Next]_vars,
             NEW r \in Requests,
             req'[r].fate \in {"answered", "rejected"}, req[r].fate = "none"
      PROVE  req[r].gen \notin destroyed
  <2>1. req[r].gen = generation
    BY <1>1, NextAnswersOwner DEF AnswersOwner, IInv
  <2> QED
    BY <1>1, <2>1, MaxClaimsAssumption DEF IInv, CoreInv, DestroyedOver, StateTypeOK
<1>2. IInv /\ [Next]_vars =>
        [\A r \in Requests :
           req'[r].fate \in {"answered", "rejected"} /\ req[r].fate = "none"
             => req[r].gen \notin destroyed]_vars
  BY <1>1
<1> QED
  BY <1>2, Inductive, PTL DEF Spec, NoAnswerAfterDestroy

=============================================================================
