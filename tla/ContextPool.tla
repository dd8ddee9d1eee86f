----------------------------- MODULE ContextPool -----------------------------
(***************************************************************************)
(* The pool of context slots: creating a context, destroying it, the idle  *)
(* reap that joins the threads of every free slot once no context is live, *)
(* the one static context, and the full destroy that rebuilds a slot.      *)
(*                                                                         *)
(* A recycle is one step here, with the outcomes SlotLifecycle allows: the *)
(* slot is released or quarantined.  Shutdown is in ContextRecycle.        *)
(***************************************************************************)
EXTENDS Integers, FiniteSets

CONSTANTS
  Hosts,        \* host threads
  MaxContexts,  \* MaxFFIContexts
  MaxClaims,    \* bound: claims of one slot
  Faults,       \* TRUE: threads may fail to start or stop, recycles to complete
  NimApi        \* TRUE: destroyFFIContext and destroyStaticFFIContext are called

ASSUME MaxContextsAssumption == MaxContexts \in Nat \ {0}
ASSUME MaxClaimsAssumption == MaxClaims \in Nat
ASSUME FaultsAssumption == Faults \in BOOLEAN /\ NimApi \in BOOLEAN

Slots == 1 .. MaxContexts
NoSlot == 0

VARIABLES
  generation,   \* per slot: odd = claimed
  quarantined,  \* per slot: lifecycle is RecycleFailed
  initialized,  \* per slot: its resources are built
  threadsUp,    \* per slot: the pool's record of its thread pair
  pairs,        \* per slot: how many thread pairs run
  staticCtx,    \* the slot of the static context, or NoSlot
  staticState,  \* StaticCtxState
  call,         \* per host: where it is, the slot it looks at
  held,         \* per host: the slots its successful creates gave it
  leaked,       \* history: slots whose join failed
  gone,         \* leaked slots whose pair exited late, its exit signals unread
  half          \* leaked slots with the FFI thread joined, the event thread late

threads == <<threadsUp, pairs, leaked, gone, half>>
slots == <<generation, quarantined, initialized, threads>>
static == <<staticCtx, staticState>>
vars == <<slots, static, call, held>>

InUse(s) == generation[s] % 2 = 1

Idle == [pc |-> "idle", slot |-> NoSlot, static |-> FALSE]

Init ==
  /\ generation = [s \in Slots |-> 0]
  /\ quarantined = [s \in Slots |-> FALSE]
  /\ initialized = [s \in Slots |-> FALSE]
  /\ threadsUp = [s \in Slots |-> FALSE]
  /\ pairs = [s \in Slots |-> 0]
  /\ staticCtx = NoSlot
  /\ staticState = "None"
  /\ call = [h \in Hosts |-> Idle]
  /\ held = [h \in Hosts |-> {}]
  /\ leaked = {} /\ gone = {} /\ half = {}

At(h, pc) == call[h].pc = pc
Moves(h, pc, s) == call' = [call EXCEPT ![h].pc = pc, ![h].slot = s]
Returns(h) == call' = [call EXCEPT ![h] = Idle]

\* The next slot of a scan, or what follows the scan.
ScanOn(h, pc, s, after) ==
  IF s < MaxContexts THEN Moves(h, pc, s + 1) ELSE after

\* MUTANT: an increment instead of a CAS on an even value.
TryClaimBlind(s) ==
  /\ generation[s] < 2 * MaxClaims
  /\ generation' = [generation EXCEPT ![s] = @ + 1]

TryClaim(s) ==
  /\ ~InUse(s)
  /\ generation[s] < 2 * MaxClaims
  /\ generation' = [generation EXCEPT ![s] = @ + 1]

ReleaseClaim(s) == generation' = [generation EXCEPT ![s] = @ + 1]

-----------------------------------------------------------------------------
(* createFFIContext, for a host or for the static context.                 *)

BeginCreate(h) ==
  /\ At(h, "idle")
  /\ Moves(h, "scan", 1)
  /\ UNCHANGED <<slots, static, held>>

CreateFails(h) ==
  /\ Returns(h)
  /\ staticState' = IF call[h].static THEN "None" ELSE staticState

SkipSlot(h) ==
  /\ At(h, "scan")
  /\ InUse(call[h].slot) \/ generation[call[h].slot] = 2 * MaxClaims
  /\ \/ /\ call[h].slot < MaxContexts
        /\ Moves(h, "scan", call[h].slot + 1)
        /\ UNCHANGED staticState
     \/ call[h].slot = MaxContexts /\ CreateFails(h)
  /\ UNCHANGED <<slots, staticCtx, held>>

ClaimSlot(h) ==
  /\ At(h, "scan")
  /\ TryClaim(call[h].slot)
  /\ Moves(h, "activate", call[h].slot)
  /\ UNCHANGED <<quarantined, initialized, threads, static, held>>

\* The context goes to the caller, or becomes the static one.
Hand(h, s) ==
  IF call[h].static
  THEN Moves(h, "publish", s) /\ UNCHANGED held
  ELSE Returns(h) /\ held' = [held EXCEPT ![h] = @ \union {s}]

\* markAsActive, and the threads only if they are not up.
Reuse(h) ==
  LET s == call[h].slot
  IN  /\ At(h, "activate")
      /\ initialized[s] /\ threadsUp[s]
      /\ quarantined' = [quarantined EXCEPT ![s] = FALSE]
      /\ Hand(h, s)
      /\ UNCHANGED <<generation, initialized, threads, static>>

StartThreads(h) ==
  LET s == call[h].slot
  IN  /\ At(h, "activate")
      /\ ~(initialized[s] /\ threadsUp[s])
      /\ quarantined' = [quarantined EXCEPT ![s] = FALSE]
      /\ initialized' = [initialized EXCEPT ![s] = TRUE]
      /\ threadsUp' = [threadsUp EXCEPT ![s] = TRUE]
      /\ pairs' = [pairs EXCEPT ![s] = @ + 1]
      /\ Hand(h, s)
      /\ UNCHANGED <<generation, leaked, gone, half, static>>

StartFails(h) ==
  LET s == call[h].slot
  IN  /\ Faults
      /\ At(h, "activate")
      /\ ~(initialized[s] /\ threadsUp[s])
      /\ quarantined' = [quarantined EXCEPT ![s] = FALSE]
      /\ ReleaseClaim(s)
      /\ CreateFails(h)
      /\ UNCHANGED <<initialized, threads, staticCtx, held>>

-----------------------------------------------------------------------------
(* staticFFIContext and destroyStaticFFIContext.                           *)

BeginStatic(h) ==
  /\ At(h, "idle")
  /\ staticState = "None"
  /\ staticState' = "Creating"
  /\ call' = [call EXCEPT ![h] = [pc |-> "scan", slot |-> 1, static |-> TRUE]]
  /\ UNCHANGED <<slots, staticCtx, held>>

PublishStatic(h) ==
  /\ At(h, "publish")
  /\ staticCtx' = call[h].slot
  /\ staticState' = "Ready"
  /\ Returns(h)
  /\ UNCHANGED <<slots, held>>

BeginDestroyStatic(h) ==
  /\ NimApi
  /\ At(h, "idle")
  /\ staticState = "Ready"
  /\ staticState' = "Destroying"
  /\ call' = [call EXCEPT ![h] = [pc |-> "join", slot |-> staticCtx, static |-> TRUE]]
  /\ UNCHANGED <<slots, staticCtx, held>>

\* releaseSlot first; the pointer and the state follow.
ReleaseStatic(h) ==
  /\ At(h, "releaseStatic")
  /\ quarantined' = [quarantined EXCEPT ![call[h].slot] = FALSE]
  /\ ReleaseClaim(call[h].slot)
  /\ Moves(h, "clearStatic", call[h].slot)
  /\ UNCHANGED <<initialized, threads, static, held>>

ClearStatic(h) ==
  /\ At(h, "clearStatic")
  /\ staticCtx' = NoSlot
  /\ staticState' = "None"
  /\ Returns(h)
  /\ UNCHANGED <<slots, held>>

-----------------------------------------------------------------------------
(* recycleFFIContext, then reapIfIdle.                                     *)

Loses(h, s) == held' = [held EXCEPT ![h] = @ \ {s}]

\* MUTANT: the quarantine of a slot is not looked at.
RecycleQuarantined(h, s) ==
  /\ At(h, "idle")
  /\ s \in held[h] /\ s # staticCtx
  /\ ReleaseClaim(s)
  /\ Loses(h, s)
  /\ Moves(h, "live", 1)
  /\ UNCHANGED <<quarantined, initialized, threads, static>>

\* The recycle completed: the FFI thread released the claim.
Recycle(h, s) ==
  /\ At(h, "idle")
  /\ s \in held[h] /\ ~quarantined[s] /\ s # staticCtx
  /\ ReleaseClaim(s)
  /\ Loses(h, s)
  /\ Moves(h, "live", 1)
  /\ UNCHANGED <<quarantined, initialized, threads, static>>

\* It did not: the slot is quarantined, and no reap follows an error.
RecycleFails(h, s) ==
  /\ Faults
  /\ At(h, "idle")
  /\ s \in held[h] /\ ~quarantined[s] /\ s # staticCtx
  /\ quarantined' = [quarantined EXCEPT ![s] = TRUE]
  /\ UNCHANGED <<generation, initialized, threads, static, call, held>>

\* hasLiveContext, slot by slot.
IsLive(s) == InUse(s) /\ s # staticCtx /\ ~quarantined[s]

FindsLive(h) ==
  /\ At(h, "live")
  /\ IsLive(call[h].slot)
  /\ Returns(h)
  /\ UNCHANGED <<slots, static, held>>

NotLive(h) ==
  /\ At(h, "live")
  /\ ~IsLive(call[h].slot)
  /\ ScanOn(h, "live", call[h].slot, Moves(h, "park", 1))
  /\ UNCHANGED <<slots, static, held>>

\* parkIdleSlots: the read of threadsUp and the claim are two steps.
SkipPark(h) ==
  /\ \/ At(h, "park") /\ ~threadsUp[call[h].slot]
     \/ /\ At(h, "parkClaim")
        /\ InUse(call[h].slot) \/ generation[call[h].slot] = 2 * MaxClaims
  /\ ScanOn(h, "park", call[h].slot, Returns(h))
  /\ UNCHANGED <<slots, static, held>>

SeesThreads(h) ==
  /\ At(h, "park")
  /\ threadsUp[call[h].slot]
  /\ Moves(h, "parkClaim", call[h].slot)
  /\ UNCHANGED <<slots, static, held>>

\* MUTANT: a look at the claim instead of taking it.
ParkUnclaimed(h) ==
  /\ At(h, "parkClaim")
  /\ ~InUse(call[h].slot)
  /\ Moves(h, "join", call[h].slot)
  /\ UNCHANGED <<slots, static, held>>

ClaimToPark(h) ==
  /\ At(h, "parkClaim")
  /\ TryClaim(call[h].slot)
  /\ Moves(h, "join", call[h].slot)
  /\ UNCHANGED <<quarantined, initialized, threads, static, held>>

\* parkSlotThreads: the pair exits in time, or did so late after another stop ...
Join(h) ==
  LET s == call[h].slot
  IN  /\ At(h, "join")
      /\ pairs[s] > 0 \/ s \in gone
      /\ pairs' = [pairs EXCEPT ![s] = 0]
      /\ threadsUp' = [threadsUp EXCEPT ![s] = FALSE]
      /\ leaked' = leaked \ {s}
      /\ gone' = gone \ {s}
      /\ Moves(h, IF call[h].static THEN "releaseStatic" ELSE "release", s)
      /\ UNCHANGED <<generation, quarantined, initialized, half, static, held>>

\* MUTANT: a slot whose threads did not exit goes back to the pool.
JoinTimeoutReleases(h) ==
  LET s == call[h].slot
  IN  /\ At(h, "join")
      /\ pairs[s] = 0 \/ Faults
      /\ threadsUp' = [threadsUp EXCEPT ![s] = FALSE]
      /\ Moves(h, IF call[h].static THEN "releaseStatic" ELSE "release", s)
      /\ UNCHANGED <<generation, quarantined, initialized, pairs, leaked, gone, half,
                     static, held>>

\* ... or an exit signal does not come: of the FFI thread, which may not run at all,
\* or of the event thread once the FFI thread is joined.
TimesOut(s) ==
  /\ leaked' = leaked \union {s}
  /\ \/ UNCHANGED <<pairs, half>>
     \/ /\ pairs[s] > 0
        /\ pairs' = [pairs EXCEPT ![s] = 0]
        /\ half' = half \union {s}

JoinTimesOut(h) ==
  LET s == call[h].slot
  IN  /\ At(h, "join")
      /\ s \notin gone
      /\ pairs[s] = 0 \/ Faults
      /\ TimesOut(s)
      /\ IF call[h].static
         THEN staticState' = "Ready" /\ Returns(h)
         ELSE ScanOn(h, "park", s, Returns(h)) /\ UNCHANGED staticState
      /\ UNCHANGED <<generation, quarantined, initialized, threadsUp, gone,
                     staticCtx, held>>

\* The stop is not taken back: the pair it was for exits when it can.
LateExit(s) ==
  /\ s \in leaked /\ pairs[s] > 0
  /\ pairs' = [pairs EXCEPT ![s] = 0]
  /\ gone' = gone \union {s}
  /\ UNCHANGED <<generation, quarantined, initialized, threadsUp, leaked, half,
                 static, call, held>>

Unclaim(h) ==
  /\ At(h, "release")
  /\ ReleaseClaim(call[h].slot)
  /\ ScanOn(h, "park", call[h].slot, Returns(h))
  /\ UNCHANGED <<quarantined, initialized, threads, static, held>>

-----------------------------------------------------------------------------
(* destroyFFIContext: join, free the resources, releaseSlot.               *)

DestroyFully(h, s) ==
  /\ NimApi
  /\ At(h, "idle")
  /\ s \in held[h] /\ s # staticCtx
  /\ pairs[s] > 0
  /\ pairs' = [pairs EXCEPT ![s] = 0]
  /\ threadsUp' = [threadsUp EXCEPT ![s] = FALSE]
  /\ initialized' = [initialized EXCEPT ![s] = FALSE]
  /\ quarantined' = [quarantined EXCEPT ![s] = FALSE]
  /\ ReleaseClaim(s)
  /\ Loses(h, s)
  /\ UNCHANGED <<leaked, gone, half, static, call>>

DestroyFullyFails(h, s) ==
  /\ NimApi /\ Faults
  /\ At(h, "idle")
  /\ s \in held[h] /\ s # staticCtx
  /\ TimesOut(s)
  /\ Loses(h, s)
  /\ UNCHANGED <<generation, quarantined, initialized, threadsUp, gone, static, call>>

Next ==
  \/ \E s \in Slots : LateExit(s)
  \/ \E h \in Hosts :
    \/ BeginCreate(h) \/ SkipSlot(h) \/ ClaimSlot(h)
    \/ Reuse(h) \/ StartThreads(h) \/ StartFails(h)
    \/ BeginStatic(h) \/ PublishStatic(h) \/ BeginDestroyStatic(h)
    \/ ReleaseStatic(h) \/ ClearStatic(h)
    \/ \E s \in Slots : Recycle(h, s) \/ RecycleFails(h, s)
                     \/ DestroyFully(h, s) \/ DestroyFullyFails(h, s)
    \/ FindsLive(h) \/ NotLive(h)
    \/ SkipPark(h) \/ SeesThreads(h) \/ ClaimToPark(h)
    \/ Join(h) \/ JoinTimesOut(h) \/ Unclaim(h)

Spec == Init /\ [][Next]_vars

-----------------------------------------------------------------------------
(* Properties.                                                             *)

StaticStates == {"None", "Creating", "Destroying", "Ready"}
CallPcs == {"idle", "scan", "activate", "publish", "releaseStatic", "clearStatic",
            "live", "park", "parkClaim", "join", "release"}

\* The pool's arrays, the static context's state machine and the callers.
TypeOK ==
  /\ generation \in [Slots -> 0 .. 2 * MaxClaims]
  /\ quarantined \in [Slots -> BOOLEAN]
  /\ initialized \in [Slots -> BOOLEAN]
  /\ threadsUp \in [Slots -> BOOLEAN]
  /\ pairs \in [Slots -> Nat]
  /\ staticCtx \in Slots \union {NoSlot}
  /\ staticState \in StaticStates
  /\ call \in [Hosts -> [pc : CallPcs, slot : Slots \union {NoSlot}, static : BOOLEAN]]
  /\ held \in [Hosts -> SUBSET Slots]
  /\ leaked \subseteq Slots /\ gone \subseteq Slots /\ half \subseteq Slots

\* The parties a claimed slot can belong to.
CallersOn(s) ==
  {h \in Hosts : call[h].slot = s /\ \/ call[h].pc \in {"activate", "publish"}
                                     \/ At(h, "join") /\ ~call[h].static
                                     \/ At(h, "release")}
HoldersOf(s) == {h \in Hosts : s \in held[h]}
StaticHolds(s) == s = staticCtx /\ ~\E h \in Hosts : At(h, "clearStatic")
Leaked(s) == s \in leaked /\ ~StaticHolds(s)

\* A claimed slot belongs to exactly one of: a create or a reap under way, a host,
\* the static context, the slots a failed join leaked; a free one to nobody.
OneOwner ==
  \A s \in Slots :
    Cardinality(CallersOn(s)) + Cardinality(HoldersOf(s))
      + (IF StaticHolds(s) THEN 1 ELSE 0) + (IF Leaked(s) THEN 1 ELSE 0)
      = generation[s] % 2

\* A context a host holds has its own pair of threads, whatever reaps, creates and
\* static teardowns ran beside it.  So does the Ready static context, unless a
\* destroyStaticFFIContext of its own told the pair to stop and gave up its wait.
HeldHasThreads ==
  /\ \A h \in Hosts : \A s \in held[h] : pairs[s] = 1 /\ threadsUp[s]
  /\ staticState = "Ready" => pairs[staticCtx] = 1 \/ staticCtx \in leaked

\* No pair of threads is started over one that still runs, in whole or by its event
\* thread alone.
NoSecondPair == \A s \in Slots : pairs[s] + (IF s \in half THEN 1 ELSE 0) <= 1

\* quarantinedSlots counts claimed slots only, each with the threads it leaks: a
\* slot back in the pool is never counted.
QuarantinedIsClaimed ==
  \A s \in Slots : quarantined[s] => InUse(s) /\ (HoldersOf(s) # {} \/ s \in leaked)

\* Each slot of the pool is the slot of SlotLifecycle, with requests left out: whatever
\* the hosts do to the others, it is claimed and released in turn, and what puts a
\* quarantined one back is the full destroy alone.
Slot(s) == INSTANCE SlotLifecycle WITH
  Requests <- {},
  Stoppable <- FALSE,
  Rebuildable <- NimApi,
  generation <- generation[s],
  quarantined <- quarantined[s],
  retired <- FALSE,
  answers <- {}

ImplementsSlots ==
  /\ \A s \in Slots : Slot(s)!Init
  /\ [][\A s \in Slots : [Slot(s)!Next]_(Slot(s)!vars)]_vars

\* "Once no context is live the pool joins that pair, so a host that destroys what
\* it created leaves no thread of the library running."
IdlePoolHasNoThreads ==
  (/\ \A h \in Hosts : At(h, "idle") /\ held[h] = {}
   /\ staticState = "None")
    => \A s \in Slots : pairs[s] = 0 /\ ~InUse(s)
=============================================================================
