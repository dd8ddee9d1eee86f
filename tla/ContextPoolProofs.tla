-------------------------- MODULE ContextPoolProofs --------------------------
(***************************************************************************)
(* Proofs about ContextPool, for any set of hosts, any number of slots and *)
(* any bound on claims, with and without faults: a claimed slot has one    *)
(* owner, a context handed out keeps its threads, no pair is started over  *)
(* another, and a quarantined slot stays out of the pool.                  *)
(***************************************************************************)
EXTENDS ContextPool, FiniteSetTheorems, TLAPS

USE DEF threads

-----------------------------------------------------------------------------
(* The inductive invariant.                                                *)

\* One of the callers that OneOwner counts for slot s.
CallerOn(h, s) ==
  /\ call[h].slot = s
  /\ \/ call[h].pc \in {"activate", "publish"}
     \/ At(h, "join") /\ ~call[h].static
     \/ At(h, "release")

\* A caller past its first step looks at a slot of the pool.
ScansSlots == \A h \in Hosts : call[h].pc # "idle" => call[h].slot \in Slots

\* One host at a time works on the static context, under the state that keeps the
\* others out; there is a static slot from its publication to its teardown.
StaticCalls ==
  /\ \A h \in Hosts : call[h].static =>
       \/ call[h].pc \in {"scan", "activate", "publish"} /\ staticState = "Creating"
       \/ /\ call[h].pc \in {"join", "releaseStatic", "clearStatic"}
          /\ staticState = "Destroying" /\ call[h].slot = staticCtx
  /\ \A h \in Hosts :
       call[h].pc \in {"publish", "releaseStatic", "clearStatic"} => call[h].static
  /\ \A h, i \in Hosts : call[h].static /\ call[i].static => h = i
  /\ staticCtx # NoSlot <=> staticState \in {"Ready", "Destroying"}

\* No two owners of one slot.
OwnersApart ==
  \A s \in Slots :
    /\ \A h, i \in Hosts : CallerOn(h, s) /\ CallerOn(i, s) => h = i
    /\ \A h, i \in Hosts : s \in held[h] /\ s \in held[i] => h = i
    /\ \A h, i \in Hosts : ~(CallerOn(h, s) /\ s \in held[i])
    /\ \A h \in Hosts :
         CallerOn(h, s) \/ s \in held[h] => ~StaticHolds(s) /\ ~Leaked(s)

\* A slot is claimed exactly while it has an owner.
ClaimedIsOwned ==
  \A s \in Slots :
    InUse(s) <=> \/ \E h \in Hosts : CallerOn(h, s) \/ s \in held[h]
                 \/ StaticHolds(s) \/ Leaked(s)

\* A slot's record says that its one pair runs, unless a stop was not answered in time:
\* then the slot is leaked, and its pair may be gone, joined but for the event thread,
\* or still to exit.  Threads run on built resources.
ThreadsRecorded ==
  \A s \in Slots :
    /\ pairs[s] \in {0, 1}
    /\ pairs[s] = 1 => threadsUp[s] /\ s \notin gone /\ s \notin half
    /\ threadsUp[s] /\ s \notin leaked => pairs[s] = 1
    /\ threadsUp[s] => initialized[s]
    /\ s \in gone => s \in leaked /\ threadsUp[s] /\ s \notin half
    /\ s \in half => s \in leaked

\* The record of every context that was handed out says that threads serve it, until
\* somebody joins them; a static teardown that joined them leaked nothing.
ContextsUp ==
  /\ \A h \in Hosts : \A s \in held[h] : threadsUp[s]
  /\ staticState = "Ready" => threadsUp[staticCtx]
  /\ \A h \in Hosts :
       /\ At(h, "publish") => threadsUp[call[h].slot]
       /\ At(h, "join") /\ call[h].static => threadsUp[call[h].slot]
       /\ At(h, "releaseStatic") => call[h].slot \notin leaked

\* Who has to answer for a quarantined slot.
QuarantinedIsOwned ==
  \A s \in Slots : quarantined[s] => (\E h \in Hosts : s \in held[h]) \/ Leaked(s)

IInv ==
  /\ TypeOK /\ ScansSlots /\ StaticCalls
  /\ OwnersApart /\ ClaimedIsOwned
  /\ ThreadsRecorded /\ ContextsUp /\ QuarantinedIsOwned

-----------------------------------------------------------------------------
(* A claim and a release flip the parity of one slot's generation.         *)

LEMMA Parity ==
  ASSUME NEW n \in Nat
  PROVE  /\ n % 2 \in {0, 1}
         /\ (n + 1) % 2 = 1 - (n % 2)
  BY SMTT(30)

\* tryClaim takes a slot that is in nobody's use, and that one only.
LEMMA ClaimTakes ==
  ASSUME TypeOK, NEW s \in Slots, TryClaim(s)
  PROVE  /\ ~InUse(s) /\ InUse(s)'
         /\ \A t \in Slots : t # s => (InUse(t)' <=> InUse(t))
         /\ generation' \in [Slots -> 0 .. 2 * MaxClaims]
  <1>1. generation[s] \in Nat /\ generation' = [generation EXCEPT ![s] = @ + 1]
    BY MaxClaimsAssumption DEF TypeOK, TryClaim
  <1>2. generation' \in [Slots -> 0 .. 2 * MaxClaims]
    BY <1>1, MaxClaimsAssumption DEF TypeOK, TryClaim
  <1>3. \A t \in Slots : t # s => generation'[t] = generation[t]
    BY <1>1 DEF TypeOK
  <1>4. generation'[s] = generation[s] + 1
    BY <1>1 DEF TypeOK
  <1> QED
    BY <1>1, <1>2, <1>3, <1>4, Parity DEF TryClaim, InUse

\* The release of a claimed slot frees it, and no other.
LEMMA ReleaseFrees ==
  ASSUME TypeOK, NEW s \in Slots, InUse(s), ReleaseClaim(s)
  PROVE  /\ ~InUse(s)'
         /\ \A t \in Slots : t # s => (InUse(t)' <=> InUse(t))
         /\ generation' \in [Slots -> 0 .. 2 * MaxClaims]
  <1>1. generation[s] \in Nat /\ generation' = [generation EXCEPT ![s] = @ + 1]
    BY MaxClaimsAssumption DEF TypeOK, ReleaseClaim
  <1>2. generation[s] # 2 * MaxClaims
    <2>1. (2 * MaxClaims) % 2 = 0
      BY MaxClaimsAssumption, SMTT(30)
    <2> QED
      BY <2>1 DEF InUse
  <1>3. generation' \in [Slots -> 0 .. 2 * MaxClaims]
    <2>1. generation[s] + 1 \in 0 .. 2 * MaxClaims
      BY <1>2, MaxClaimsAssumption DEF TypeOK
    <2> QED
      BY <1>1, <2>1 DEF TypeOK
  <1>4. \A t \in Slots : t # s => generation'[t] = generation[t]
    BY <1>1 DEF TypeOK
  <1>5. generation'[s] = generation[s] + 1
    BY <1>1 DEF TypeOK
  <1> QED
    BY <1>1, <1>3, <1>4, <1>5, Parity DEF InUse

LEMMA SameClaims ==
  ASSUME UNCHANGED generation, NEW s \in Slots
  PROVE  InUse(s)' <=> InUse(s)
  BY DEF InUse

-----------------------------------------------------------------------------
(* What a caller's step does to its place.                                 *)

Calls == [pc : CallPcs, slot : Slots \union {NoSlot}, static : BOOLEAN]

\* Host h goes on at p, with slot s; the other hosts stay.
Goes(h, p, s, st) ==
  /\ call' \in [Hosts -> Calls]
  /\ call'[h].pc = p /\ call'[h].slot = s /\ call'[h].static = st
  /\ \A i \in Hosts : i # h => call'[i] = call[i]

LEMMA MovesTo ==
  ASSUME TypeOK, NEW h \in Hosts, NEW p \in CallPcs, NEW s \in Slots, Moves(h, p, s)
  PROVE  Goes(h, p, s, call[h].static)
  <1>1. call \in [Hosts -> Calls] /\ call[h] \in Calls
    BY DEF TypeOK, Calls
  <1> QED
    BY <1>1 DEF Moves, Calls, Goes

LEMMA ReturnsTo ==
  ASSUME TypeOK, NEW h \in Hosts, Returns(h)
  PROVE  Goes(h, "idle", NoSlot, FALSE)
  <1>1. Idle \in Calls /\ Idle.pc = "idle" /\ Idle.slot = NoSlot /\ Idle.static = FALSE
    BY DEF Idle, Calls, CallPcs
  <1> QED
    BY <1>1 DEF Returns, TypeOK, Calls, Goes

LEMMA IdleIsCall == Idle \in Calls
  BY DEF Idle, Calls, CallPcs

LEMMA CallersTyped ==
  ASSUME TypeOK, NEW h \in Hosts
  PROVE  call[h].pc \in CallPcs /\ call[h].static \in BOOLEAN
  <1>1. call[h] \in Calls
    BY DEF TypeOK, Calls
  <1> QED
    BY <1>1 DEF Calls

-----------------------------------------------------------------------------
(* The owners of a slot.                                                   *)

\* What the parts of the invariant say of a slot whose owners do not change.
SameOwners(s) ==
  /\ InUse(s)' <=> InUse(s)
  /\ \A i \in Hosts : /\ CallerOn(i, s)' <=> CallerOn(i, s)
                      /\ s \in held'[i] <=> s \in held[i]
  /\ StaticHolds(s)' <=> StaticHolds(s)
  /\ Leaked(s)' <=> Leaked(s)

\* The owners of slot s and its claim agree.
OwnedAlone(s) ==
  /\ \A h, i \in Hosts : CallerOn(h, s) /\ CallerOn(i, s) => h = i
  /\ \A h, i \in Hosts : s \in held[h] /\ s \in held[i] => h = i
  /\ \A h, i \in Hosts : ~(CallerOn(h, s) /\ s \in held[i])
  /\ \A h \in Hosts : CallerOn(h, s) \/ s \in held[h] => ~StaticHolds(s) /\ ~Leaked(s)
  /\ InUse(s) <=> \/ \E h \in Hosts : CallerOn(h, s) \/ s \in held[h]
                  \/ StaticHolds(s) \/ Leaked(s)

\* It is enough to look at the slot whose owners change.
LEMMA OneSlotMoves ==
  ASSUME OwnersApart, ClaimedIsOwned, NEW s,
         \A t \in Slots : t # s => SameOwners(t),
         s \in Slots => OwnedAlone(s)'
  PROVE  OwnersApart' /\ ClaimedIsOwned'
  <1> SUFFICES ASSUME NEW t \in Slots PROVE OwnedAlone(t)'
    BY DEF OwnersApart, ClaimedIsOwned, OwnedAlone
  <1>1. OwnedAlone(t)
    BY DEF OwnersApart, ClaimedIsOwned, OwnedAlone
  <1>2. CASE t = s
    BY <1>2
  <1>3. CASE t # s
    BY <1>1, <1>3 DEF SameOwners, OwnedAlone
  <1> QED
    BY <1>2, <1>3

LEMMA OneSlot ==
  ASSUME OwnersApart, ClaimedIsOwned, NEW s \in Slots
  PROVE  OwnedAlone(s)
  BY DEF OwnersApart, ClaimedIsOwned, OwnedAlone

-----------------------------------------------------------------------------
(* The steps that only look at the pool's arrays: a scan goes on or ends.  *)

Looks(h) ==
  \/ BeginCreate(h) \/ SkipSlot(h) \/ FindsLive(h) \/ NotLive(h)
  \/ SkipPark(h) \/ SeesThreads(h) \/ BeginStatic(h)

\* Places that own nothing.
Looking == {"idle", "scan", "live", "park", "parkClaim"}

LEMMA LooksOnly ==
  ASSUME TypeOK, ScansSlots, StaticCalls, NEW h \in Hosts, Looks(h)
  PROVE  /\ UNCHANGED <<slots, staticCtx, held>>
         /\ call[h].pc \in Looking
         /\ Goes(h, call'[h].pc, call'[h].slot, call'[h].static)
         /\ call'[h].pc \in Looking /\ (call'[h].pc # "idle" => call'[h].slot \in Slots)
         /\ \/ UNCHANGED staticState /\ call'[h].static = call[h].static
               /\ (call'[h].static => call'[h].pc = "scan")
            \/ call[h].static /\ ~call'[h].static /\ staticState' = "None"
            \/ /\ staticState = "None" /\ staticState' = "Creating"
               /\ call'[h].pc = "scan" /\ call'[h].static
  <1>t. /\ 1 \in Slots /\ \A s \in Slots : s < MaxContexts => s + 1 \in Slots
        /\ call[h].static \in BOOLEAN
        /\ call[h].pc # "idle" => call[h].slot \in Slots
        /\ call[h].pc \in {"idle", "live", "park", "parkClaim"} => call[h].static = FALSE
    BY CallersTyped, MaxContextsAssumption DEF ScansSlots, StaticCalls, Slots
  <1>m. ASSUME NEW p \in {"scan", "live", "park", "parkClaim"}, NEW s \in Slots, Moves(h, p, s)
        PROVE  Goes(h, p, s, call[h].static)
    BY <1>m, MovesTo DEF CallPcs
  <1>r. Returns(h) => Goes(h, "idle", NoSlot, FALSE)
    BY ReturnsTo
  <1> USE DEF At, Looking, Goes
  <1>1. CASE BeginCreate(h)
    BY <1>1, <1>t, <1>m DEF BeginCreate, static
  <1>2. CASE SkipSlot(h)
    <2>1. CASE call[h].slot < MaxContexts /\ Moves(h, "scan", call[h].slot + 1)
               /\ UNCHANGED staticState
      BY <1>2, <2>1, <1>t, <1>m DEF SkipSlot
    <2>2. CASE CreateFails(h)
      BY <1>2, <2>2, <1>t, <1>r DEF SkipSlot, CreateFails
    <2> QED
      BY <1>2, <2>1, <2>2 DEF SkipSlot
  <1>3. CASE FindsLive(h)
    BY <1>3, <1>t, <1>r DEF FindsLive, static
  <1>4. CASE NotLive(h)
    <2>1. CASE call[h].slot < MaxContexts
      BY <1>4, <2>1, <1>t, <1>m DEF NotLive, ScanOn, static
    <2>2. CASE ~(call[h].slot < MaxContexts)
      BY <1>4, <2>2, <1>t, <1>m DEF NotLive, ScanOn, static
    <2> QED
      BY <2>1, <2>2
  <1>5. CASE SkipPark(h)
    <2>1. CASE call[h].slot < MaxContexts
      BY <1>5, <2>1, <1>t, <1>m DEF SkipPark, ScanOn, static
    <2>2. CASE ~(call[h].slot < MaxContexts)
      BY <1>5, <2>2, <1>t, <1>r DEF SkipPark, ScanOn, static
    <2> QED
      BY <2>1, <2>2
  <1>6. CASE SeesThreads(h)
    BY <1>6, <1>t, <1>m DEF SeesThreads, static
  <1>7. CASE BeginStatic(h)
    <2> DEFINE c == [pc |-> "scan", slot |-> 1, static |-> TRUE]
    <2>1. c \in Calls /\ c.pc = "scan" /\ c.slot = 1 /\ c.static = TRUE
      BY <1>t DEF Calls, CallPcs
    <2>2. call' = [call EXCEPT ![h] = c] /\ call \in [Hosts -> Calls]
      BY <1>7 DEF BeginStatic, TypeOK, Calls
    <2> HIDE DEF c
    <2> QED
      BY <1>7, <1>t, <2>1, <2>2 DEF BeginStatic
  <1> QED
    BY <1>1, <1>2, <1>3, <1>4, <1>5, <1>6, <1>7 DEF Looks

LEMMA LooksKeep ==
  ASSUME IInv, NEW h \in Hosts, Looks(h)
  PROVE  IInv'
  <1> USE DEF IInv
  <1>1. /\ UNCHANGED <<slots, staticCtx, held>>
        /\ call[h].pc \in Looking
        /\ Goes(h, call'[h].pc, call'[h].slot, call'[h].static)
        /\ call'[h].pc \in Looking /\ (call'[h].pc # "idle" => call'[h].slot \in Slots)
        /\ \/ UNCHANGED staticState /\ call'[h].static = call[h].static
              /\ (call'[h].static => call'[h].pc = "scan")
           \/ call[h].static /\ ~call'[h].static /\ staticState' = "None"
           \/ /\ staticState = "None" /\ staticState' = "Creating"
              /\ call'[h].pc = "scan" /\ call'[h].static
    BY LooksOnly
  <1>2. TypeOK' /\ ScansSlots'
    BY <1>1 DEF TypeOK, Calls, StaticStates, slots, ScansSlots, Goes
  <1>3. StaticCalls'
    BY <1>1 DEF StaticCalls, slots, Looking, Goes
  <1>4. \A s \in Slots : SameOwners(s)
    BY <1>1, SameClaims
       DEF SameOwners, slots, CallerOn, StaticHolds, Leaked, Looking, At, Goes
  <1>5. OwnersApart' /\ ClaimedIsOwned' /\ QuarantinedIsOwned' /\ ThreadsRecorded'
    BY <1>1, <1>4 DEF SameOwners, OwnersApart, ClaimedIsOwned, QuarantinedIsOwned,
                      ThreadsRecorded, slots
  <1>6. ContextsUp'
    BY <1>1 DEF ContextsUp, slots, Looking, At, Goes
  <1> QED
    BY <1>2, <1>3, <1>5, <1>6

-----------------------------------------------------------------------------
(* The steps that change who owns a slot.                                  *)

\* A create or a reap claims a slot that has no owner and becomes its owner.
LEMMA ClaimsKeep ==
  ASSUME IInv, NEW h \in Hosts, ClaimSlot(h) \/ ClaimToPark(h)
  PROVE  IInv'
  <1> USE DEF IInv
  <1>1. /\ TryClaim(call[h].slot) /\ call[h].slot \in Slots
        /\ UNCHANGED <<quarantined, initialized, threads, static, held>>
        /\ \/ At(h, "scan") /\ Moves(h, "activate", call[h].slot)
           \/ At(h, "parkClaim") /\ ~call[h].static /\ Moves(h, "join", call[h].slot)
    BY DEF ClaimSlot, ClaimToPark, ScansSlots, At, StaticCalls
  <1>s. PICK s \in Slots : s = call[h].slot
    BY <1>1
  <1>2. /\ Goes(h, call'[h].pc, s, call[h].static)
        /\ call'[h].pc \in {"activate", "join"}
        /\ call'[h].pc = "join" => At(h, "parkClaim") /\ ~call[h].static
        /\ call'[h].pc = "activate" => At(h, "scan")
    <2>1. "activate" \in CallPcs /\ "join" \in CallPcs
      BY DEF CallPcs
    <2>2. CASE At(h, "scan") /\ Moves(h, "activate", call[h].slot)
      BY <1>s, <2>1, <2>2, MovesTo DEF Goes
    <2>3. CASE At(h, "parkClaim") /\ ~call[h].static /\ Moves(h, "join", call[h].slot)
      BY <1>s, <2>1, <2>3, MovesTo DEF Goes
    <2> QED
      BY <1>1, <2>2, <2>3
  <1>5. /\ ~InUse(s) /\ InUse(s)'
        /\ \A t \in Slots : t # s => (InUse(t)' <=> InUse(t))
        /\ generation' \in [Slots -> 0 .. 2 * MaxClaims]
    BY <1>1, <1>s, ClaimTakes
  <1>6. TypeOK' /\ ScansSlots'
    BY <1>1, <1>2, <1>5 DEF TypeOK, Calls, static, ScansSlots, Goes
  <1>7. StaticCalls'
    BY <1>1, <1>2 DEF StaticCalls, static, At, Goes
  <1>8. \A t \in Slots : t # s => SameOwners(t)
    BY <1>1, <1>2, <1>5
       DEF SameOwners, CallerOn, StaticHolds, Leaked, static, At, Goes
  <1>9. OwnedAlone(s)
    BY <1>1, OneSlot
  <1>10. /\ \A i \in Hosts : CallerOn(i, s)' <=> i = h
         /\ \A i \in Hosts : s \notin held'[i]
         /\ ~StaticHolds(s)' /\ ~Leaked(s)'
    BY <1>1, <1>2, <1>5, <1>9
       DEF OwnedAlone, CallerOn, StaticHolds, Leaked, static, At, Goes
  <1>11. OwnedAlone(s)'
    BY <1>5, <1>10 DEF OwnedAlone
  <1>12. OwnersApart' /\ ClaimedIsOwned'
    BY <1>8, <1>11, OneSlotMoves
  <1>13. ThreadsRecorded'
    BY <1>1 DEF ThreadsRecorded
  <1>14. ContextsUp'
    BY <1>1, <1>2 DEF ContextsUp, static, At, Goes
  <1>15. QuarantinedIsOwned'
    BY <1>1, <1>5, <1>8, <1>9 DEF QuarantinedIsOwned, SameOwners, OwnedAlone
  <1> QED
    BY <1>6, <1>7, <1>12, <1>13, <1>14, <1>15

\* A create that owns a slot with its threads hands it to its host, or to the
\* publication of the static context: a slot's one owner gives way to another.
LEMMA HandsKeep ==
  ASSUME IInv, NEW h \in Hosts, Reuse(h) \/ StartThreads(h)
  PROVE  IInv'
  <1> USE DEF IInv
  <1>s. PICK s \in Slots : s = call[h].slot
    BY DEF Reuse, StartThreads, At, ScansSlots
  <1>1. /\ At(h, "activate") /\ Hand(h, s)
        /\ quarantined' = [quarantined EXCEPT ![s] = FALSE]
        /\ UNCHANGED <<generation, leaked, gone, half, static>>
        /\ \/ /\ initialized[s] /\ threadsUp[s]
              /\ UNCHANGED <<initialized, threadsUp, pairs>>
           \/ /\ ~(initialized[s] /\ threadsUp[s])
              /\ initialized' = [initialized EXCEPT ![s] = TRUE]
              /\ threadsUp' = [threadsUp EXCEPT ![s] = TRUE]
              /\ pairs' = [pairs EXCEPT ![s] = @ + 1]
    BY <1>s DEF Reuse, StartThreads
  <1>t. /\ quarantined' \in [Slots -> BOOLEAN] /\ initialized' \in [Slots -> BOOLEAN]
        /\ threadsUp' \in [Slots -> BOOLEAN]
        /\ threadsUp'[s] /\ \A t \in Slots : threadsUp[t] => threadsUp'[t]
        /\ \A t \in Slots : quarantined'[t] => quarantined[t]
    BY <1>1 DEF TypeOK
  <1>o. OwnedAlone(s) /\ CallerOn(h, s)
    BY <1>s, <1>1, OneSlot DEF CallerOn, At
  <1>p. pairs' \in [Slots -> Nat] /\ ThreadsRecorded'
    <2>1. s \notin leaked
      BY <1>o DEF OwnedAlone, Leaked
    <2> QED
      BY <1>1, <2>1 DEF TypeOK, ThreadsRecorded
  <1>c. staticState = "Ready" => staticCtx \in Slots
    BY DEF StaticCalls, TypeOK
  <1>2. CASE call[h].static
    <2>1. Goes(h, "publish", s, call[h].static) /\ UNCHANGED held
      <3>1. "publish" \in CallPcs
        BY DEF CallPcs
      <3> QED
        BY <1>1, <1>2, <3>1, MovesTo DEF Hand
    <2>2. TypeOK' /\ ScansSlots'
      BY <1>1, <1>t, <1>p, <2>1 DEF TypeOK, Calls, static, ScansSlots, Goes
    <2>3. StaticCalls'
      BY <1>1, <1>2, <2>1 DEF StaticCalls, static, At, Goes
    <2>4. \A t \in Slots : SameOwners(t)
      BY <1>1, <1>s, <2>1, SameClaims
         DEF SameOwners, CallerOn, StaticHolds, Leaked, static, At, Goes
    <2>5. OwnersApart' /\ ClaimedIsOwned'
      BY <2>4 DEF SameOwners, OwnersApart, ClaimedIsOwned
    <2>7. ContextsUp'
      <3>1. \A i \in Hosts : \A t \in held'[i] : threadsUp'[t]
        BY <1>t, <2>1 DEF ContextsUp, TypeOK
      <3>2. staticState' = "Ready" => threadsUp'[staticCtx']
        BY <1>1, <1>t, <1>c DEF ContextsUp, static
      <3>3. ASSUME NEW i \in Hosts
            PROVE  /\ At(i, "publish")' => threadsUp'[call'[i].slot]
                   /\ At(i, "join")' /\ call'[i].static => threadsUp'[call'[i].slot]
                   /\ At(i, "releaseStatic")' => call'[i].slot \notin leaked'
        BY <1>1, <1>t, <2>1 DEF ContextsUp, At, Goes, ScansSlots
      <3> QED
        BY <3>1, <3>2, <3>3 DEF ContextsUp
    <2>8. QuarantinedIsOwned'
      BY <1>1, <1>t, <2>1, <2>4 DEF QuarantinedIsOwned, SameOwners, TypeOK
    <2> QED
      BY <1>p, <2>2, <2>3, <2>5, <2>7, <2>8
  <1>3. CASE ~call[h].static
    <2>1. Goes(h, "idle", NoSlot, FALSE) /\ held' = [held EXCEPT ![h] = @ \union {s}]
      BY <1>1, <1>3, ReturnsTo DEF Hand
    <2>2. TypeOK' /\ ScansSlots'
      BY <1>1, <1>t, <1>p, <2>1 DEF TypeOK, Calls, static, ScansSlots, Goes
    <2>3. StaticCalls'
      BY <1>1, <1>3, <2>1 DEF StaticCalls, static, At, Goes
    <2>4. \A t \in Slots : t # s => SameOwners(t)
      <3>1. \A i \in Hosts, t \in Slots : t # s => (t \in held'[i] <=> t \in held[i])
        BY <2>1 DEF TypeOK
      <3>2. \A t \in Slots : StaticHolds(t)' <=> StaticHolds(t)
        BY <1>1, <2>1 DEF StaticHolds, static, At, Goes
      <3> QED
        BY <1>1, <1>s, <2>1, <3>1, <3>2, SameClaims
           DEF SameOwners, CallerOn, Leaked, At, Goes
    <2>5. OwnedAlone(s) /\ CallerOn(h, s)
      BY <1>o
    <2>6. /\ InUse(s)' /\ \A i \in Hosts : ~CallerOn(i, s)' /\ (s \in held'[i] <=> i = h)
          /\ ~StaticHolds(s)' /\ ~Leaked(s)'
      <3>1. InUse(s)'
        BY <1>1, <2>5, SameClaims DEF OwnedAlone
      <3>2. \A i \in Hosts : ~CallerOn(i, s)'
        BY <2>1, <2>5 DEF OwnedAlone, CallerOn, Goes, At
      <3>3. \A i \in Hosts : s \in held'[i] <=> i = h
        BY <2>1, <2>5 DEF OwnedAlone, TypeOK
      <3>4. ~StaticHolds(s)' /\ ~Leaked(s)'
        BY <1>1, <2>1, <2>5 DEF OwnedAlone, StaticHolds, Leaked, static, At, Goes
      <3> QED
        BY <3>1, <3>2, <3>3, <3>4
    <2>7. OwnersApart' /\ ClaimedIsOwned'
      <3>1. OwnedAlone(s)'
        BY <2>6 DEF OwnedAlone
      <3> QED
        BY <2>4, <3>1, OneSlotMoves
    <2>9. ContextsUp'
      <3>1. \A t \in Slots, i \in Hosts : t \in held'[i] => t \in held[i] \/ t = s
        BY <2>1 DEF TypeOK
      <3>2. \A i \in Hosts : \A t \in held'[i] : threadsUp'[t]
        BY <1>t, <2>1, <3>1 DEF ContextsUp, TypeOK
      <3>3. staticState' = "Ready" => threadsUp'[staticCtx']
        BY <1>1, <1>t, <1>c DEF ContextsUp, static
      <3>4. ASSUME NEW i \in Hosts
            PROVE  /\ At(i, "publish")' => threadsUp'[call'[i].slot]
                   /\ At(i, "join")' /\ call'[i].static => threadsUp'[call'[i].slot]
                   /\ At(i, "releaseStatic")' => call'[i].slot \notin leaked'
        BY <1>1, <1>t, <2>1 DEF ContextsUp, At, Goes, ScansSlots
      <3> QED
        BY <3>2, <3>3, <3>4 DEF ContextsUp
    <2>10. QuarantinedIsOwned'
      BY <1>1, <1>t, <2>1, <2>4 DEF QuarantinedIsOwned, SameOwners, TypeOK
    <2> QED
      BY <1>p, <2>2, <2>3, <2>7, <2>9, <2>10
  <1> QED
    BY <1>2, <1>3

\* The threads did not start: the create gives its claim back.
LEMMA StartFailsKeeps ==
  ASSUME IInv, NEW h \in Hosts, StartFails(h)
  PROVE  IInv'
  <1> USE DEF IInv
  <1>s. PICK s \in Slots : s = call[h].slot
    BY DEF StartFails, At, ScansSlots
  <1>1. /\ At(h, "activate") /\ ReleaseClaim(s)
        /\ quarantined' = [quarantined EXCEPT ![s] = FALSE]
        /\ UNCHANGED <<initialized, threads, staticCtx, held>>
        /\ staticState' = IF call[h].static THEN "None" ELSE staticState
    BY <1>s DEF StartFails, CreateFails
  <1>2. Goes(h, "idle", NoSlot, FALSE)
    BY ReturnsTo DEF StartFails, CreateFails
  <1>3. OwnedAlone(s) /\ CallerOn(h, s)
    BY <1>s, <1>1, OneSlot DEF CallerOn, At
  <1>4. /\ InUse(s) /\ ~InUse(s)'
        /\ \A t \in Slots : t # s => (InUse(t)' <=> InUse(t))
        /\ generation' \in [Slots -> 0 .. 2 * MaxClaims]
    <2>1. InUse(s)
      BY <1>3 DEF OwnedAlone
    <2> QED
      BY <1>1, <2>1, ReleaseFrees
  <1>5. TypeOK' /\ ScansSlots'
    BY <1>1, <1>2, <1>4 DEF TypeOK, StaticStates, Calls, ScansSlots, Goes
  <1>6. StaticCalls'
    BY <1>1, <1>2 DEF StaticCalls, At, Goes
  <1>7. \A t \in Slots : t # s => SameOwners(t)
    BY <1>1, <1>s, <1>2, <1>4 DEF SameOwners, CallerOn, StaticHolds, Leaked, At, Goes
  <1>8. /\ \A i \in Hosts : ~CallerOn(i, s)' /\ s \notin held'[i]
        /\ ~StaticHolds(s)' /\ ~Leaked(s)'
    BY <1>1, <1>2, <1>3 DEF OwnedAlone, CallerOn, StaticHolds, Leaked, At, Goes
  <1>9. OwnersApart' /\ ClaimedIsOwned'
    <2>1. OwnedAlone(s)'
      BY <1>4, <1>8 DEF OwnedAlone
    <2> QED
      BY <1>7, <2>1, OneSlotMoves
  <1>10. ThreadsRecorded'
    BY <1>1 DEF ThreadsRecorded
  <1>11. ContextsUp'
    BY <1>1, <1>2 DEF ContextsUp, At, Goes
  <1>12. QuarantinedIsOwned'
    BY <1>1, <1>7 DEF QuarantinedIsOwned, SameOwners, TypeOK
  <1> QED
    BY <1>5, <1>6, <1>9, <1>10, <1>11, <1>12

\* The static context is published: its creator gives way to the static record.
LEMMA PublishKeeps ==
  ASSUME IInv, NEW h \in Hosts, PublishStatic(h)
  PROVE  IInv'
  <1> USE DEF IInv
  <1>s. PICK s \in Slots : s = call[h].slot
    BY DEF PublishStatic, At, ScansSlots
  <1>1. /\ At(h, "publish") /\ UNCHANGED <<slots, held>>
        /\ staticCtx' = s /\ staticState' = "Ready"
        /\ Goes(h, "idle", NoSlot, FALSE)
    BY <1>s, ReturnsTo DEF PublishStatic
  <1>2. /\ call[h].static /\ staticCtx = NoSlot /\ staticState = "Creating"
        /\ \A i \in Hosts : i # h => ~call[i].static
        /\ \A i \in Hosts : ~At(i, "clearStatic")
    BY <1>1 DEF StaticCalls, At
  <1>3. TypeOK' /\ ScansSlots'
    BY <1>1 DEF TypeOK, StaticStates, Calls, ScansSlots, Goes, slots
  <1>4. StaticCalls'
    BY <1>1, <1>2 DEF StaticCalls, At, Goes, NoSlot, Slots
  <1>5. \A i \in Hosts : ~At(i, "clearStatic")'
    BY <1>1, <1>2 DEF At, Goes
  <1>6. \A t \in Slots : t # s => SameOwners(t)
    BY <1>1, <1>s, <1>2, <1>5, SameClaims
       DEF SameOwners, CallerOn, StaticHolds, Leaked, At, Goes, slots, NoSlot, Slots
  <1>7. OwnedAlone(s) /\ CallerOn(h, s)
    BY <1>s, <1>1, OneSlot DEF CallerOn, At
  <1>8. /\ InUse(s)' /\ \A i \in Hosts : ~CallerOn(i, s)' /\ s \notin held'[i]
        /\ StaticHolds(s)' /\ ~Leaked(s)'
    <2>1. InUse(s)'
      BY <1>1, <1>7, SameClaims DEF OwnedAlone, slots
    <2>2. \A i \in Hosts : ~CallerOn(i, s)' /\ s \notin held'[i]
      BY <1>1, <1>7 DEF OwnedAlone, CallerOn, Goes, At
    <2>3. StaticHolds(s)' /\ ~Leaked(s)'
      BY <1>1, <1>5 DEF StaticHolds, Leaked
    <2> QED
      BY <2>1, <2>2, <2>3
  <1>9. OwnersApart' /\ ClaimedIsOwned'
    <2>1. OwnedAlone(s)'
      BY <1>8 DEF OwnedAlone
    <2> QED
      BY <1>6, <2>1, OneSlotMoves
  <1>10. ThreadsRecorded'
    BY <1>1 DEF ThreadsRecorded, slots
  <1>11. ContextsUp'
    BY <1>1, <1>2, <1>s DEF ContextsUp, At, Goes, slots
  <1>12. QuarantinedIsOwned'
    BY <1>1, <1>6, <1>7 DEF QuarantinedIsOwned, SameOwners, OwnedAlone, slots
  <1> QED
    BY <1>3, <1>4, <1>9, <1>10, <1>11, <1>12

\* A static teardown starts: the static record keeps its slot.
LEMMA BeginDestroyStaticKeeps ==
  ASSUME IInv, NEW h \in Hosts, BeginDestroyStatic(h)
  PROVE  IInv'
  <1> USE DEF IInv
  <1>1. /\ At(h, "idle") /\ UNCHANGED <<slots, staticCtx, held>>
        /\ staticState = "Ready" /\ staticState' = "Destroying"
        /\ staticCtx \in Slots
        /\ \A i \in Hosts : ~call[i].static
    BY DEF BeginDestroyStatic, StaticCalls, TypeOK
  <1>2. Goes(h, "join", staticCtx, TRUE)
    <2> DEFINE c == [pc |-> "join", slot |-> staticCtx, static |-> TRUE]
    <2>1. c \in Calls /\ c.pc = "join" /\ c.slot = staticCtx /\ c.static = TRUE
      BY <1>1 DEF Calls, CallPcs
    <2>2. call' = [call EXCEPT ![h] = c] /\ call \in [Hosts -> Calls]
      BY DEF BeginDestroyStatic, TypeOK, Calls
    <2> HIDE DEF c
    <2> QED
      BY <2>1, <2>2 DEF Goes
  <1>3. TypeOK' /\ ScansSlots'
    BY <1>1, <1>2 DEF TypeOK, StaticStates, Calls, ScansSlots, Goes, slots
  <1>4. StaticCalls'
    BY <1>1, <1>2 DEF StaticCalls, At, Goes
  <1>5. \A t \in Slots : SameOwners(t)
    BY <1>1, <1>2, SameClaims
       DEF SameOwners, CallerOn, StaticHolds, Leaked, At, Goes, slots
  <1>6. OwnersApart' /\ ClaimedIsOwned' /\ QuarantinedIsOwned' /\ ThreadsRecorded'
    BY <1>1, <1>5 DEF SameOwners, OwnersApart, ClaimedIsOwned, QuarantinedIsOwned,
                      ThreadsRecorded, slots
  <1>7. ContextsUp'
    BY <1>1, <1>2 DEF ContextsUp, At, Goes, slots
  <1> QED
    BY <1>3, <1>4, <1>6, <1>7

\* releaseSlot of the static context: its slot is free before its record is cleared.
LEMMA ReleaseStaticKeeps ==
  ASSUME IInv, NEW h \in Hosts, ReleaseStatic(h)
  PROVE  IInv'
  <1> USE DEF IInv
  <1>s. PICK s \in Slots : s = call[h].slot
    BY DEF ReleaseStatic, At, ScansSlots
  <1>1. /\ At(h, "releaseStatic") /\ ReleaseClaim(s)
        /\ quarantined' = [quarantined EXCEPT ![s] = FALSE]
        /\ UNCHANGED <<initialized, threads, static, held>>
    BY <1>s DEF ReleaseStatic
  <1>2. /\ call[h].static /\ staticCtx = s /\ staticState = "Destroying" /\ s \notin leaked
        /\ \A i \in Hosts : i # h => ~call[i].static
        /\ \A i \in Hosts : ~At(i, "clearStatic")
    BY <1>1, <1>s DEF StaticCalls, At, ContextsUp
  <1>3. Goes(h, "clearStatic", s, call[h].static)
    <2>1. "clearStatic" \in CallPcs
      BY DEF CallPcs
    <2> QED
      BY <1>s, <2>1, MovesTo DEF ReleaseStatic
  <1>4. OwnedAlone(s) /\ StaticHolds(s)
    BY <1>2, OneSlot DEF StaticHolds
  <1>5. /\ InUse(s) /\ ~InUse(s)'
        /\ \A t \in Slots : t # s => (InUse(t)' <=> InUse(t))
        /\ generation' \in [Slots -> 0 .. 2 * MaxClaims]
    <2>1. InUse(s)
      BY <1>4 DEF OwnedAlone
    <2> QED
      BY <1>1, <2>1, ReleaseFrees
  <1>6. TypeOK' /\ ScansSlots'
    BY <1>1, <1>3, <1>5 DEF TypeOK, StaticStates, Calls, ScansSlots, Goes, static
  <1>7. StaticCalls'
    BY <1>1, <1>2, <1>3 DEF StaticCalls, At, Goes, static
  <1>8. \A t \in Slots : t # s => SameOwners(t)
    BY <1>1, <1>s, <1>2, <1>3, <1>5
       DEF SameOwners, CallerOn, StaticHolds, Leaked, At, Goes, static
  <1>9. /\ \A i \in Hosts : ~CallerOn(i, s)' /\ s \notin held'[i]
        /\ ~StaticHolds(s)' /\ ~Leaked(s)'
    BY <1>1, <1>2, <1>3, <1>4 DEF OwnedAlone, CallerOn, StaticHolds, Leaked, At, Goes, static
  <1>10. OwnersApart' /\ ClaimedIsOwned'
    <2>1. OwnedAlone(s)'
      BY <1>5, <1>9 DEF OwnedAlone
    <2> QED
      BY <1>8, <2>1, OneSlotMoves
  <1>11. ThreadsRecorded'
    BY <1>1 DEF ThreadsRecorded
  <1>12. ContextsUp'
    BY <1>1, <1>2, <1>3 DEF ContextsUp, At, Goes, static
  <1>13. QuarantinedIsOwned'
    BY <1>1, <1>8 DEF QuarantinedIsOwned, SameOwners, TypeOK
  <1> QED
    BY <1>6, <1>7, <1>10, <1>11, <1>12, <1>13

\* The record is cleared; its slot may have a new owner by now.
LEMMA ClearStaticKeeps ==
  ASSUME IInv, NEW h \in Hosts, ClearStatic(h)
  PROVE  IInv'
  <1> USE DEF IInv
  <1>1. /\ At(h, "clearStatic") /\ UNCHANGED <<slots, held>>
        /\ staticCtx' = NoSlot /\ staticState' = "None"
        /\ Goes(h, "idle", NoSlot, FALSE)
    BY ReturnsTo DEF ClearStatic
  <1>2. \A i \in Hosts : i # h => ~call[i].static
    BY <1>1 DEF StaticCalls, At
  <1>3. TypeOK' /\ ScansSlots'
    BY <1>1 DEF TypeOK, StaticStates, Calls, ScansSlots, Goes, slots
  <1>4. StaticCalls'
    BY <1>1, <1>2 DEF StaticCalls, At, Goes
  <1>5. \A t \in Slots : SameOwners(t)
    BY <1>1, SameClaims
       DEF SameOwners, CallerOn, StaticHolds, Leaked, At, Goes, slots, NoSlot, Slots
  <1>6. OwnersApart' /\ ClaimedIsOwned' /\ QuarantinedIsOwned' /\ ThreadsRecorded'
    BY <1>1, <1>5 DEF SameOwners, OwnersApart, ClaimedIsOwned, QuarantinedIsOwned,
                      ThreadsRecorded, slots
  <1>7. ContextsUp'
    BY <1>1 DEF ContextsUp, At, Goes, slots
  <1> QED
    BY <1>3, <1>4, <1>6, <1>7

\* A host destroys a context it holds: the slot is free, or stays claimed as a
\* quarantined or leaked one.
LEMMA RecycleKeeps ==
  ASSUME IInv, NEW h \in Hosts, NEW s \in Slots, Recycle(h, s)
  PROVE  IInv'
  <1> USE DEF IInv
  <1>1. /\ At(h, "idle") /\ s \in held[h] /\ ~quarantined[s] /\ s # staticCtx
        /\ ReleaseClaim(s) /\ held' = [held EXCEPT ![h] = @ \ {s}]
        /\ UNCHANGED <<quarantined, initialized, threads, static>>
    BY DEF Recycle, Loses
  <1>2. Goes(h, "live", 1, FALSE)
    <2>1. "live" \in CallPcs /\ 1 \in Slots
      BY MaxContextsAssumption DEF CallPcs, Slots
    <2>2. call[h].static = FALSE
      BY <1>1, CallersTyped DEF StaticCalls, At
    <2> QED
      BY <2>1, <2>2, MovesTo DEF Recycle
  <1>3. OwnedAlone(s)
    BY OneSlot
  <1>4. /\ InUse(s) /\ ~InUse(s)'
        /\ \A t \in Slots : t # s => (InUse(t)' <=> InUse(t))
        /\ generation' \in [Slots -> 0 .. 2 * MaxClaims]
    <2>1. InUse(s)
      BY <1>1, <1>3 DEF OwnedAlone
    <2> QED
      BY <1>1, <2>1, ReleaseFrees
  <1>h. held' \in [Hosts -> SUBSET Slots]
        /\ \A i \in Hosts, t \in Slots : t \in held'[i] <=> t \in held[i] /\ ~(i = h /\ t = s)
    BY <1>1 DEF TypeOK
  <1>5. TypeOK' /\ ScansSlots'
    <2>1. 1 \in Slots
      BY MaxContextsAssumption DEF Slots
    <2> QED
      BY <1>1, <1>2, <1>4, <1>h, <2>1 DEF TypeOK, Calls, ScansSlots, Goes, static
  <1>6. StaticCalls'
    BY <1>1, <1>2 DEF StaticCalls, At, Goes, static
  <1>7. \A t \in Slots : t # s => SameOwners(t)
    BY <1>1, <1>2, <1>4, <1>h
       DEF SameOwners, CallerOn, StaticHolds, Leaked, At, Goes, static
  <1>8. /\ \A i \in Hosts : ~CallerOn(i, s)' /\ s \notin held'[i]
        /\ ~StaticHolds(s)' /\ ~Leaked(s)'
    BY <1>1, <1>2, <1>3, <1>h
       DEF OwnedAlone, CallerOn, StaticHolds, Leaked, At, Goes, static
  <1>9. OwnersApart' /\ ClaimedIsOwned'
    <2>1. OwnedAlone(s)'
      BY <1>4, <1>8 DEF OwnedAlone
    <2> QED
      BY <1>7, <2>1, OneSlotMoves
  <1>10. ThreadsRecorded'
    BY <1>1 DEF ThreadsRecorded
  <1>11. ContextsUp'
    BY <1>1, <1>2, <1>h DEF ContextsUp, At, Goes, static, TypeOK
  <1>12. QuarantinedIsOwned'
    BY <1>1, <1>7 DEF QuarantinedIsOwned, SameOwners
  <1> QED
    BY <1>5, <1>6, <1>9, <1>10, <1>11, <1>12

LEMMA RecycleFailsKeeps ==
  ASSUME IInv, NEW h \in Hosts, NEW s \in Slots, RecycleFails(h, s)
  PROVE  IInv'
  <1> USE DEF IInv
  <1>1. /\ s \in held[h] /\ quarantined' = [quarantined EXCEPT ![s] = TRUE]
        /\ UNCHANGED <<generation, initialized, threads, static, call, held>>
    BY DEF RecycleFails
  <1>2. \A t \in Slots : SameOwners(t)
    BY <1>1, SameClaims DEF SameOwners, CallerOn, StaticHolds, Leaked, At, static
  <1>3. TypeOK' /\ ScansSlots' /\ StaticCalls' /\ ThreadsRecorded' /\ ContextsUp'
    BY <1>1 DEF TypeOK, ScansSlots, StaticCalls, ThreadsRecorded, ContextsUp, At, static
  <1>4. OwnersApart' /\ ClaimedIsOwned'
    BY <1>2 DEF SameOwners, OwnersApart, ClaimedIsOwned
  <1>5. QuarantinedIsOwned'
    BY <1>1, <1>2 DEF QuarantinedIsOwned, SameOwners, TypeOK
  <1> QED
    BY <1>3, <1>4, <1>5

LEMMA DestroyFullyKeeps ==
  ASSUME IInv, NEW h \in Hosts, NEW s \in Slots, DestroyFully(h, s)
  PROVE  IInv'
  <1> USE DEF IInv
  <1>1. /\ s \in held[h] /\ s # staticCtx /\ pairs[s] > 0
        /\ pairs' = [pairs EXCEPT ![s] = 0]
        /\ threadsUp' = [threadsUp EXCEPT ![s] = FALSE]
        /\ initialized' = [initialized EXCEPT ![s] = FALSE]
        /\ quarantined' = [quarantined EXCEPT ![s] = FALSE]
        /\ ReleaseClaim(s) /\ held' = [held EXCEPT ![h] = @ \ {s}]
        /\ UNCHANGED <<leaked, gone, half, static, call>>
    BY DEF DestroyFully, Loses
  <1>2. OwnedAlone(s)
    BY OneSlot
  <1>3. /\ InUse(s) /\ ~InUse(s)'
        /\ \A t \in Slots : t # s => (InUse(t)' <=> InUse(t))
        /\ generation' \in [Slots -> 0 .. 2 * MaxClaims]
    <2>1. InUse(s)
      BY <1>1, <1>2 DEF OwnedAlone
    <2> QED
      BY <1>1, <2>1, ReleaseFrees
  <1>h. held' \in [Hosts -> SUBSET Slots]
        /\ \A i \in Hosts, t \in Slots : t \in held'[i] <=> t \in held[i] /\ ~(i = h /\ t = s)
    BY <1>1 DEF TypeOK
  <1>4. ThreadsRecorded' /\ pairs' \in [Slots -> Nat]
    <2>1. s \notin leaked
      BY <1>1, <1>2 DEF OwnedAlone, Leaked
    <2> QED
      BY <1>1, <2>1 DEF ThreadsRecorded, TypeOK
  <1>5. TypeOK' /\ ScansSlots' /\ StaticCalls'
    BY <1>1, <1>3, <1>4, <1>h DEF TypeOK, ScansSlots, StaticCalls, static
  <1>6. \A t \in Slots : t # s => SameOwners(t)
    BY <1>1, <1>3, <1>h DEF SameOwners, CallerOn, StaticHolds, Leaked, At, static
  <1>7. /\ \A i \in Hosts : ~CallerOn(i, s) /\ ~CallerOn(i, s)' /\ s \notin held'[i]
        /\ ~StaticHolds(s)' /\ ~Leaked(s)'
    BY <1>1, <1>2, <1>h DEF OwnedAlone, CallerOn, StaticHolds, Leaked, At, static
  <1>8. OwnersApart' /\ ClaimedIsOwned'
    <2>1. OwnedAlone(s)'
      BY <1>3, <1>7 DEF OwnedAlone
    <2> QED
      BY <1>6, <2>1, OneSlotMoves
  <1>9. ContextsUp'
    <2>1. \A t \in Slots : t # s /\ threadsUp[t] => threadsUp'[t]
      BY <1>1 DEF TypeOK
    <2>2. \A i \in Hosts : \A t \in held'[i] : threadsUp'[t]
      BY <1>h, <1>7, <2>1 DEF ContextsUp, TypeOK
    <2>3. staticState' = "Ready" => threadsUp'[staticCtx']
      BY <1>1, <2>1 DEF ContextsUp, static, StaticCalls, TypeOK
    <2>4. ASSUME NEW i \in Hosts
          PROVE  /\ At(i, "publish")' => threadsUp'[call'[i].slot]
                 /\ At(i, "join")' /\ call'[i].static => threadsUp'[call'[i].slot]
                 /\ At(i, "releaseStatic")' => call'[i].slot \notin leaked'
      BY <1>1, <1>7, <2>1 DEF ContextsUp, At, ScansSlots, StaticCalls, CallerOn
    <2> QED
      BY <2>2, <2>3, <2>4 DEF ContextsUp
  <1>10. QuarantinedIsOwned'
    BY <1>1, <1>6 DEF QuarantinedIsOwned, SameOwners, TypeOK
  <1> QED
    BY <1>4, <1>5, <1>8, <1>9, <1>10

\* A stop that is not answered in time leaves the record of the slot's pair as it is.
LEMMA TimeOutRecorded ==
  ASSUME TypeOK, ThreadsRecorded, NEW s \in Slots, TimesOut(s), s \notin gone,
         UNCHANGED <<threadsUp, initialized, gone>>
  PROVE  ThreadsRecorded' /\ pairs' \in [Slots -> Nat] /\ half' \subseteq Slots
  <1>1. CASE UNCHANGED <<pairs, half>>
    BY <1>1 DEF TypeOK, ThreadsRecorded, TimesOut
  <1>2. CASE /\ pairs[s] > 0
             /\ pairs' = [pairs EXCEPT ![s] = 0]
             /\ half' = half \union {s}
    BY <1>2 DEF TypeOK, ThreadsRecorded, TimesOut
  <1> QED
    BY <1>1, <1>2 DEF TimesOut

LEMMA DestroyFullyFailsKeeps ==
  ASSUME IInv, NEW h \in Hosts, NEW s \in Slots, DestroyFullyFails(h, s)
  PROVE  IInv'
  <1> USE DEF IInv
  <1>1. /\ s \in held[h] /\ s # staticCtx /\ leaked' = leaked \union {s}
        /\ held' = [held EXCEPT ![h] = @ \ {s}]
        /\ UNCHANGED <<generation, quarantined, initialized, threadsUp, gone, static, call>>
        /\ TimesOut(s)
    BY DEF DestroyFullyFails, TimesOut, Loses
  <1>2. OwnedAlone(s)
    BY OneSlot
  <1>h. held' \in [Hosts -> SUBSET Slots]
        /\ \A i \in Hosts, t \in Slots : t \in held'[i] <=> t \in held[i] /\ ~(i = h /\ t = s)
    BY <1>1 DEF TypeOK
  <1>t. ThreadsRecorded' /\ pairs' \in [Slots -> Nat] /\ half' \subseteq Slots
    <2>1. s \notin gone
      BY <1>1, <1>2 DEF OwnedAlone, Leaked, ThreadsRecorded
    <2> QED
      BY <1>1, <2>1, TimeOutRecorded
  <1>3. TypeOK' /\ ScansSlots' /\ StaticCalls'
    BY <1>1, <1>h, <1>t DEF TypeOK, ScansSlots, StaticCalls, static
  <1>4. \A t \in Slots : t # s => SameOwners(t)
    BY <1>1, <1>h, SameClaims DEF SameOwners, CallerOn, StaticHolds, Leaked, At, static
  <1>5. /\ InUse(s)' /\ \A i \in Hosts : ~CallerOn(i, s)' /\ s \notin held'[i]
        /\ ~StaticHolds(s)' /\ Leaked(s)'
    <2>1. InUse(s)'
      BY <1>1, <1>2, SameClaims DEF OwnedAlone
    <2> QED
      BY <1>1, <1>2, <1>h, <2>1 DEF OwnedAlone, CallerOn, StaticHolds, Leaked, At, static
  <1>6. OwnersApart' /\ ClaimedIsOwned'
    <2>1. OwnedAlone(s)'
      BY <1>5 DEF OwnedAlone
    <2> QED
      BY <1>4, <2>1, OneSlotMoves
  <1>7. ContextsUp'
    BY <1>1, <1>h DEF ContextsUp, At, static, StaticCalls, TypeOK
  <1>8. QuarantinedIsOwned'
    BY <1>1, <1>4, <1>5 DEF QuarantinedIsOwned, SameOwners
  <1> QED
    BY <1>3, <1>t, <1>6, <1>7, <1>8

-----------------------------------------------------------------------------
(* The joins.                                                              *)

\* The pair exits: whoever joins it is the slot's one owner, so nobody who was
\* promised its threads is left.
LEMMA JoinKeeps ==
  ASSUME IInv, NEW h \in Hosts, Join(h)
  PROVE  IInv'
  <1> USE DEF IInv
  <1>s. PICK s \in Slots : s = call[h].slot
    BY DEF Join, At, ScansSlots
  <1>1. /\ At(h, "join") /\ (pairs[s] > 0 \/ s \in gone)
        /\ pairs' = [pairs EXCEPT ![s] = 0]
        /\ threadsUp' = [threadsUp EXCEPT ![s] = FALSE]
        /\ leaked' = leaked \ {s} /\ gone' = gone \ {s}
        /\ UNCHANGED <<generation, quarantined, initialized, half, static, held>>
    BY <1>s DEF Join
  <1>2. /\ Goes(h, call'[h].pc, s, call[h].static)
        /\ call[h].static => call'[h].pc = "releaseStatic"
        /\ ~call[h].static => call'[h].pc = "release"
    <2>1. "release" \in CallPcs /\ "releaseStatic" \in CallPcs
      BY DEF CallPcs
    <2>2. CASE call[h].static
      <3>1. Moves(h, "releaseStatic", s)
        BY <1>s, <2>2 DEF Join
      <3> QED
        BY <2>1, <2>2, <3>1, MovesTo DEF Goes
    <2>3. CASE ~call[h].static
      <3>1. Moves(h, "release", s)
        BY <1>s, <2>3 DEF Join
      <3> QED
        BY <2>1, <2>3, <3>1, MovesTo DEF Goes
    <2> QED
      BY <2>2, <2>3
  <1>3. OwnedAlone(s)
    BY OneSlot
  <1>4. ThreadsRecorded' /\ pairs' \in [Slots -> Nat]
    BY <1>1 DEF ThreadsRecorded, TypeOK
  <1>5. TypeOK' /\ ScansSlots'
    <2>1. call'[h].pc # "idle"
      BY <1>2, CallersTyped
    <2> QED
      BY <1>1, <1>2, <1>4 DEF TypeOK, Calls, ScansSlots, Goes, static
  <1>6. StaticCalls'
    BY <1>1, <1>2, <1>s DEF StaticCalls, At, Goes, static
  <1>7. /\ ~Leaked(s) /\ \A i \in Hosts : s \notin held[i]
        /\ \/ call[h].static /\ StaticHolds(s) /\ \A i \in Hosts : ~CallerOn(i, s)
           \/ ~call[h].static /\ ~StaticHolds(s) /\ CallerOn(h, s)
              /\ \A i \in Hosts : CallerOn(i, s) => i = h
    <2>1. CASE call[h].static
      <3>1. StaticHolds(s)
        BY <1>1, <1>s, <2>1 DEF StaticHolds, StaticCalls, At
      <3> QED
        BY <1>3, <2>1, <3>1 DEF OwnedAlone, Leaked
    <2>2. CASE ~call[h].static
      <3>1. CallerOn(h, s)
        BY <1>1, <1>s, <2>2 DEF CallerOn
      <3> QED
        BY <1>3, <2>2, <3>1 DEF OwnedAlone
    <2> QED
      BY <2>1, <2>2
  <1>8. \A t \in Slots : SameOwners(t)
    <2>1. \A t \in Slots : StaticHolds(t)' <=> StaticHolds(t)
      BY <1>1, <1>2 DEF StaticHolds, At, Goes, static
    <2>2. \A t \in Slots : Leaked(t)' <=> Leaked(t)
      BY <1>1, <1>7, <2>1 DEF Leaked
    <2>3. \A t \in Slots, i \in Hosts : CallerOn(i, t)' <=> CallerOn(i, t)
      BY <1>1, <1>2, <1>s DEF CallerOn, At, Goes
    <2> QED
      BY <1>1, <2>1, <2>2, <2>3, SameClaims DEF SameOwners
  <1>9. OwnersApart' /\ ClaimedIsOwned' /\ QuarantinedIsOwned'
    BY <1>1, <1>8 DEF SameOwners, OwnersApart, ClaimedIsOwned, QuarantinedIsOwned
  <1>10. ContextsUp'
    <2>1. \A t \in Slots : t # s /\ threadsUp[t] => threadsUp'[t]
      BY <1>1 DEF TypeOK
    <2>2. \A i \in Hosts : \A t \in held'[i] : threadsUp'[t]
      BY <1>1, <1>7, <2>1 DEF ContextsUp, TypeOK
    <2>3. staticState' = "Ready" => threadsUp'[staticCtx']
      <3>1. ASSUME staticState = "Ready" PROVE staticCtx \in Slots /\ StaticHolds(staticCtx)
        BY <3>1 DEF StaticCalls, TypeOK, StaticHolds, At
      <3>2. staticState = "Ready" => ~call[h].static
        BY <1>1 DEF StaticCalls, At
      <3> QED
        BY <1>1, <1>7, <2>1, <3>1, <3>2 DEF ContextsUp, static
    <2>4. ASSUME NEW i \in Hosts
          PROVE  /\ At(i, "publish")' => threadsUp'[call'[i].slot]
                 /\ At(i, "join")' /\ call'[i].static => threadsUp'[call'[i].slot]
                 /\ At(i, "releaseStatic")' => call'[i].slot \notin leaked'
      <3>1. CASE i = h
        BY <1>1, <1>2, <3>1 DEF At, Goes
      <3>2. CASE i # h
        <4>1. call'[i] = call[i]
          BY <1>2, <3>2 DEF Goes
        <4>2. At(i, "publish") => CallerOn(i, call[i].slot) /\ call[i].slot \in Slots
          BY DEF At, CallerOn, ScansSlots
        <4>3. At(i, "publish") => call[i].slot # s
          BY <1>7, <3>2, <4>2
        <4>4. At(i, "join") /\ call[i].static =>
                call[i].slot \in Slots /\ StaticHolds(call[i].slot) /\ ~call[h].static
          BY <3>2 DEF At, ScansSlots, StaticCalls, StaticHolds
        <4>5. At(i, "join") /\ call[i].static => call[i].slot # s
          BY <1>7, <4>4
        <4> QED
          BY <1>1, <2>1, <4>1, <4>2, <4>3, <4>4, <4>5 DEF ContextsUp, At
      <3> QED
        BY <3>1, <3>2
    <2> QED
      BY <2>2, <2>3, <2>4 DEF ContextsUp
  <1> QED
    BY <1>4, <1>5, <1>6, <1>9, <1>10

\* What follows a slot of the reap: the next one, or the end.
LEMMA ScansOn ==
  ASSUME TypeOK, ScansSlots, NEW h \in Hosts, call[h].pc # "idle", ~call[h].static,
         ScanOn(h, "park", call[h].slot, Returns(h))
  PROVE  /\ Goes(h, call'[h].pc, call'[h].slot, FALSE)
         /\ call'[h].pc \in {"idle", "park"}
         /\ call'[h].pc # "idle" => call'[h].slot \in Slots
  <1>1. call[h].slot \in Slots /\ call[h].static = FALSE
    BY CallersTyped DEF ScansSlots
  <1>2. CASE call[h].slot < MaxContexts
    <2>1. call[h].slot + 1 \in Slots /\ "park" \in CallPcs
      BY <1>1, <1>2, MaxContextsAssumption DEF Slots, CallPcs
    <2> QED
      BY <1>1, <1>2, <2>1, MovesTo DEF ScanOn, Goes
  <1>3. CASE ~(call[h].slot < MaxContexts)
    BY <1>3, ReturnsTo DEF ScanOn, Goes
  <1> QED
    BY <1>2, <1>3

\* No exit signal came: a static teardown is called off, a reaped slot is leaked.
LEMMA JoinTimesOutKeeps ==
  ASSUME IInv, NEW h \in Hosts, JoinTimesOut(h)
  PROVE  IInv'
  <1> USE DEF IInv
  <1>s. PICK s \in Slots : s = call[h].slot
    BY DEF JoinTimesOut, At, ScansSlots
  <1>1. /\ At(h, "join") /\ leaked' = leaked \union {s} /\ s \notin gone
        /\ TimesOut(s)
        /\ UNCHANGED <<generation, quarantined, initialized, threadsUp, gone,
                       staticCtx, held>>
    BY <1>s DEF JoinTimesOut, TimesOut
  <1>t. ThreadsRecorded' /\ pairs' \in [Slots -> Nat] /\ half' \subseteq Slots
    BY <1>1, TimeOutRecorded
  <1>2. CASE call[h].static
    <2>1. staticState' = "Ready" /\ Goes(h, "idle", NoSlot, FALSE)
      BY <1>2, ReturnsTo DEF JoinTimesOut
    <2>2. /\ staticState = "Destroying" /\ staticCtx = s /\ threadsUp[s]
          /\ \A i \in Hosts : i # h => ~call[i].static
          /\ \A i \in Hosts : ~At(i, "clearStatic")
      BY <1>1, <1>2, <1>s DEF StaticCalls, At, ContextsUp
    <2>3. TypeOK' /\ ScansSlots'
      BY <1>1, <1>t, <2>1 DEF TypeOK, StaticStates, Calls, ScansSlots, Goes
    <2>4. StaticCalls'
      BY <1>1, <2>1, <2>2 DEF StaticCalls, At, Goes
    <2>5. \A t \in Slots : SameOwners(t)
      <3>1. \A t \in Slots : (StaticHolds(t)' <=> StaticHolds(t)) /\ (StaticHolds(t) <=> t = s)
        BY <1>1, <2>1, <2>2 DEF StaticHolds, At, Goes
      <3>2. \A t \in Slots : Leaked(t)' <=> Leaked(t)
        BY <1>1, <3>1 DEF Leaked
      <3> QED
        BY <1>1, <1>2, <2>1, <3>1, <3>2, SameClaims DEF SameOwners, CallerOn, At, Goes
    <2>6. OwnersApart' /\ ClaimedIsOwned' /\ QuarantinedIsOwned'
      BY <1>1, <2>5 DEF SameOwners, OwnersApart, ClaimedIsOwned, QuarantinedIsOwned
    <2>7. ContextsUp'
      BY <1>1, <2>1, <2>2 DEF ContextsUp, At, Goes, StaticCalls
    <2> QED
      BY <1>t, <2>3, <2>4, <2>6, <2>7
  <1>3. CASE ~call[h].static
    <2>1. /\ UNCHANGED staticState
          /\ Goes(h, call'[h].pc, call'[h].slot, FALSE)
          /\ call'[h].pc \in {"idle", "park"}
          /\ call'[h].pc # "idle" => call'[h].slot \in Slots
      BY <1>1, <1>3, ScansOn DEF JoinTimesOut, At
    <2>2. TypeOK' /\ ScansSlots'
      BY <1>1, <1>t, <2>1 DEF TypeOK, Calls, ScansSlots, Goes
    <2>3. StaticCalls'
      BY <1>1, <1>3, <2>1 DEF StaticCalls, At, Goes
    <2>4. OwnedAlone(s) /\ CallerOn(h, s)
      BY <1>1, <1>3, <1>s, OneSlot DEF CallerOn
    <2>5. \A t \in Slots : StaticHolds(t)' <=> StaticHolds(t)
      BY <1>1, <2>1 DEF StaticHolds, At, Goes
    <2>6. \A t \in Slots : t # s => SameOwners(t)
      BY <1>1, <1>s, <2>1, <2>5, SameClaims DEF SameOwners, CallerOn, Leaked, At, Goes
    <2>7. /\ InUse(s)' /\ \A i \in Hosts : ~CallerOn(i, s)' /\ s \notin held'[i]
          /\ ~StaticHolds(s)' /\ Leaked(s)'
      <3>1. InUse(s)' /\ ~StaticHolds(s)' /\ Leaked(s)'
        BY <1>1, <2>4, <2>5, SameClaims DEF OwnedAlone, Leaked
      <3>2. \A i \in Hosts : ~CallerOn(i, s)' /\ s \notin held'[i]
        BY <1>1, <2>1, <2>4 DEF OwnedAlone, CallerOn, Goes, At
      <3> QED
        BY <3>1, <3>2
    <2>8. OwnersApart' /\ ClaimedIsOwned'
      <3>1. OwnedAlone(s)'
        BY <2>7 DEF OwnedAlone
      <3> QED
        BY <2>6, <3>1, OneSlotMoves
    <2>9. ContextsUp'
      <3>1. ASSUME NEW i \in Hosts, At(i, "releaseStatic") PROVE call[i].slot # s
        BY <2>4, <3>1 DEF OwnedAlone, StaticHolds, StaticCalls, At
      <3> QED
        BY <1>1, <2>1, <3>1 DEF ContextsUp, At, Goes
    <2>10. QuarantinedIsOwned'
      BY <1>1, <2>6, <2>7 DEF QuarantinedIsOwned, SameOwners
    <2> QED
      BY <1>t, <2>2, <2>3, <2>8, <2>9, <2>10
  <1> QED
    BY <1>2, <1>3

\* A leaked pair exits after all: nobody but the static record counts on it, and that
\* one no more.
LEMMA LateExitKeeps ==
  ASSUME IInv, NEW s \in Slots, LateExit(s)
  PROVE  IInv'
  <1> USE DEF IInv
  <1>1. /\ s \in leaked /\ pairs[s] > 0
        /\ pairs' = [pairs EXCEPT ![s] = 0] /\ gone' = gone \union {s}
        /\ UNCHANGED <<generation, quarantined, initialized, threadsUp, leaked, half,
                       static, call, held>>
    BY DEF LateExit
  <1>2. ThreadsRecorded'
    BY <1>1 DEF ThreadsRecorded, TypeOK
  <1>3. TypeOK' /\ ScansSlots' /\ StaticCalls' /\ ContextsUp'
    BY <1>1 DEF TypeOK, ScansSlots, StaticCalls, ContextsUp, At, static
  <1>4. \A t \in Slots : SameOwners(t)
    BY <1>1, SameClaims DEF SameOwners, CallerOn, StaticHolds, Leaked, At, static
  <1>5. OwnersApart' /\ ClaimedIsOwned' /\ QuarantinedIsOwned'
    BY <1>1, <1>4 DEF SameOwners, OwnersApart, ClaimedIsOwned, QuarantinedIsOwned
  <1> QED
    BY <1>2, <1>3, <1>5

\* The reap gives the slot it joined back to the pool.
LEMMA UnclaimKeeps ==
  ASSUME IInv, NEW h \in Hosts, Unclaim(h)
  PROVE  IInv'
  <1> USE DEF IInv
  <1>s. PICK s \in Slots : s = call[h].slot
    BY DEF Unclaim, At, ScansSlots
  <1>1. /\ At(h, "release") /\ ReleaseClaim(s)
        /\ UNCHANGED <<quarantined, initialized, threads, static, held>>
    BY <1>s DEF Unclaim
  <1>2. /\ Goes(h, call'[h].pc, call'[h].slot, FALSE)
        /\ call'[h].pc \in {"idle", "park"}
        /\ call'[h].pc # "idle" => call'[h].slot \in Slots
    <2>1. call[h].pc # "idle" /\ ~call[h].static
      BY <1>1 DEF StaticCalls, At
    <2> QED
      BY <2>1, ScansOn DEF Unclaim
  <1>3. OwnedAlone(s) /\ CallerOn(h, s)
    BY <1>1, <1>s, OneSlot DEF CallerOn
  <1>4. /\ InUse(s) /\ ~InUse(s)'
        /\ \A t \in Slots : t # s => (InUse(t)' <=> InUse(t))
        /\ generation' \in [Slots -> 0 .. 2 * MaxClaims]
    <2>1. InUse(s)
      BY <1>3 DEF OwnedAlone
    <2> QED
      BY <1>1, <2>1, ReleaseFrees
  <1>5. TypeOK' /\ ScansSlots' /\ ThreadsRecorded'
    BY <1>1, <1>2, <1>4 DEF TypeOK, Calls, ScansSlots, Goes, static, ThreadsRecorded
  <1>6. StaticCalls'
    BY <1>1, <1>2 DEF StaticCalls, At, Goes, static
  <1>7. \A t \in Slots : t # s => SameOwners(t)
    BY <1>1, <1>s, <1>2, <1>4
       DEF SameOwners, CallerOn, StaticHolds, Leaked, At, Goes, static
  <1>8. /\ \A i \in Hosts : ~CallerOn(i, s)' /\ s \notin held'[i]
        /\ ~StaticHolds(s)' /\ ~Leaked(s)'
    BY <1>1, <1>2, <1>3 DEF OwnedAlone, CallerOn, StaticHolds, Leaked, At, Goes, static
  <1>9. OwnersApart' /\ ClaimedIsOwned'
    <2>1. OwnedAlone(s)'
      BY <1>4, <1>8 DEF OwnedAlone
    <2> QED
      BY <1>7, <2>1, OneSlotMoves
  <1>10. ContextsUp'
    BY <1>1, <1>2 DEF ContextsUp, At, Goes, static
  <1>11. QuarantinedIsOwned'
    BY <1>1, <1>3, <1>7 DEF QuarantinedIsOwned, SameOwners, OwnedAlone
  <1> QED
    BY <1>5, <1>6, <1>9, <1>10, <1>11

-----------------------------------------------------------------------------
(* The invariant and what follows from it.                                 *)

LEMMA InitInv == Init => IInv
  <1> SUFFICES ASSUME Init PROVE IInv
    OBVIOUS
  <1>1. \A h \in Hosts : call[h].pc = "idle" /\ call[h].static = FALSE
    BY DEF Init, Idle
  <1>2. TypeOK
    BY MaxClaimsAssumption, IdleIsCall DEF Init, TypeOK, StaticStates, Calls
  <1>3. ScansSlots /\ StaticCalls /\ ThreadsRecorded /\ ContextsUp /\ QuarantinedIsOwned
    BY <1>1 DEF Init, ScansSlots, StaticCalls, ThreadsRecorded, ContextsUp,
                QuarantinedIsOwned, At
  <1>4. \A s \in Slots : /\ ~InUse(s) /\ ~StaticHolds(s) /\ ~Leaked(s)
                         /\ \A h \in Hosts : ~CallerOn(h, s) /\ s \notin held[h]
    <2>1. 0 % 2 = 0
      BY Parity
    <2> QED
      BY <1>1, <2>1 DEF Init, InUse, StaticHolds, Leaked, CallerOn, At, NoSlot, Slots
  <1>5. OwnersApart /\ ClaimedIsOwned
    BY <1>4 DEF OwnersApart, ClaimedIsOwned
  <1> QED
    BY <1>2, <1>3, <1>5 DEF IInv

LEMMA StutterInv == IInv /\ UNCHANGED vars => IInv'
  <1> SUFFICES ASSUME IInv, UNCHANGED vars PROVE IInv'
    OBVIOUS
  <1> USE DEF IInv
  <1>1. TypeOK' /\ ScansSlots' /\ StaticCalls' /\ ThreadsRecorded' /\ ContextsUp'
    BY DEF TypeOK, ScansSlots, StaticCalls, ThreadsRecorded, ContextsUp, At,
           vars, slots, static
  <1>2. \A s \in Slots : SameOwners(s)
    BY SameClaims DEF SameOwners, CallerOn, StaticHolds, Leaked, At, vars, slots, static
  <1>3. OwnersApart' /\ ClaimedIsOwned' /\ QuarantinedIsOwned'
    BY <1>2 DEF SameOwners, OwnersApart, ClaimedIsOwned, QuarantinedIsOwned, vars, slots
  <1> QED
    BY <1>1, <1>3

\* Who owns a slot, and what each owner may rely on, over creates, destroys, reaps,
\* the static context and full destroys, with failures at every step that may fail.
THEOREM PoolInvariant == Spec => []IInv
  <1>1. ASSUME IInv, Next PROVE IInv'
    <2>0. ASSUME NEW s \in Slots, LateExit(s) PROVE IInv'
      BY <1>1, <2>0, LateExitKeeps
    <2> SUFFICES ASSUME ~\E s \in Slots : LateExit(s) PROVE IInv'
      BY <2>0
    <2>1. PICK h \in Hosts :
            \/ Looks(h) \/ ClaimSlot(h) \/ ClaimToPark(h)
            \/ Reuse(h) \/ StartThreads(h) \/ StartFails(h)
            \/ PublishStatic(h) \/ BeginDestroyStatic(h)
            \/ ReleaseStatic(h) \/ ClearStatic(h)
            \/ \E s \in Slots : Recycle(h, s) \/ RecycleFails(h, s)
                             \/ DestroyFully(h, s) \/ DestroyFullyFails(h, s)
            \/ Join(h) \/ JoinTimesOut(h) \/ Unclaim(h)
      BY <1>1 DEF Next, Looks
    <2>2. CASE Looks(h)
      BY <1>1, <2>2, LooksKeep
    <2>3. CASE ClaimSlot(h) \/ ClaimToPark(h)
      BY <1>1, <2>3, ClaimsKeep
    <2>4. CASE Reuse(h) \/ StartThreads(h)
      BY <1>1, <2>4, HandsKeep
    <2>5. CASE StartFails(h)
      BY <1>1, <2>5, StartFailsKeeps
    <2>6. CASE PublishStatic(h)
      BY <1>1, <2>6, PublishKeeps
    <2>7. CASE BeginDestroyStatic(h)
      BY <1>1, <2>7, BeginDestroyStaticKeeps
    <2>8. CASE ReleaseStatic(h)
      BY <1>1, <2>8, ReleaseStaticKeeps
    <2>9. CASE ClearStatic(h)
      BY <1>1, <2>9, ClearStaticKeeps
    <2>10. ASSUME NEW s \in Slots, Recycle(h, s) \/ RecycleFails(h, s)
                    \/ DestroyFully(h, s) \/ DestroyFullyFails(h, s)
           PROVE  IInv'
      BY <1>1, <2>10, RecycleKeeps, RecycleFailsKeeps, DestroyFullyKeeps,
         DestroyFullyFailsKeeps
    <2>11. CASE Join(h)
      BY <1>1, <2>11, JoinKeeps
    <2>12. CASE JoinTimesOut(h)
      BY <1>1, <2>12, JoinTimesOutKeeps
    <2>13. CASE Unclaim(h)
      BY <1>1, <2>13, UnclaimKeeps
    <2> QED
      BY <2>1, <2>2, <2>3, <2>4, <2>5, <2>6, <2>7, <2>8, <2>9, <2>10, <2>11, <2>12, <2>13
  <1> QED
    BY InitInv, StutterInv, <1>1, PTL DEF Spec

\* A set with at most one member has the cardinality of whether it has one.
LEMMA AtMostOne ==
  ASSUME NEW S, \A x, y \in S : x = y
  PROVE  Cardinality(S) = IF S = {} THEN 0 ELSE 1
  <1>1. CASE S = {}
    BY <1>1, FS_EmptySet
  <1>2. CASE S # {}
    <2>1. PICK x \in S : S = {x}
      BY <1>2
    <2> QED
      BY <1>2, <2>1, FS_Singleton
  <1> QED
    BY <1>1, <1>2

\* tryClaim, releaseClaim and the records of the pool and its hosts agree: a claimed
\* slot has one owner, a free one has none, so no context is handed out twice.
THEOREM SlotHasOneOwner == Spec => []OneOwner
  <1>1. ASSUME IInv PROVE OneOwner
    <2> SUFFICES ASSUME NEW s \in Slots
                 PROVE  Cardinality(CallersOn(s)) + Cardinality(HoldersOf(s))
                          + (IF StaticHolds(s) THEN 1 ELSE 0) + (IF Leaked(s) THEN 1 ELSE 0)
                          = generation[s] % 2
      BY DEF OneOwner
    <2>1. OwnedAlone(s)
      BY <1>1, OneSlot DEF IInv
    <2>2. CallersOn(s) = {h \in Hosts : CallerOn(h, s)}
      BY DEF CallersOn, CallerOn
    <2>3. Cardinality(CallersOn(s)) = IF CallersOn(s) = {} THEN 0 ELSE 1
      <3>1. \A x, y \in CallersOn(s) : x = y
        BY <2>1, <2>2 DEF OwnedAlone
      <3> QED
        BY <3>1, AtMostOne
    <2>4. Cardinality(HoldersOf(s)) = IF HoldersOf(s) = {} THEN 0 ELSE 1
      <3>1. \A x, y \in HoldersOf(s) : x = y
        BY <2>1 DEF OwnedAlone, HoldersOf
      <3> QED
        BY <3>1, AtMostOne
    <2>5. CallersOn(s) = {} \/ HoldersOf(s) = {}
      BY <2>1, <2>2 DEF OwnedAlone, HoldersOf
    <2>6. CallersOn(s) # {} \/ HoldersOf(s) # {} => ~StaticHolds(s) /\ ~Leaked(s)
      BY <2>1, <2>2 DEF OwnedAlone, HoldersOf
    <2>7. InUse(s) <=> CallersOn(s) # {} \/ HoldersOf(s) # {} \/ StaticHolds(s) \/ Leaked(s)
      BY <2>1, <2>2 DEF OwnedAlone, HoldersOf
    <2>8. ~(StaticHolds(s) /\ Leaked(s))
      BY DEF Leaked
    <2>9. generation[s] % 2 = IF InUse(s) THEN 1 ELSE 0
      <3>1. generation[s] \in Nat
        BY <1>1, MaxClaimsAssumption DEF IInv, TypeOK
      <3> QED
        BY <3>1, Parity DEF InUse
    <2> QED
      BY <2>3, <2>4, <2>5, <2>6, <2>7, <2>8, <2>9
  <1> QED
    BY <1>1, PoolInvariant, PTL

\* No reap, full destroy or static teardown joins, or tells to stop, the threads of a
\* context that somebody holds: a stop is not taken back, so one that went astray would
\* leave the context without threads as soon as the late pair exits.  The Ready static
\* context is served too, until a teardown of its own has given up a wait.
THEOREM HeldStaysServed == Spec => []HeldHasThreads
  <1>1. ASSUME IInv PROVE HeldHasThreads
    <2>1. ASSUME NEW h \in Hosts, NEW s \in held[h]
          PROVE  pairs[s] = 1 /\ threadsUp[s]
      <3>1. s \in Slots /\ threadsUp[s]
        BY <1>1 DEF IInv, ContextsUp, TypeOK
      <3>2. s \notin leaked
        <4>1. OwnedAlone(s)
          BY <1>1, <3>1, OneSlot DEF IInv
        <4> QED
          BY <4>1 DEF OwnedAlone, Leaked
      <3> QED
        BY <1>1, <3>1, <3>2 DEF IInv, ThreadsRecorded
    <2>2. staticState = "Ready" => staticCtx \in Slots /\ threadsUp[staticCtx]
      BY <1>1 DEF IInv, ContextsUp, StaticCalls, TypeOK
    <2> QED
      BY <1>1, <2>1, <2>2 DEF HeldHasThreads, IInv, ThreadsRecorded
  <1> QED
    BY <1>1, PoolInvariant, PTL

\* createFFIContext starts threads only where the pool's record says that none run,
\* and where the record says so none do, after a join that timed out and a late exit too.
THEOREM OnePair == Spec => []NoSecondPair
  <1>1. ASSUME IInv PROVE NoSecondPair
    BY <1>1 DEF IInv, ThreadsRecorded, NoSecondPair
  <1> QED
    BY <1>1, PoolInvariant, PTL

\* quarantinedSlots counts no slot that is back in the pool.
THEOREM QuarantineStaysClaimed == Spec => []QuarantinedIsClaimed
  <1>1. ASSUME IInv PROVE QuarantinedIsClaimed
    <2> SUFFICES ASSUME NEW s \in Slots, quarantined[s]
                 PROVE  InUse(s) /\ (HoldersOf(s) # {} \/ s \in leaked)
      BY DEF QuarantinedIsClaimed
    <2>1. (\E h \in Hosts : s \in held[h]) \/ Leaked(s)
      BY <1>1 DEF IInv, QuarantinedIsOwned
    <2>2. InUse(s)
      BY <1>1, <2>1 DEF IInv, ClaimedIsOwned
    <2> QED
      BY <2>1, <2>2 DEF HoldersOf, Leaked
  <1> QED
    BY <1>1, PoolInvariant, PTL
-----------------------------------------------------------------------------
(* Each slot of the pool implements SlotLifecycle.                         *)

\* What the steps of the pool do to the claims and the quarantines.
Claims(s) == TryClaim(s) /\ UNCHANGED quarantined
Releases(s) == InUse(s) /\ ~quarantined[s] /\ ReleaseClaim(s) /\ UNCHANGED quarantined
Quarantines(s) ==
  InUse(s) /\ UNCHANGED generation /\ quarantined' = [quarantined EXCEPT ![s] = TRUE]
TearsDown(s) ==
  NimApi /\ InUse(s) /\ ReleaseClaim(s) /\ quarantined' = [quarantined EXCEPT ![s] = FALSE]

\* A slot that is between owners, or under the static one's teardown, is claimed and
\* not quarantined: only hosts and leaks answer for a quarantine.
LEMMA NotQuarantined ==
  ASSUME IInv, NEW s \in Slots, (\E h \in Hosts : CallerOn(h, s)) \/ StaticHolds(s)
  PROVE  InUse(s) /\ ~quarantined[s]
  <1>1. OwnedAlone(s)
    BY OneSlot DEF IInv
  <1> QED
    BY <1>1 DEF IInv, OwnedAlone, QuarantinedIsOwned, Leaked

\* Marking a slot Active that is so changes nothing.
LEMMA StaysUnquarantined ==
  ASSUME TypeOK, NEW s \in Slots, ~quarantined[s]
  PROVE  [quarantined EXCEPT ![s] = FALSE] = quarantined
  BY DEF TypeOK

\* Every step of the pool does one of them to one slot, or none.
LEMMA PoolSteps ==
  ASSUME IInv, [Next]_vars
  PROVE  \/ UNCHANGED <<generation, quarantined>>
         \/ \E s \in Slots : Claims(s) \/ Releases(s) \/ Quarantines(s) \/ TearsDown(s)
  <1> USE DEF slots
  <1>1. CASE UNCHANGED vars
    BY <1>1 DEF vars
  <1>0. ASSUME NEW s \in Slots, LateExit(s)
        PROVE  UNCHANGED <<generation, quarantined>>
    BY <1>0 DEF LateExit
  <1>2. ASSUME NEW h \in Hosts, Looks(h) \/ PublishStatic(h) \/ BeginDestroyStatic(h)
                 \/ ClearStatic(h) \/ Join(h) \/ JoinTimesOut(h)
        PROVE  UNCHANGED <<generation, quarantined>>
    BY <1>2 DEF Looks, BeginCreate, SkipSlot, FindsLive, NotLive, SkipPark, SeesThreads,
                BeginStatic, PublishStatic, BeginDestroyStatic, ClearStatic, Join,
                JoinTimesOut
  <1>3. ASSUME NEW h \in Hosts, ClaimSlot(h) \/ ClaimToPark(h)
        PROVE  \E s \in Slots : Claims(s)
    <2>1. call[h].slot \in Slots
      BY <1>3 DEF IInv, ScansSlots, ClaimSlot, ClaimToPark, At
    <2> QED
      BY <1>3, <2>1 DEF ClaimSlot, ClaimToPark, Claims
  <1>4. ASSUME NEW h \in Hosts, Reuse(h) \/ StartThreads(h) \/ StartFails(h)
        PROVE  \/ UNCHANGED <<generation, quarantined>>
               \/ \E s \in Slots : Releases(s)
    <2>1. PICK s \in Slots : s = call[h].slot
      BY <1>4 DEF IInv, ScansSlots, Reuse, StartThreads, StartFails, At
    <2>2. CallerOn(h, s)
      BY <1>4, <2>1 DEF CallerOn, Reuse, StartThreads, StartFails, At
    <2>3. InUse(s) /\ ~quarantined[s] /\ [quarantined EXCEPT ![s] = FALSE] = quarantined
      BY <2>2, NotQuarantined, StaysUnquarantined DEF IInv
    <2> QED
      BY <1>4, <2>1, <2>3 DEF Reuse, StartThreads, StartFails, Releases
  <1>5. ASSUME NEW h \in Hosts, ReleaseStatic(h)
        PROVE  \E s \in Slots : Releases(s)
    <2>1. PICK s \in Slots : s = call[h].slot
      BY <1>5 DEF IInv, ScansSlots, ReleaseStatic, At
    <2>2. StaticHolds(s)
      BY <1>5, <2>1 DEF IInv, StaticCalls, StaticHolds, ReleaseStatic, At
    <2>3. InUse(s) /\ ~quarantined[s] /\ [quarantined EXCEPT ![s] = FALSE] = quarantined
      BY <2>2, NotQuarantined, StaysUnquarantined DEF IInv
    <2> QED
      BY <1>5, <2>1, <2>3 DEF ReleaseStatic, Releases
  <1>6. ASSUME NEW h \in Hosts, Unclaim(h)
        PROVE  \E s \in Slots : Releases(s)
    <2>1. PICK s \in Slots : s = call[h].slot
      BY <1>6 DEF IInv, ScansSlots, Unclaim, At
    <2>2. CallerOn(h, s)
      BY <1>6, <2>1 DEF CallerOn, Unclaim, At
    <2>3. InUse(s) /\ ~quarantined[s]
      BY <2>2, NotQuarantined
    <2> QED
      BY <1>6, <2>1, <2>3 DEF Unclaim, Releases
  <1>7. ASSUME NEW h \in Hosts, NEW s \in Slots,
               Recycle(h, s) \/ RecycleFails(h, s) \/ DestroyFully(h, s)
                 \/ DestroyFullyFails(h, s)
        PROVE  \/ UNCHANGED <<generation, quarantined>>
               \/ \E t \in Slots : Releases(t) \/ Quarantines(t) \/ TearsDown(t)
    <2>1. s \in held[h]
      BY <1>7 DEF Recycle, RecycleFails, DestroyFully, DestroyFullyFails
    <2>2. InUse(s)
      BY <2>1 DEF IInv, ClaimedIsOwned
    <2> QED
      BY <1>7, <2>2 DEF Recycle, RecycleFails, DestroyFully, DestroyFullyFails,
                        Releases, Quarantines, TearsDown
  <1> QED
    BY <1>0, <1>1, <1>2, <1>3, <1>4, <1>5, <1>6, <1>7 DEF Next, Looks

\* One slot's share of such a step.
LEMMA SlotMaps ==
  ASSUME IInv, [Next]_vars, NEW s \in Slots
  PROVE  [Slot(s)!Next]_(Slot(s)!vars)
  <1> USE DEF Slot!Next, Slot!vars, Slot!Owned
  <1>1. /\ generation \in [Slots -> 0 .. 2 * MaxClaims]
        /\ quarantined \in [Slots -> BOOLEAN]
    BY DEF IInv, TypeOK
  <1>2. CASE UNCHANGED <<generation, quarantined>>
    BY <1>2
  <1>3. ASSUME NEW t \in Slots, t # s,
               Claims(t) \/ Releases(t) \/ Quarantines(t) \/ TearsDown(t)
        PROVE  generation'[s] = generation[s] /\ quarantined'[s] = quarantined[s]
    BY <1>1, <1>3 DEF Claims, Releases, Quarantines, TearsDown, TryClaim, ReleaseClaim
  <1>4. CASE Claims(s)
    <2>1. Slot(s)!Claim
      BY <1>1, <1>4 DEF Claims, TryClaim, InUse, Slot!Claim
    <2> QED
      BY <2>1
  <1>5. CASE Releases(s)
    <2>1. Slot(s)!Release
      BY <1>1, <1>5 DEF Releases, ReleaseClaim, InUse, Slot!Release
    <2> QED
      BY <2>1
  <1>6. CASE Quarantines(s)
    <2>1. Slot(s)!Quarantine
      BY <1>1, <1>6 DEF Quarantines, InUse, Slot!Quarantine
    <2> QED
      BY <2>1
  <1>7. CASE TearsDown(s)
    <2>1. Slot(s)!TearDown
      BY <1>1, <1>7 DEF TearsDown, ReleaseClaim, InUse, Slot!TearDown
    <2> QED
      BY <2>1
  <1> QED
    BY <1>2, <1>3, <1>4, <1>5, <1>6, <1>7, PoolSteps

\* For any number of hosts and slots, every slot of the pool is the slot that the
\* handshake of ContextRecycle implements: claimed and released in turn, with a
\* quarantine that nothing but a full destroy takes back.
THEOREM SlotsImplement == Spec => ImplementsSlots
  <1>1. Init => \A s \in Slots : Slot(s)!Init
    BY DEF Init, Slot!Init
  <1>2. IInv /\ [Next]_vars => [\A s \in Slots : [Slot(s)!Next]_(Slot(s)!vars)]_vars
    BY SlotMaps
  <1> QED
    BY <1>1, <1>2, PoolInvariant, PTL DEF Spec, ImplementsSlots
=============================================================================
