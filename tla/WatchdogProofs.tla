---------------------------- MODULE WatchdogProofs ----------------------------
(***************************************************************************)
(* Proofs, for any pollers, durations and bounds, of what the two watchers *)
(* tell.  In either mode a stall that is told is real and told once.  In   *)
(* poll mode a claim hears its stalls and recoveries in turn and only after *)
(* a grace of its own, whatever the claims before it heard.                *)
(*                                                                         *)
(* The event thread's latch is about beats: what it told is of no later    *)
(* beat than the last it saw move (MonitorTold).  The poller's latch is    *)
(* about claims: watch.generation never runs ahead of the slot nor falls   *)
(* behind what was told, as whoever moves it holds pollLock and looked at  *)
(* the generation under it (PollerOfPast).                                 *)
(***************************************************************************)
EXTENDS Watchdog, TLAPS

\* A stamp is not of the future, and a claim was marked active in the past.
Clock ==
  /\ now > 0
  /\ heartbeat <= now
  /\ \A g \in Claims : activeAt[g] <= now

\* A slot that serves, or that a recycle has, is claimed by an owner marked active.
SlotStates ==
  /\ lifecycle \in {"Active", "RecyclePending"} => Owned /\ activeAt[generation] # 0
  /\ ffi \in {"recycle", "finish"} =>
       Owned /\ activeAt[generation] # 0 /\ lifecycle = "Recycling"

\* The event thread saw a beat no later than it says, and the beats come in order.
MonitorSees ==
  /\ monitor.lastValue <= monitor.lastChange
  /\ monitor.lastValue <= heartbeat
  /\ monitor.pc = "check" =>
       monitor.lastValue <= monitor.cur /\ monitor.cur <= heartbeat

\* A stall it told is of a beat it saw, and the latch is set while no later one is.
MonitorTold ==
  ~PollMode =>
    \A r \in told : /\ r.beat <= monitor.lastValue
                    /\ ~monitor.notifiedStale => r.beat < monitor.lastValue

Polling(p) == call[p].pc # "idle"
Within(p) == call[p].pc \in {"look", "watch", "beat", "rest"}

\* One poller holds pollLock, and only where there are polls.
OnePoller ==
  /\ \A p \in Pollers : Polling(p) => PollMode /\ activeAt[call[p].token] # 0
  /\ \A p, q \in Pollers : Polling(p) /\ Polling(q) => p = q

\* Past its look at the generation, a poll's claim is the watched one or a later one,
\* and its watch, once opened, is the claim's own.
PollerOfPast ==
  \A p \in Pollers :
    /\ Within(p) => watch.generation <= call[p].token /\ call[p].token <= generation
    /\ At(p, "beat") => /\ watch.generation = call[p].token
                        /\ call[p].now - watch.startedAt > StartDelay
                        /\ call[p].now <= now
                        /\ \A r \in told : r.at <= call[p].now

\* The watch began when its claim was active, and is no later claim's than the slot's.
WatchOfClaim ==
  /\ watch.generation <= generation
  /\ watch.generation \in Claims =>
       /\ activeAt[watch.generation] # 0
       /\ activeAt[watch.generation] <= watch.startedAt

\* What polls told: to whom, of which beat; the latch is set while no later beat came.
PollTold ==
  PollMode =>
    \A r \in told :
      /\ r.to \in Claims /\ r.to <= watch.generation
      /\ activeAt[r.to] # 0 /\ r.at - activeAt[r.to] > StartDelay
      /\ r.at <= now
      /\ r.beat <= heartbeat
      /\ r.to = watch.generation =>
           /\ r.beat = 0 => r.at - watch.startedAt > StaleThreshold
           /\ ~watch.notifiedStale => r.beat < heartbeat

\* A claim that is not watched yet heard nothing, the one that is what its latches say.
LatchesInv ==
  PollMode =>
    /\ LatchesOfOwner
    /\ \A g \in Claims :
         /\ g > watch.generation => stalls[g] = 0 /\ resumes[g] = 0 /\ full[g] = 0
         /\ g = watch.generation =>
              /\ stalls[g] = resumes[g] + (IF watch.notifiedStale THEN 1 ELSE 0)
              /\ full[g] = (IF watch.notifiedStuck THEN 1 ELSE 0)

\* The inductive invariant, in the parts that one kind of step disturbs.
SlotInv == Clock /\ SlotStates
MonitorInv == MonitorSees /\ MonitorTold
PollInv == OnePoller /\ PollerOfPast /\ WatchOfClaim /\ PollTold /\ LatchesInv
IInv == TypeOK /\ SlotInv /\ MonitorInv /\ PollInv /\ StallsAreReal

-----------------------------------------------------------------------------
(* The kinds of step, and what each leaves alone.                          *)

HostStep == Claim \/ MarkAsActive \/ AddListener \/ RequestRecycle
FfiStep ==
  \/ ProveAlive \/ StartRecycle \/ Turn \/ Dispatch \/ Served \/ Overflow
  \/ ResetForNextOwner \/ Quarantine \/ ReleaseClaim
MonitorStep ==
  \/ MonitorInit \/ LookAtStuck \/ NoticeStuck \/ LookAtLifecycle \/ LoadHeartbeat
  \/ Moved \/ Stalled \/ Quiet
PollStep(p) ==
  \/ \E token \in Claims : BeginPoll(p, token)
  \/ Round(p) \/ ReadLifecycle(p) \/ OpenWatch(p) \/ ReadBeat(p) \/ Rest(p)

\* Time, beats and claims only grow, and an owner stays marked active.
Grows ==
  /\ now <= now' /\ heartbeat <= heartbeat' /\ generation <= generation'
  /\ \A g \in Claims : activeAt[g] # 0 => activeAt'[g] = activeAt[g]

\* Every step is of one kind.
LEMMA Steps ==
  ASSUME [Next]_vars
  PROVE  \/ Tick \/ HostStep \/ FfiStep \/ MonitorStep
         \/ \E p \in Pollers : PollStep(p)
         \/ UNCHANGED vars
  BY DEF Next, HostStep, FfiStep, MonitorStep, PollStep

\* The claim after an odd generation is within the bound.
LEMMA AfterOdd ==
  ASSUME NEW g \in Claims, g % 2 = 1
  PROVE  g + 1 \in Claims
  BY BoundsAssumption DEF Claims

\* Neither the owners nor the FFI thread touch the watchers or what they told.
LEMMA SlotStepsApart ==
  ASSUME Tick \/ HostStep \/ FfiStep
  PROVE  UNCHANGED <<monitor, watch, call, history>>
  BY DEF Tick, HostStep, FfiStep, Claim, MarkAsActive, AddListener, RequestRecycle,
         Host, ProveAlive, StartRecycle, Turn, Dispatch, Served, Overflow,
         ResetForNextOwner, Quarantine, ReleaseClaim, FfiThread

\* The watchers do not touch the slot.
LEMMA WatchersApart ==
  /\ MonitorStep => UNCHANGED <<now, slot, watch, call>> /\ ~PollMode
  /\ \A p \in Pollers :
       PollStep(p) => UNCHANGED <<now, slot, monitor>> /\ PollMode' = PollMode
<1>1. MonitorStep => UNCHANGED <<now, slot, watch, call>> /\ ~PollMode
  BY DEF MonitorStep, MonitorInit, LookAtStuck, NoticeStuck, LookAtLifecycle,
         LoadHeartbeat, Moved, Stalled, Quiet, EventThread, MonitorGoto, MonitorAt,
         PollMode
<1>2. \A p \in Pollers : PollStep(p) => UNCHANGED <<now, slot, monitor>>
  BY DEF PollStep, BeginPoll, Round, ReadLifecycle, OpenWatch, ReadBeat, Rest, Poller
<1>3. monitor' = monitor => PollMode' = PollMode
  BY DEF PollMode
<1> QED
  BY <1>1, <1>2, <1>3

\* There is one kind of watcher: the event thread does not turn into pollers.
LEMMA MonitorStays ==
  ASSUME TypeOK, MonitorStep
  PROVE  ~PollMode'
<1>1. monitor \in Monitors
  BY DEF TypeOK
<1> QED
  BY <1>1
  DEF MonitorStep, MonitorInit, LookAtStuck, NoticeStuck, LookAtLifecycle,
      LoadHeartbeat, Moved, Stalled, Quiet, MonitorGoto, MonitorAt, PollMode, Monitors

-----------------------------------------------------------------------------
(* The slot.                                                               *)

LEMMA HostStepKeeps ==
  ASSUME TypeOK, SlotInv, HostStep
  PROVE  TypeOK' /\ SlotInv' /\ Grows
<1> USE DEF Host, history, Owned
<1>1. CASE Claim
  <2>1. generation' \in Claims /\ generation' = generation + 1
    BY <1>1 DEF Claim
  <2>2. TypeOK'
    BY <1>1, <2>1 DEF Claim, TypeOK
  <2>3. SlotInv'
    BY <1>1, <2>1 DEF Claim, TypeOK, SlotInv, Clock, SlotStates
  <2>4. Grows
    BY <1>1, <2>1 DEF Claim, TypeOK, Grows, Claims
  <2> QED
    BY <2>2, <2>3, <2>4
<1>2. CASE MarkAsActive
  <2>1. TypeOK'
    BY <1>2 DEF MarkAsActive, TypeOK, Lifecycles
  <2>2. SlotInv' /\ Grows
    BY <1>2 DEF MarkAsActive, TypeOK, SlotInv, Clock, SlotStates, Grows, Claims
  <2> QED
    BY <2>1, <2>2
<1>3. CASE AddListener
  <2>1. TypeOK'
    BY <1>3 DEF AddListener, TypeOK, Tellable
  <2>2. SlotInv' /\ Grows
    BY <1>3 DEF AddListener, TypeOK, SlotInv, Clock, SlotStates, Grows, Claims
  <2> QED
    BY <2>1, <2>2
<1>4. CASE RequestRecycle
  <2>1. TypeOK'
    BY <1>4 DEF RequestRecycle, TypeOK, Lifecycles
  <2>2. SlotInv' /\ Grows
    BY <1>4 DEF RequestRecycle, TypeOK, SlotInv, Clock, SlotStates, Grows, Claims
  <2> QED
    BY <2>1, <2>2
<1> QED
  BY <1>1, <1>2, <1>3, <1>4 DEF HostStep

LEMMA FfiStepKeeps ==
  ASSUME TypeOK, SlotInv, FfiStep
  PROVE  TypeOK' /\ SlotInv' /\ Grows
<1> USE DEF FfiThread, FfiGoto, history
<1>1. CASE ReleaseClaim
  <2>1. generation' \in Claims /\ generation' = generation + 1
    BY <1>1, AfterOdd DEF ReleaseClaim, TypeOK, SlotInv, SlotStates, Owned
  <2>2. TypeOK'
    BY <1>1, <2>1 DEF ReleaseClaim, TypeOK
  <2>3. SlotInv' /\ Grows
    BY <1>1, <2>1 DEF ReleaseClaim, TypeOK, SlotInv, Clock, SlotStates, Grows, Claims
  <2> QED
    BY <2>2, <2>3
<1>2. ASSUME ProveAlive \/ Dispatch
      PROVE  TypeOK' /\ SlotInv' /\ Grows
  <2>1. TypeOK'
    BY <1>2 DEF ProveAlive, Dispatch, TypeOK
  <2>2. /\ heartbeat' = now /\ ffi \in {"top", "serve"} /\ ffi' \in {"turn", "serve"}
        /\ UNCHANGED <<now, generation, lifecycle, activeAt>>
    BY <1>2 DEF ProveAlive, Dispatch
  <2>3. Clock'
    BY <2>2 DEF TypeOK, SlotInv, Clock
  <2>4. SlotStates'
    BY <2>2 DEF SlotInv, SlotStates, Owned
  <2>5. Grows
    BY <2>2 DEF TypeOK, SlotInv, Clock, Grows, Claims
  <2> QED
    BY <2>1, <2>3, <2>4, <2>5 DEF SlotInv
<1>3. ASSUME \/ StartRecycle \/ Turn \/ Served \/ Overflow
             \/ ResetForNextOwner \/ Quarantine
      PROVE  TypeOK' /\ SlotInv' /\ Grows
  <2>1. UNCHANGED <<now, heartbeat, generation, activeAt, monitor, watch, call,
                    history>>
    BY <1>3
    DEF StartRecycle, Turn, Served, Overflow, ResetForNextOwner, Quarantine
  <2>2. TypeOK'
    <3>1. /\ lifecycle' \in Lifecycles /\ stuck' \in BOOLEAN /\ listening' \in Tellable
          /\ ffi' \in {"top", "turn", "serve", "recycle", "finish"}
      BY <1>3
      DEF StartRecycle, Turn, Served, Overflow, ResetForNextOwner, Quarantine, TypeOK,
          Lifecycles, Tellable
    <3> QED
      BY <2>1, <3>1 DEF TypeOK
  <2>3. SlotStates'
    BY <1>3, <2>1
    DEF StartRecycle, Turn, Served, Overflow, ResetForNextOwner, Quarantine, SlotInv,
        SlotStates, Owned
  <2>4. Clock' /\ Grows
    BY <2>1 DEF TypeOK, SlotInv, Clock, Grows, Claims
  <2> QED
    BY <2>2, <2>3, <2>4 DEF SlotInv
<1> QED
  BY <1>1, <1>2, <1>3 DEF FfiStep

LEMMA TickKeeps ==
  ASSUME TypeOK, SlotInv, Tick
  PROVE  TypeOK' /\ SlotInv' /\ Grows
<1>1. TypeOK'
  BY DEF Tick, TypeOK, slot, history
<1>2. now' = now + 1 /\ UNCHANGED slot
  BY DEF Tick
<1>3. Clock'
  <2>1. now \in Nat /\ heartbeat \in Nat /\ \A g \in Claims : activeAt[g] \in Nat
    BY DEF TypeOK
  <2> QED
    BY <1>2, <2>1 DEF slot, SlotInv, Clock
<1>4. Grows
  BY <1>2 DEF TypeOK, slot, Grows, Claims
<1>5. SlotStates'
  BY <1>2 DEF slot, SlotInv, SlotStates, Owned
<1> QED
  BY <1>1, <1>3, <1>4, <1>5 DEF SlotInv

-----------------------------------------------------------------------------
(* The watchers, while only the slot moves.                                *)

LEMMA MonitorFrame ==
  ASSUME TypeOK, TypeOK', MonitorInv, Grows, UNCHANGED <<monitor, told>>
  PROVE  MonitorInv'
<1> USE DEF PollMode
<1>1. MonitorSees'
  BY DEF TypeOK, Monitors, MonitorInv, MonitorSees, Grows
<1>2. MonitorTold'
  BY DEF MonitorInv, MonitorTold
<1> QED
  BY <1>1, <1>2 DEF MonitorInv

LEMMA PollFrame ==
  ASSUME TypeOK, TypeOK', PollInv, Grows, UNCHANGED <<monitor, watch, call, history>>
  PROVE  PollInv'
<1> USE DEF PollInv, PollMode, history
<1>1. OnePoller'
  BY DEF TypeOK, Polls, OnePoller, Polling, Grows
<1>2. PollerOfPast'
  <2> SUFFICES ASSUME NEW p \in Pollers
               PROVE  /\ Within(p) => watch.generation <= call[p].token
                                         /\ call[p].token <= generation'
                      /\ At(p, "beat") => /\ watch.generation = call[p].token
                                          /\ call[p].now - watch.startedAt > StartDelay
                                          /\ call[p].now <= now'
                                          /\ \A r \in told : r.at <= call[p].now
    BY DEF PollerOfPast, Within, At
  <2>1. /\ call[p].token \in Nat /\ call[p].now \in Nat
        /\ generation \in Nat /\ generation' \in Nat /\ now \in Nat /\ now' \in Nat
    <3>1. call[p] \in Polls
      BY DEF TypeOK
    <3> QED
      BY <3>1 DEF TypeOK, Polls, Claims
  <2> QED
    BY <2>1 DEF PollerOfPast, Grows
<1>3. WatchOfClaim'
  <2>1. watch.generation \in Tellable /\ watch.startedAt \in Nat
        /\ generation \in Nat /\ generation' \in Nat
    BY DEF TypeOK, Watches, Claims
  <2>2. watch.generation \in Nat
    BY <2>1 DEF Tellable, Claims, Nobody
  <2>3. watch.generation <= generation'
    BY <2>1, <2>2 DEF WatchOfClaim, Grows
  <2> QED
    BY <2>3 DEF WatchOfClaim, Grows
<1>4. PollTold'
  <2> SUFFICES ASSUME PollMode, NEW r \in told
               PROVE  /\ r.to \in Claims /\ r.to <= watch.generation
                      /\ activeAt'[r.to] # 0 /\ r.at - activeAt'[r.to] > StartDelay
                      /\ r.at <= now'
                      /\ r.beat <= heartbeat'
                      /\ r.to = watch.generation =>
                           /\ r.beat = 0 => r.at - watch.startedAt > StaleThreshold
                           /\ ~watch.notifiedStale => r.beat < heartbeat'
    BY DEF PollTold
  <2>1. /\ r \in Reports /\ now \in Nat /\ now' \in Nat
        /\ heartbeat \in Nat /\ heartbeat' \in Nat
    BY DEF TypeOK
  <2>2. activeAt'[r.to] = activeAt[r.to]
    BY DEF PollTold, Grows
  <2>3. r.at <= now' /\ r.beat <= heartbeat'
        /\ (r.beat < heartbeat => r.beat < heartbeat')
    BY <2>1 DEF PollTold, Grows, Reports
  <2> QED
    BY <2>2, <2>3 DEF PollTold
<1>5. LatchesInv'
  BY DEF LatchesInv, LatchesOfOwner, StallsAlternate
<1> QED
  BY <1>1, <1>2, <1>3, <1>4, <1>5

-----------------------------------------------------------------------------
(* Callback mode.                                                          *)

\* A report to whom the listeners belong leaves the histories well typed.
LEMMA TellTypes ==
  ASSUME TypeOK, NEW g \in Tellable, NEW beat \in Nat, NEW at \in Nat,
         \/ TellStall(g, beat, at) \/ TellResumed(g) \/ TellFull(g) \/ UNCHANGED history
  PROVE  /\ told' \subseteq Reports
         /\ stalls' \in [Tellable -> Nat] /\ resumes' \in [Tellable -> Nat]
         /\ full' \in [Tellable -> Nat]
<1>1. CASE TellStall(g, beat, at)
  BY <1>1 DEF TypeOK, TellStall, Reports
<1>2. CASE TellResumed(g)
  BY <1>2 DEF TypeOK, TellResumed
<1>3. CASE TellFull(g)
  BY <1>3 DEF TypeOK, TellFull
<1>4. CASE UNCHANGED history
  BY <1>4 DEF TypeOK, history
<1> QED
  BY <1>1, <1>2, <1>3, <1>4

LEMMA MonitorStepTypes ==
  ASSUME TypeOK, MonitorStep
  PROVE  TypeOK'
<1>1. /\ listening \in Tellable /\ now \in Nat /\ heartbeat \in Nat
      /\ monitor \in Monitors /\ monitor.cur \in Nat
  BY DEF TypeOK, Monitors
<1>2. monitor' \in Monitors
  BY <1>1
  DEF MonitorStep, MonitorInit, LookAtStuck, NoticeStuck, LookAtLifecycle,
      LoadHeartbeat, Moved, Stalled, Quiet, MonitorGoto, MonitorAt, Monitors
<1>3. \/ TellStall(listening, monitor.cur, now) \/ TellResumed(listening)
      \/ TellFull(listening) \/ UNCHANGED history
  BY DEF MonitorStep, MonitorInit, LookAtStuck, NoticeStuck, LookAtLifecycle,
         LoadHeartbeat, Moved, Stalled, Quiet
<1>4. /\ told' \subseteq Reports
      /\ stalls' \in [Tellable -> Nat] /\ resumes' \in [Tellable -> Nat]
      /\ full' \in [Tellable -> Nat]
  BY <1>1, <1>3, TellTypes
<1>5. UNCHANGED <<now, slot, watch, call>>
  BY WatchersApart
<1> QED
  BY <1>2, <1>4, <1>5 DEF TypeOK, slot

\* Only a check tells of a stall, and it is of the beat that did not move.
LEMMA MonitorStepKeeps ==
  ASSUME TypeOK, SlotInv, MonitorInv, StallsAreReal, MonitorStep
  PROVE  MonitorInv' /\ StallsAreReal'
<1>1. ~PollMode /\ UNCHANGED <<now, slot>>
  BY WatchersApart
<1>2. /\ now \in Nat /\ heartbeat \in Nat /\ heartbeat <= now
      /\ monitor \in Monitors /\ \A r \in told : r \in Reports
  BY DEF TypeOK, SlotInv, Clock
<1>3. /\ monitor.lastValue \in Nat /\ monitor.lastChange \in Nat /\ monitor.cur \in Nat
      /\ monitor.notifiedStale \in BOOLEAN
  BY <1>2 DEF Monitors
<1>4. /\ \A r \in told : /\ r.beat <= monitor.lastValue
                         /\ ~monitor.notifiedStale => r.beat < monitor.lastValue
      /\ monitor.lastValue <= monitor.lastChange /\ monitor.lastValue <= heartbeat
      /\ monitor.pc = "check" =>
           monitor.lastValue <= monitor.cur /\ monitor.cur <= heartbeat
  BY <1>1 DEF MonitorInv, MonitorTold, MonitorSees
<1>5. CASE MonitorInit
  <2>1. /\ monitor'.lastValue = heartbeat /\ monitor'.lastChange = now
        /\ monitor'.pc = "wait" /\ monitor'.notifiedStale = monitor.notifiedStale
        /\ told' = told /\ heartbeat' = heartbeat
    BY <1>1, <1>2, <1>5 DEF MonitorInit, Monitors, slot, history
  <2>2. MonitorSees'
    BY <1>2, <2>1 DEF MonitorSees
  <2>3. MonitorTold'
    BY <1>2, <1>3, <1>4, <2>1 DEF MonitorTold, Reports
  <2> QED
    BY <2>1, <2>2, <2>3 DEF MonitorInv, StallsAreReal
<1>6. ASSUME LookAtStuck \/ NoticeStuck \/ LookAtLifecycle \/ LoadHeartbeat \/ Quiet
      PROVE  MonitorInv' /\ StallsAreReal'
  <2>1. /\ monitor'.lastValue = monitor.lastValue
        /\ monitor'.lastChange = monitor.lastChange
        /\ monitor'.notifiedStale = monitor.notifiedStale
        /\ monitor'.pc = "check" => monitor'.cur = heartbeat
        /\ told' = told /\ heartbeat' = heartbeat
    BY <1>1, <1>2, <1>6
    DEF LookAtStuck, NoticeStuck, LookAtLifecycle, LoadHeartbeat, Quiet, MonitorGoto,
        Monitors, slot, history, TellFull
  <2>2. MonitorSees'
    BY <1>2, <1>4, <2>1 DEF MonitorSees
  <2>3. MonitorTold'
    BY <1>4, <2>1 DEF MonitorTold
  <2> QED
    BY <2>1, <2>2, <2>3 DEF MonitorInv, StallsAreReal
<1>7. CASE Moved
  <2>1. /\ monitor'.lastValue = monitor.cur /\ monitor'.lastChange = now
        /\ monitor'.pc = "wait" /\ told' = told /\ heartbeat' = heartbeat
        /\ monitor.lastValue < monitor.cur /\ monitor.cur <= heartbeat
    BY <1>1, <1>2, <1>3, <1>4, <1>7
    DEF Moved, MonitorAt, Monitors, slot, history, TellResumed
  <2>2. MonitorSees'
    BY <1>2, <1>3, <2>1 DEF MonitorSees
  <2>3. MonitorTold'
    BY <1>2, <1>3, <1>4, <2>1 DEF MonitorTold, Reports
  <2> QED
    BY <2>1, <2>2, <2>3 DEF MonitorInv, StallsAreReal
<1>8. CASE Stalled
  <2> DEFINE new == [to |-> listening, beat |-> monitor.cur, at |-> now]
  <2>1. /\ monitor'.lastValue = monitor.lastValue /\ monitor'.notifiedStale
        /\ monitor'.lastChange = monitor.lastChange /\ monitor'.pc = "wait"
        /\ told' = told \union {new} /\ heartbeat' = heartbeat
        /\ monitor.cur = monitor.lastValue /\ ~monitor.notifiedStale
        /\ now - monitor.lastChange > StaleThreshold
    BY <1>1, <1>2, <1>8 DEF Stalled, MonitorAt, Monitors, slot, TellStall
  <2>2. MonitorSees'
    BY <1>4, <2>1 DEF MonitorSees
  <2>3. new.to = listening /\ new.beat = monitor.lastValue /\ new.at = now
    BY <2>1
  <2>4. MonitorTold'
    BY <1>3, <1>4, <2>1, <2>3 DEF MonitorTold
  <2>5. new.at - new.beat > StaleThreshold
    BY <1>2, <1>3, <1>4, <2>1, <2>3, DurationsAssumption
  <2>6. \A r \in told : r.beat # new.beat
    BY <1>2, <1>3, <1>4, <2>1, <2>3 DEF Reports
  <2>7. StallsAreReal'
    BY <2>1, <2>5, <2>6 DEF StallsAreReal
  <2> QED
    BY <2>2, <2>4, <2>7 DEF MonitorInv
<1> QED
  BY <1>5, <1>6, <1>7, <1>8 DEF MonitorStep

\* No poll is under way in callback mode.
LEMMA MonitorStepLeavesPolls ==
  ASSUME TypeOK, PollInv, MonitorStep
  PROVE  PollInv'
<1>1. ~PollMode /\ ~PollMode' /\ UNCHANGED <<now, slot, watch, call>>
  BY WatchersApart, MonitorStays
<1>2. OnePoller' /\ WatchOfClaim'
  BY <1>1 DEF slot, PollInv, OnePoller, Polling, WatchOfClaim
<1>3. PollerOfPast'
  BY <1>1 DEF slot, PollInv, OnePoller, Polling, PollerOfPast, Within, At
<1>4. PollTold' /\ LatchesInv'
  BY <1>1 DEF PollTold, LatchesInv
<1> QED
  BY <1>2, <1>3, <1>4 DEF PollInv

-----------------------------------------------------------------------------
(* Poll mode.                                                              *)

LEMMA WatchTyped ==
  ASSUME TypeOK, NEW p \in Pollers
  PROVE  WatchOf(p) \in Watches
BY DEF TypeOK, WatchOf, Watches, Polls, Tellable

LEMMA PollStepTypes ==
  ASSUME TypeOK, NEW p \in Pollers, PollStep(p)
  PROVE  TypeOK'
<1>1. /\ call[p] \in Polls /\ call[p].token \in Tellable /\ call[p].now \in Nat
      /\ now \in Nat /\ heartbeat \in Nat
  BY DEF TypeOK, Polls, Tellable
<1>2. NoCall \in Polls
  BY BoundsAssumption DEF NoCall, Polls, Claims
<1>3. UNCHANGED <<now, slot, monitor>>
  BY WatchersApart
<1>4. call' \in [Pollers -> Polls]
  BY <1>1, <1>2
  DEF TypeOK, PollStep, BeginPoll, Round, ReadLifecycle, OpenWatch, ReadBeat, Rest,
      Moves, Returns, Polls
<1>5. watch' \in Watches
  <2>1. CASE OpenWatch(p)
    BY <2>1, WatchTyped DEF OpenWatch, Watches
  <2>2. CASE ReadBeat(p)
    <3>1. Silent(p) \in BOOLEAN
      BY DEF Silent
    <3>2. watch' = [watch EXCEPT !.notifiedStale = Silent(p)]
      BY <2>2 DEF ReadBeat
    <3> QED
      BY <3>1, <3>2 DEF TypeOK, Watches
  <2> QED
    BY <2>1, <2>2 DEF TypeOK, PollStep, BeginPoll, Round, ReadLifecycle, Rest
<1>6. \/ TellStall(call[p].token, heartbeat, call[p].now) \/ TellResumed(call[p].token)
      \/ TellFull(call[p].token) \/ UNCHANGED history
  BY DEF PollStep, BeginPoll, Round, ReadLifecycle, OpenWatch, ReadBeat, Rest
<1>7. /\ told' \subseteq Reports
      /\ stalls' \in [Tellable -> Nat] /\ resumes' \in [Tellable -> Nat]
      /\ full' \in [Tellable -> Nat]
  BY <1>1, <1>6, TellTypes
<1> QED
  BY <1>3, <1>4, <1>5, <1>7 DEF TypeOK, slot

\* The lock: a poll begins when there is none, and goes on as the one poll.
LEMMA PollStepOne ==
  ASSUME TypeOK, PollInv, NEW p \in Pollers, PollStep(p)
  PROVE  /\ PollMode
         /\ OnePoller'
         /\ \A q \in Pollers : q # p => call'[q] = call[q] /\ ~Polling(q)
<1>1. UNCHANGED <<now, slot, monitor>> /\ PollMode' = PollMode
  BY WatchersApart
<1>2. call[p] \in Polls /\ call \in [Pollers -> Polls]
  BY DEF TypeOK
<1>3. CASE \E token \in Claims : BeginPoll(p, token)
  BY <1>1, <1>2, <1>3 DEF BeginPoll, PollLockFree, OnePoller, Polling, slot
<1>4. CASE Round(p) \/ ReadLifecycle(p) \/ OpenWatch(p) \/ ReadBeat(p) \/ Rest(p)
  <2>1. Polling(p)
    BY <1>4 DEF Round, ReadLifecycle, OpenWatch, ReadBeat, Rest, At, Polling
  <2>2. \A q \in Pollers : q # p => call'[q] = call[q] /\ ~Polling(q)
    BY <1>2, <1>4, <2>1
    DEF Round, ReadLifecycle, OpenWatch, ReadBeat, Rest, Moves, Returns, PollInv,
        OnePoller
  <2>3. call'[p].token = call[p].token \/ call'[p] = NoCall
    BY <1>2, <1>4
    DEF Round, ReadLifecycle, OpenWatch, ReadBeat, Rest, Moves, Returns, Polls
  <2>4. \A q \in Pollers : Polling(q)' => q = p
    BY <2>2 DEF Polling
  <2>5. PollMode /\ activeAt[call[p].token] # 0
    BY <2>1 DEF PollInv, OnePoller
  <2>6. \A q \in Pollers : Polling(q)' => PollMode /\ activeAt'[call'[q].token] # 0
    BY <1>1, <2>3, <2>4, <2>5 DEF Polling, NoCall, slot
  <2> QED
    BY <1>1, <2>2, <2>4, <2>5, <2>6 DEF OnePoller
<1> QED
  BY <1>3, <1>4 DEF PollStep

\* A step of a poll that neither opens the watch nor tells anything.
LEMMA QuietPollKeeps ==
  ASSUME TypeOK, PollInv, NEW p \in Pollers,
         \/ \E token \in Claims : BeginPoll(p, token)
         \/ Round(p) \/ ReadLifecycle(p) \/ Rest(p)
  PROVE  PollerOfPast' /\ WatchOfClaim' /\ PollTold' /\ LatchesInv'
<1>1. PollStep(p)
  BY DEF PollStep
<1>2. UNCHANGED <<now, slot, watch, history>> /\ PollMode' = PollMode
  BY <1>1, WatchersApart DEF BeginPoll, Round, ReadLifecycle, Rest
<1>3. WatchOfClaim' /\ PollTold' /\ LatchesInv'
  BY <1>2
  DEF slot, history, PollInv, WatchOfClaim, PollTold, LatchesInv, LatchesOfOwner,
      StallsAlternate
<1>4. /\ call[p] \in Polls /\ call \in [Pollers -> Polls] /\ generation \in Nat
      /\ watch.generation <= generation
  BY DEF TypeOK, Claims, PollInv, WatchOfClaim
<1>5. At(p, "beat")' => FALSE
  BY <1>4
  DEF BeginPoll, Round, ReadLifecycle, Rest, Moves, Returns, At, NoCall, Polls
<1>6. Within(p)' => /\ watch.generation <= call'[p].token
                    /\ call'[p].token <= generation
  <2>1. CASE \E token \in Claims : BeginPoll(p, token)
    <3>1. call'[p].pc = "round"
      BY <1>4, <2>1 DEF BeginPoll, Polls
    <3> QED
      BY <3>1 DEF Within
  <2>2. CASE Round(p)
    BY <1>4, <2>2 DEF Round, Moves, Returns, Within, NoCall, Polls
  <2>3. CASE ReadLifecycle(p) \/ Rest(p)
    BY <1>4, <2>3
    DEF ReadLifecycle, Rest, At, Moves, Returns, Within, NoCall, Polls, PollInv,
        PollerOfPast
  <2> QED
    BY <2>1, <2>2, <2>3
<1>7. PollerOfPast'
  BY <1>1, <1>2, <1>5, <1>6, PollStepOne
  DEF slot, history, PollInv, PollerOfPast, Within, At, Polling
<1> QED
  BY <1>3, <1>7


\* The first look at a claim begins a watch of its own: nobody was told anything of it.
LEMMA OpenWatchKeeps ==
  ASSUME TypeOK, SlotInv, PollInv, NEW p \in Pollers, OpenWatch(p)
  PROVE  PollerOfPast' /\ WatchOfClaim' /\ PollTold' /\ LatchesInv'
<1> DEFINE c == call[p]
           w == WatchOf(p)
           tells == stuck /\ ~w.notifiedStuck
<1>1. PollStep(p) /\ UNCHANGED <<now, slot, monitor>> /\ PollMode /\ PollMode'
  BY WatchersApart, PollStepOne DEF PollStep
<1>2. /\ call \in [Pollers -> Polls] /\ c.token \in Claims /\ c.token \in Nat
      /\ now \in Nat /\ generation \in Nat
      /\ watch.generation \in Nat /\ watch.startedAt \in Nat
      /\ watch.notifiedStale \in BOOLEAN /\ watch.notifiedStuck \in BOOLEAN
      /\ w \in Watches
  <2>1. call \in [Pollers -> Polls] /\ watch \in Watches /\ generation \in Claims
    BY DEF TypeOK
  <2>2. Claims \subseteq Nat /\ Tellable \subseteq Nat
    BY DEF Tellable, Claims, Nobody
  <2> QED
    BY <2>1, <2>2, WatchTyped DEF TypeOK, Polls, Watches
<1>3. c.pc = "watch" /\ watch.generation <= c.token /\ c.token <= generation
  BY DEF OpenWatch, At, PollInv, PollerOfPast, Within
<1>4. activeAt[c.token] # 0 /\ activeAt[c.token] <= now
  BY <1>2, <1>3 DEF PollInv, OnePoller, Polling, SlotInv, Clock
<1>5. \/ w = watch /\ watch.generation = c.token
      \/ /\ w = [generation |-> c.token, startedAt |-> now,
                 notifiedStale |-> FALSE, notifiedStuck |-> FALSE]
         /\ watch.generation < c.token
  BY <1>2, <1>3 DEF WatchOf
<1>6. w.generation = c.token /\ activeAt[c.token] <= w.startedAt
  BY <1>2, <1>4, <1>5 DEF PollInv, WatchOfClaim
<1>7. told' = told
  BY DEF OpenWatch, TellFull, history
<1>8. /\ watch'.generation = c.token /\ watch'.startedAt = w.startedAt
      /\ watch'.notifiedStale = w.notifiedStale
  BY <1>2, <1>6 DEF OpenWatch, Watches
<1>9. \A r \in told : /\ r \in Reports /\ r.to \in Claims /\ r.to <= watch.generation
                      /\ r.at <= now
  BY <1>1 DEF TypeOK, PollInv, PollTold
<1>10. WatchOfClaim'
  BY <1>1, <1>2, <1>3, <1>4, <1>6, <1>8 DEF slot, WatchOfClaim
<1>11. PollTold'
  <2> SUFFICES ASSUME NEW r \in told
               PROVE  /\ r.to \in Claims /\ r.to <= c.token
                      /\ activeAt[r.to] # 0 /\ r.at - activeAt[r.to] > StartDelay
                      /\ r.at <= now /\ r.beat <= heartbeat
                      /\ r.to = c.token =>
                           /\ r.beat = 0 => r.at - w.startedAt > StaleThreshold
                           /\ ~w.notifiedStale => r.beat < heartbeat
    BY <1>1, <1>7, <1>8 DEF slot, PollTold
  <2>1. r.to \in Nat /\ r.to <= watch.generation
    BY <1>9 DEF Claims
  <2>2. r.to <= c.token /\ (r.to = c.token => w = watch /\ watch.generation = c.token)
    BY <1>2, <1>3, <1>5, <2>1
  <2> QED
    BY <1>1, <2>2 DEF PollInv, PollTold
<1>12. PollerOfPast'
  <2>1. \A q \in Pollers : q # p => call'[q].pc = "idle"
    BY <1>1, PollStepOne DEF Polling
  <2>2. \/ call'[p].pc = "idle"
        \/ /\ call'[p].token = c.token /\ call'[p].now = now
           /\ call'[p].pc = IF now - w.startedAt > StartDelay THEN "beat" ELSE "rest"
    BY <1>2 DEF OpenWatch, Returns, NoCall, Polls
  <2>3. Within(p)' => /\ watch'.generation <= call'[p].token
                      /\ call'[p].token <= generation'
    BY <1>1, <1>2, <1>3, <1>8, <2>2 DEF slot, Within
  <2>4. At(p, "beat")' => /\ watch'.generation = call'[p].token
                          /\ call'[p].now - watch'.startedAt > StartDelay
                          /\ call'[p].now <= now'
                          /\ \A r \in told' : r.at <= call'[p].now
    BY <1>1, <1>2, <1>7, <1>8, <1>9, <2>2 DEF At
  <2> QED
    BY <2>1, <2>3, <2>4 DEF PollerOfPast, Within, At
<1>13. LatchesInv'
  <2>1. /\ \A g \in Claims : g > watch.generation =>
                               stalls[g] = 0 /\ resumes[g] = 0 /\ full[g] = 0
        /\ watch.generation = c.token =>
             /\ stalls[c.token] =
                  resumes[c.token] + (IF watch.notifiedStale THEN 1 ELSE 0)
             /\ full[c.token] = (IF watch.notifiedStuck THEN 1 ELSE 0)
        /\ LatchesOfOwner
    BY <1>1, <1>2 DEF PollInv, LatchesInv
  <2>2. /\ stalls[c.token] = resumes[c.token] + (IF w.notifiedStale THEN 1 ELSE 0)
        /\ full[c.token] = (IF w.notifiedStuck THEN 1 ELSE 0)
    BY <1>2, <1>5, <2>1
  <2>3. \A g \in Claims : g > c.token => stalls[g] = 0 /\ resumes[g] = 0 /\ full[g] = 0
    BY <1>2, <1>3, <2>1 DEF Claims
  <2>4. CASE tells
    <3>1. /\ watch'.notifiedStuck /\ stalls' = stalls /\ resumes' = resumes
          /\ full' = [full EXCEPT ![c.token] = @ + 1]
      BY <1>2, <2>4 DEF OpenWatch, TellFull, Watches
    <3>2. full \in [Tellable -> Nat] /\ Claims \subseteq Tellable /\ full[c.token] = 0
      BY <2>2, <2>4 DEF TypeOK, Tellable
    <3>3. full'[c.token] = 1 /\ \A g \in Claims : g # c.token => full'[g] = full[g]
      BY <1>2, <3>1, <3>2
    <3>4. LatchesOfOwner'
      BY <1>1, <2>1, <3>1, <3>3 DEF LatchesOfOwner, StallsAlternate
    <3> QED
      BY <1>2, <1>8, <2>2, <2>3, <3>1, <3>3, <3>4 DEF LatchesInv, Claims
  <2>5. CASE ~tells
    <3>1. /\ watch'.notifiedStuck = w.notifiedStuck
          /\ stalls' = stalls /\ resumes' = resumes /\ full' = full
      BY <2>5 DEF OpenWatch, history
    <3>2. LatchesOfOwner'
      BY <1>1, <2>1, <3>1 DEF LatchesOfOwner, StallsAlternate
    <3> QED
      BY <1>2, <1>8, <2>2, <2>3, <3>1, <3>2 DEF LatchesInv, Claims
  <2> QED
    BY <2>4, <2>5
<1> QED
  BY <1>10, <1>11, <1>12, <1>13

\* The verdict on the beat: the latch tells a stall from one told already, and a beat
\* that ended the silence is a later one than any told of.
LEMMA ReadBeatKeeps ==
  ASSUME TypeOK, SlotInv, PollInv, StallsAreReal, NEW p \in Pollers, ReadBeat(p)
  PROVE  /\ PollerOfPast' /\ WatchOfClaim' /\ PollTold' /\ LatchesInv'
         /\ StallsAreReal'
<1> DEFINE c == call[p]
           new == [to |-> c.token, beat |-> heartbeat, at |-> c.now]
<1>1. PollStep(p) /\ UNCHANGED <<now, slot, monitor>> /\ PollMode /\ PollMode'
  BY WatchersApart, PollStepOne DEF PollStep
<1>2. /\ call \in [Pollers -> Polls] /\ c.token \in Claims /\ c.token \in Nat
      /\ c.now \in Nat /\ now \in Nat /\ heartbeat \in Nat /\ generation \in Nat
      /\ activeAt[c.token] \in Nat /\ StaleThreshold \in Nat /\ StartDelay \in Nat
      /\ watch \in Watches /\ watch.startedAt \in Nat
      /\ watch.notifiedStale \in BOOLEAN
  BY DurationsAssumption DEF TypeOK, Polls, Watches, Claims
<1>3. /\ watch.generation = c.token /\ c.token <= generation
      /\ c.now - watch.startedAt > StartDelay /\ c.now <= now
      /\ \A r \in told : r.at <= c.now
      /\ activeAt[c.token] # 0 /\ activeAt[c.token] <= watch.startedAt
  BY <1>2 DEF ReadBeat, At, PollInv, PollerOfPast, Within, WatchOfClaim
<1>4. /\ watch'.generation = c.token /\ watch'.startedAt = watch.startedAt
      /\ watch'.notifiedStale = Silent(p) /\ watch'.notifiedStuck = watch.notifiedStuck
  BY <1>2, <1>3 DEF ReadBeat, Watches
<1>5. \A r \in told :
        /\ r.to \in Claims /\ r.to <= c.token
        /\ activeAt[r.to] # 0 /\ r.at - activeAt[r.to] > StartDelay
        /\ r.at <= now /\ r.beat <= heartbeat
        /\ r.to = c.token => /\ r.beat = 0 => r.at - watch.startedAt > StaleThreshold
                             /\ ~watch.notifiedStale => r.beat < heartbeat
        /\ r.at \in Nat /\ r.beat \in Nat /\ r.at - r.beat > StaleThreshold
  BY <1>1, <1>3 DEF TypeOK, Reports, PollInv, PollTold, StallsAreReal
<1>6. WatchOfClaim'
  BY <1>1, <1>3, <1>4 DEF slot, WatchOfClaim
<1>7. PollerOfPast'
  <2>1. \A q \in Pollers : q # p => call'[q].pc = "idle"
    BY <1>1, PollStepOne DEF Polling
  <2>2. \/ call'[p].pc = "idle"
        \/ call'[p].pc = "rest" /\ call'[p].token = c.token
    BY <1>2 DEF ReadBeat, Moves, Returns, NoCall, Polls
  <2> QED
    BY <1>1, <1>2, <1>3, <1>4, <2>1, <2>2 DEF slot, PollerOfPast, Within, At
<1>8. /\ LatchesOfOwner
      /\ \A g \in Claims : g > c.token => stalls[g] = 0 /\ resumes[g] = 0 /\ full[g] = 0
      /\ stalls[c.token] = resumes[c.token] + (IF watch.notifiedStale THEN 1 ELSE 0)
      /\ full[c.token] = (IF watch.notifiedStuck THEN 1 ELSE 0)
  BY <1>1, <1>2, <1>3 DEF PollInv, LatchesInv
<1>9. /\ stalls \in [Tellable -> Nat] /\ resumes \in [Tellable -> Nat]
      /\ Claims \subseteq Tellable
  BY DEF TypeOK, Tellable
\* The silence goes on, or there is none.
<1>10. CASE Silent(p) = watch.notifiedStale
  <2>1. UNCHANGED history
    BY <1>10 DEF ReadBeat
  <2>2. StallsAreReal'
    BY <2>1 DEF history, StallsAreReal
  <2>3. PollTold'
    BY <1>1, <1>4, <1>5, <1>10, <2>1 DEF slot, history, PollTold
  <2>4. LatchesInv'
    BY <1>1, <1>2, <1>4, <1>8, <1>10, <2>1
    DEF history, LatchesInv, LatchesOfOwner, StallsAlternate
  <2> QED
    BY <1>6, <1>7, <2>2, <2>3, <2>4
\* A silence begins: the beat is a later one than any told to this claim.
<1>11. CASE Silent(p) /\ ~watch.notifiedStale
  <2>1. /\ told' = told \union {new} /\ stalls' = [stalls EXCEPT ![c.token] = @ + 1]
        /\ resumes' = resumes /\ full' = full /\ watch'.notifiedStale
    BY <1>2, <1>4, <1>11 DEF ReadBeat, TellStall
  <2>2. new.to = c.token /\ new.beat = heartbeat /\ new.at = c.now
    OBVIOUS
  <2>3. /\ new.at - new.beat > StaleThreshold
        /\ new.beat = 0 => new.at - watch.startedAt > StaleThreshold
    BY <1>2, <1>11, <2>2 DEF Silent
  <2>4. \A r \in told : r.to = new.to => r.beat # new.beat
    BY <1>2, <1>5, <1>11, <2>2
  <2>5. StallsAreReal'
    BY <2>1, <2>3, <2>4 DEF StallsAreReal
  <2>6. new.at - activeAt[new.to] > StartDelay /\ new.at <= now
    BY <1>2, <1>3, <2>2
  <2>7. PollTold'
    <3> SUFFICES ASSUME NEW r \in told \union {new}
                 PROVE  /\ r.to \in Claims /\ r.to <= c.token
                        /\ activeAt[r.to] # 0 /\ r.at - activeAt[r.to] > StartDelay
                        /\ r.at <= now /\ r.beat <= heartbeat
                        /\ r.to = c.token =>
                             (r.beat = 0 => r.at - watch.startedAt > StaleThreshold)
      BY <1>1, <1>4, <2>1 DEF slot, PollTold
    <3>1. CASE r = new
      BY <1>2, <1>3, <2>2, <2>3, <2>6, <3>1
    <3>2. CASE r \in told
      BY <1>5, <3>2
    <3> QED
      BY <3>1, <3>2
  <2>8. LatchesInv'
    <3>1. /\ stalls'[c.token] = resumes[c.token] + 1
          /\ \A g \in Claims : g # c.token => stalls'[g] = stalls[g]
      BY <1>2, <1>8, <1>9, <1>11, <2>1
    <3>2. LatchesOfOwner'
      BY <1>1, <1>2, <1>8, <1>9, <2>1, <3>1 DEF LatchesOfOwner, StallsAlternate
    <3> QED
      BY <1>2, <1>4, <1>8, <2>1, <3>1, <3>2 DEF LatchesInv, Claims
  <2> QED
    BY <1>6, <1>7, <2>5, <2>7, <2>8
\* The silence is over: the beat is no older than the threshold, those told of were.
<1>12. CASE ~Silent(p) /\ watch.notifiedStale
  <2>1. /\ told' = told /\ resumes' = [resumes EXCEPT ![c.token] = @ + 1]
        /\ stalls' = stalls /\ full' = full /\ ~watch'.notifiedStale
    BY <1>2, <1>4, <1>12 DEF ReadBeat, TellResumed
  <2>2. StallsAreReal'
    BY <2>1 DEF StallsAreReal
  <2>3. \A r \in told : r.to = c.token => r.beat < heartbeat
    <3> SUFFICES ASSUME NEW r \in told, r.to = c.token
                 PROVE  r.beat < heartbeat
      OBVIOUS
    <3>1. /\ r.at \in Nat /\ r.beat \in Nat /\ r.at <= c.now /\ r.beat <= heartbeat
          /\ r.at - r.beat > StaleThreshold
          /\ r.beat = 0 => r.at - watch.startedAt > StaleThreshold
      BY <1>3, <1>5
    <3>2. CASE heartbeat = 0
      BY <1>2, <1>12, <3>1, <3>2 DEF Silent
    <3>3. CASE heartbeat # 0
      BY <1>2, <1>12, <3>1, <3>3 DEF Silent
    <3> QED
      BY <3>2, <3>3
  <2>4. PollTold'
    BY <1>1, <1>4, <1>5, <2>1, <2>3 DEF slot, PollTold
  <2>5. LatchesInv'
    <3>1. /\ stalls[c.token] = resumes'[c.token]
          /\ \A g \in Claims : g # c.token => resumes'[g] = resumes[g]
      BY <1>2, <1>8, <1>9, <1>12, <2>1
    <3>2. LatchesOfOwner'
      BY <1>1, <1>2, <1>8, <1>9, <2>1, <3>1 DEF LatchesOfOwner, StallsAlternate
    <3>3. \A g \in Claims : g > c.token =>
            stalls'[g] = 0 /\ resumes'[g] = 0 /\ full'[g] = 0
      BY <1>2, <1>8, <2>1, <3>1
    <3>4. /\ stalls'[c.token] =
               resumes'[c.token] + (IF watch'.notifiedStale THEN 1 ELSE 0)
          /\ full'[c.token] = (IF watch'.notifiedStuck THEN 1 ELSE 0)
      BY <1>2, <1>4, <1>8, <1>9, <2>1, <3>1
    <3> QED
      BY <1>4, <2>1, <3>2, <3>3, <3>4 DEF LatchesInv
  <2> QED
    BY <1>6, <1>7, <2>2, <2>4, <2>5
<1>13. Silent(p) \in BOOLEAN
  BY DEF Silent
<1> QED
  BY <1>2, <1>10, <1>11, <1>12, <1>13

LEMMA PollStepKeeps ==
  ASSUME IInv, NEW p \in Pollers, PollStep(p)
  PROVE  IInv'
<1> USE DEF IInv
<1>1. UNCHANGED <<now, slot, monitor>> /\ PollMode /\ PollMode'
  BY WatchersApart, PollStepOne
<1>2. TypeOK' /\ OnePoller'
  BY PollStepTypes, PollStepOne
<1>3. SlotInv'
  BY <1>1 DEF slot, SlotInv, Clock, SlotStates, Owned
<1>4. MonitorInv'
  BY <1>1 DEF slot, MonitorInv, MonitorSees, MonitorTold
<1>5. PollerOfPast' /\ WatchOfClaim' /\ PollTold' /\ LatchesInv' /\ StallsAreReal'
  <2>1. CASE \/ \E token \in Claims : BeginPoll(p, token)
             \/ Round(p) \/ ReadLifecycle(p) \/ Rest(p)
    <3>1. told' = told
      BY <2>1 DEF BeginPoll, Round, ReadLifecycle, Rest, history
    <3>2. StallsAreReal'
      BY <3>1 DEF StallsAreReal
    <3> QED
      BY <2>1, <3>2, QuietPollKeeps
  <2>2. CASE OpenWatch(p)
    <3>1. told' = told
      BY <2>2 DEF OpenWatch, TellFull, history
    <3>2. StallsAreReal'
      BY <3>1 DEF StallsAreReal
    <3> QED
      BY <2>2, <3>2, OpenWatchKeeps
  <2>3. CASE ReadBeat(p)
    BY <2>3, ReadBeatKeeps
  <2> QED
    BY <2>1, <2>2, <2>3 DEF PollStep
<1> QED
  BY <1>2, <1>3, <1>4, <1>5 DEF PollInv

-----------------------------------------------------------------------------
(* The inductive invariant, and what follows from it.                      *)

LEMMA InitInv == Init => IInv
<1> SUFFICES ASSUME Init
             PROVE  IInv
  OBVIOUS
<1> USE DEF Init
<1>1. 1 \in Claims /\ Claims \subseteq Nat /\ Nobody \in Tellable
  BY BoundsAssumption DEF Claims, Tellable
<1>2. TypeOK
  <2>1. monitor \in Monitors
    BY DEF Monitors
  <2> QED
    BY <1>1, <2>1 DEF TypeOK, Lifecycles, Watches, Polls, NoCall, Tellable, Nobody
<1>3. SlotInv
  BY <1>1 DEF SlotInv, Clock, SlotStates, Owned
<1>4. MonitorInv
  BY DEF MonitorInv, MonitorSees, MonitorTold
<1>5. PollInv
  <2>1. OnePoller /\ PollerOfPast
    BY DEF NoCall, OnePoller, PollerOfPast, Polling, Within, At
  <2>2. WatchOfClaim /\ PollTold
    BY DEF WatchOfClaim, PollTold, Claims
  <2>3. LatchesInv
    BY DEF LatchesInv, LatchesOfOwner, StallsAlternate, Tellable
  <2> QED
    BY <2>1, <2>2, <2>3 DEF PollInv
<1> QED
  BY <1>2, <1>3, <1>4, <1>5 DEF IInv, StallsAreReal

LEMMA NextInv == IInv /\ [Next]_vars => IInv'
<1> SUFFICES ASSUME IInv, [Next]_vars
             PROVE  IInv'
  OBVIOUS
<1>1. ASSUME Tick \/ HostStep \/ FfiStep
      PROVE  IInv'
  <2>1. UNCHANGED <<monitor, watch, call, history>>
    BY <1>1, SlotStepsApart
  <2>2. TypeOK' /\ SlotInv' /\ Grows
    BY <1>1, TickKeeps, HostStepKeeps, FfiStepKeeps DEF IInv
  <2>3. MonitorInv' /\ PollInv'
    BY <2>1, <2>2, MonitorFrame, PollFrame DEF IInv, history
  <2> QED
    BY <2>1, <2>2, <2>3 DEF IInv, StallsAreReal, history
<1>2. CASE MonitorStep
  <2>1. TypeOK' /\ MonitorInv' /\ StallsAreReal' /\ PollInv'
    BY <1>2, MonitorStepTypes, MonitorStepKeeps, MonitorStepLeavesPolls DEF IInv
  <2>2. SlotInv'
    BY <1>2, WatchersApart DEF IInv, slot, SlotInv, Clock, SlotStates, Owned
  <2> QED
    BY <2>1, <2>2 DEF IInv
<1>3. CASE \E p \in Pollers : PollStep(p)
  BY <1>3, PollStepKeeps
<1>4. CASE UNCHANGED vars
  <2>1. /\ TypeOK' /\ SlotInv' /\ StallsAreReal'
    BY <1>4
    DEF IInv, vars, slot, history, TypeOK, SlotInv, Clock, SlotStates, Owned,
        StallsAreReal
  <2>2. Grows
    BY <1>4 DEF IInv, TypeOK, vars, slot, Grows, Claims
  <2>3. MonitorInv' /\ PollInv'
    BY <1>4, <2>1, <2>2, MonitorFrame, PollFrame DEF IInv, vars, history
  <2> QED
    BY <2>1, <2>3 DEF IInv
<1> QED
  BY <1>1, <1>2, <1>3, <1>4, Steps

\* The inductive invariant: the clock and the slot, the latches of the event thread, and
\* those of the polls (HeartbeatMonitor, HeartbeatWatch).
THEOREM WatchInvariant == Spec => []IInv
  BY InitInv, NextInv, PTL DEF Spec

\* The clock, the slot, the two watchers and what they told keep their types.
THEOREM WatchTypes == Spec => []TypeOK
<1>1. IInv => TypeOK
  BY DEF IInv
<1> QED
  BY <1>1, WatchInvariant, PTL

\* In either mode a stall that is told is of a beat older than the threshold
\* (FFIHeartbeatStaleThreshold), however late the watcher reads the clock and the beat,
\* and none is told twice.
THEOREM StallsReal == Spec => []StallsAreReal
<1>1. IInv => StallsAreReal
  BY DEF IInv
<1> QED
  BY <1>1, WatchInvariant, PTL

\* In poll mode a claim hears its stalls and recoveries in turn and of a full queue
\* once, whatever was told before it: checkLiveness resets its latches on another
\* generation.
THEOREM OwnerHearsItsOwn == Spec => []LatchesOfOwner
<1>1. IInv => LatchesOfOwner
  BY DEF IInv, PollInv, LatchesInv, LatchesOfOwner
<1> QED
  BY <1>1, WatchInvariant, PTL

\* In poll mode a claim that hears of a stall has itself been active for longer than
\* FFIHeartbeatStartDelay: the grace is the claim's, not the slot's.
THEOREM OwnerHasGrace == Spec => []GraceOfOwner
<1>1. IInv => GraceOfOwner
  BY DEF IInv, PollInv, PollTold, GraceOfOwner
<1> QED
  BY <1>1, WatchInvariant, PTL
=============================================================================
