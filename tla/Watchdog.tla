------------------------------- MODULE Watchdog -------------------------------
(***************************************************************************)
(* The watch over the FFI thread.  That thread stamps a heartbeat; in      *)
(* callback mode the event thread looks at it on every tick and calls the  *)
(* listeners, in poll mode the host's own poll does, and returns a report. *)
(* Both watch a slot whose owner changes, and both latch what they told.   *)
(*                                                                         *)
(* Time is a counter that anything may let run, so that a thread can be    *)
(* late at any step.  The threads run all along: a stop ends the watch, and *)
(* a restart begins a new one as Init does.                                *)
(***************************************************************************)
EXTENDS Integers

CONSTANTS
  Pollers,         \* host threads that poll
  StaleThreshold,  \* FFIHeartbeatStaleThreshold
  StartDelay,      \* FFIHeartbeatStartDelay
  MaxClaims,       \* bound: claims of the slot
  MaxTime          \* bound: how far the clock runs

ASSUME DurationsAssumption == StaleThreshold \in Nat /\ StartDelay \in Nat
ASSUME BoundsAssumption == MaxClaims \in Nat \ {0} /\ MaxTime \in Nat

Claims == 1 .. 2 * MaxClaims
Nobody == 0
Tellable == Claims \union {Nobody}

VARIABLES
  now,         \* the monotonic clock
  generation,  \* odd = claimed
  lifecycle,   \* CtxLifecycle
  heartbeat,   \* ffiHeartbeat: the time of the last beat, 0 before the first
  stuck,       \* eventQueueStuck
  ffi,         \* where the FFI thread is
  listening,   \* the claim whose listeners are registered, or Nobody
  activeAt,    \* history: when a claim was marked active, 0 before
  monitor,     \* the event thread: HeartbeatMonitor, notifiedStuck, where it is
  watch,       \* HeartbeatWatch
  call,        \* per poller: where it is, its token, the time it took
  told,        \* history: the stalls told, to whom, of which beat, when
  stalls,      \* history: how many stalls each claim was told of
  resumes,     \* history: how many recoveries
  full         \* history: how many full queues

slot == <<generation, lifecycle, heartbeat, stuck, ffi, listening, activeAt>>
history == <<told, stalls, resumes, full>>
vars == <<now, slot, monitor, watch, call, history>>

Owned == generation % 2 = 1

\* Built with -d:ffiPollMode: there is no event thread.
PollMode == monitor.pc = "absent"

NoCall == [pc |-> "idle", token |-> 1, now |-> 0]

Init ==
  /\ now = 1
  /\ generation = 1
  /\ lifecycle = "Active"
  /\ heartbeat = 0
  /\ stuck = FALSE
  /\ ffi = "top"
  /\ listening = Nobody
  /\ activeAt = [g \in Claims |-> IF g = 1 THEN now ELSE 0]
  /\ \E pc \in {"init", "absent"} :
       monitor = [pc |-> pc, startedAt |-> 0, lastValue |-> 0, lastChange |-> 0,
                  notifiedStale |-> FALSE, notifiedStuck |-> FALSE, cur |-> 0]
  /\ watch = [generation |-> 0, startedAt |-> 0,
              notifiedStale |-> FALSE, notifiedStuck |-> FALSE]
  /\ call = [p \in Pollers |-> NoCall]
  /\ told = {}
  /\ stalls = [g \in Tellable |-> 0]
  /\ resumes = [g \in Tellable |-> 0]
  /\ full = [g \in Tellable |-> 0]

Tick ==
  /\ now < MaxTime
  /\ now' = now + 1
  /\ UNCHANGED <<slot, monitor, watch, call, history>>

TellStall(g, beat, at) ==
  /\ told' = told \union {[to |-> g, beat |-> beat, at |-> at]}
  /\ stalls' = [stalls EXCEPT ![g] = @ + 1]
  /\ UNCHANGED <<resumes, full>>

TellResumed(g) ==
  /\ resumes' = [resumes EXCEPT ![g] = @ + 1]
  /\ UNCHANGED <<told, stalls, full>>

TellFull(g) ==
  /\ full' = [full EXCEPT ![g] = @ + 1]
  /\ UNCHANGED <<told, stalls, resumes>>

-----------------------------------------------------------------------------
(* The owners of the slot.                                                 *)

Host == UNCHANGED <<now, heartbeat, stuck, ffi, monitor, watch, call, history>>

Claim ==
  /\ ~Owned
  /\ generation + 1 \in Claims
  /\ generation' = generation + 1
  /\ UNCHANGED <<lifecycle, listening, activeAt>>
  /\ Host

MarkAsActive ==
  /\ Owned
  /\ activeAt[generation] = 0
  /\ lifecycle' = "Active"
  /\ activeAt' = [activeAt EXCEPT ![generation] = now]
  /\ UNCHANGED <<generation, listening>>
  /\ Host

AddListener ==
  /\ ~PollMode
  /\ Owned
  /\ lifecycle = "Active"
  /\ activeAt[generation] # 0
  /\ listening' = generation
  /\ UNCHANGED <<generation, lifecycle, activeAt>>
  /\ Host

RequestRecycle ==
  /\ lifecycle = "Active"
  /\ lifecycle' = "RecyclePending"
  /\ UNCHANGED <<generation, listening, activeAt>>
  /\ Host

-----------------------------------------------------------------------------
(* The FFI thread: the turns of its loop, and the recycle that parks it.   *)

FfiGoto(from, to) == ffi = from /\ ffi' = to
FfiThread == UNCHANGED <<now, activeAt, monitor, watch, call, history>>

ProveAlive ==
  /\ FfiGoto("top", "turn")
  /\ heartbeat' = now
  /\ UNCHANGED <<generation, lifecycle, stuck, listening>>
  /\ FfiThread

StartRecycle ==
  /\ FfiGoto("turn", "recycle")
  /\ lifecycle = "RecyclePending"
  /\ lifecycle' = "Recycling"
  /\ UNCHANGED <<generation, heartbeat, stuck, listening>>
  /\ FfiThread

Turn ==
  /\ lifecycle # "RecyclePending"
  /\ FfiGoto("turn", IF lifecycle = "Active" THEN "serve" ELSE "top")
  /\ UNCHANGED <<generation, lifecycle, heartbeat, stuck, listening>>
  /\ FfiThread

\* Each request of a backlog is another beat; a handler may hold the thread up.
Dispatch ==
  /\ ffi = "serve"
  /\ heartbeat' = now
  /\ UNCHANGED <<generation, lifecycle, stuck, ffi, listening>>
  /\ FfiThread

Served ==
  /\ FfiGoto("serve", "top")
  /\ UNCHANGED <<generation, lifecycle, heartbeat, stuck, listening>>
  /\ FfiThread

\* A handler, or the teardown, emits more events than the queue has room for.
Overflow ==
  /\ ffi \in {"serve", "recycle"}
  /\ stuck' = TRUE
  /\ UNCHANGED <<generation, lifecycle, heartbeat, ffi, listening>>
  /\ FfiThread

PollLockFree == \A p \in Pollers : call[p].pc = "idle"

\* The listeners are dropped; in poll mode the messages are, which takes pollLock.
ResetForNextOwner ==
  /\ FfiGoto("recycle", "finish")
  /\ PollMode => PollLockFree
  /\ listening' = Nobody
  /\ stuck' = FALSE
  /\ UNCHANGED <<generation, lifecycle, heartbeat>>
  /\ FfiThread

\* The drain or the teardown fails, or the caller gave up before the end.
Quarantine ==
  /\ ffi \in {"recycle", "finish"}
  /\ ffi' = "top"
  /\ lifecycle' = "RecycleFailed"
  /\ UNCHANGED <<generation, heartbeat, stuck, listening>>
  /\ FfiThread

ReleaseClaim ==
  /\ FfiGoto("finish", "top")
  /\ generation' = generation + 1
  /\ UNCHANGED <<lifecycle, heartbeat, stuck, listening>>
  /\ FfiThread

-----------------------------------------------------------------------------
(* Callback mode: the event thread, one tick after another.                *)

MonitorAt(pc) == monitor.pc = pc
MonitorGoto(from, to) == MonitorAt(from) /\ monitor' = [monitor EXCEPT !.pc = to]
EventThread == UNCHANGED <<now, slot, watch, call>>

MonitorInit ==
  /\ MonitorAt("init")
  /\ monitor' = [monitor EXCEPT !.pc = "wait", !.startedAt = now,
                                !.lastChange = now, !.lastValue = heartbeat]
  /\ EventThread
  /\ UNCHANGED history

LookAtStuck ==
  /\ MonitorGoto("wait", IF stuck /\ ~monitor.notifiedStuck THEN "notice" ELSE "look")
  /\ EventThread
  /\ UNCHANGED history

NoticeStuck ==
  /\ MonitorAt("notice")
  /\ monitor' = [monitor EXCEPT !.pc = "look", !.notifiedStuck = TRUE]
  /\ TellFull(listening)
  /\ EventThread

LookAtLifecycle ==
  /\ MonitorGoto("look", IF /\ lifecycle = "Active"
                            /\ now - monitor.startedAt > StartDelay
                         THEN "load" ELSE "wait")
  /\ EventThread
  /\ UNCHANGED history

LoadHeartbeat ==
  /\ MonitorAt("load")
  /\ monitor' = [monitor EXCEPT !.pc = "check", !.cur = heartbeat]
  /\ EventThread
  /\ UNCHANGED history

Moved ==
  /\ MonitorAt("check")
  /\ monitor.cur # monitor.lastValue
  /\ monitor' = [monitor EXCEPT !.pc = "wait", !.lastValue = monitor.cur,
                                !.lastChange = now, !.notifiedStale = FALSE]
  /\ IF monitor.notifiedStale THEN TellResumed(listening) ELSE UNCHANGED history
  /\ EventThread

\* MUTANT: the report is not latched.
StalledAgain ==
  /\ MonitorGoto("check", "wait")
  /\ monitor.cur = monitor.lastValue
  /\ ~monitor.notifiedStale
  /\ now - monitor.lastChange > StaleThreshold
  /\ TellStall(listening, monitor.cur, now)
  /\ EventThread

Stalled ==
  /\ MonitorAt("check")
  /\ monitor.cur = monitor.lastValue
  /\ ~monitor.notifiedStale
  /\ now - monitor.lastChange > StaleThreshold
  /\ monitor' = [monitor EXCEPT !.pc = "wait", !.notifiedStale = TRUE]
  /\ TellStall(listening, monitor.cur, now)
  /\ EventThread

Quiet ==
  /\ MonitorGoto("check", "wait")
  /\ monitor.cur = monitor.lastValue
  /\ monitor.notifiedStale \/ now - monitor.lastChange <= StaleThreshold
  /\ EventThread
  /\ UNCHANGED history

-----------------------------------------------------------------------------
(* Poll mode: checkLiveness, within a poll that holds pollLock.            *)

At(p, pc) == call[p].pc = pc
Moves(p, pc) == call' = [call EXCEPT ![p].pc = pc]
Returns(p) == call' = [call EXCEPT ![p] = NoCall]
Poller == UNCHANGED <<now, slot, monitor>>

\* With the token of any claim, an old one too.
BeginPoll(p, token) ==
  /\ PollMode
  /\ PollLockFree
  /\ activeAt[token] # 0
  /\ call' = [call EXCEPT ![p].pc = "round", ![p].token = token]
  /\ UNCHANGED <<watch, history>>
  /\ Poller

Round(p) ==
  /\ At(p, "round")
  /\ IF generation = call[p].token THEN Moves(p, "look") ELSE Returns(p)
  /\ UNCHANGED <<watch, history>>
  /\ Poller

ReadLifecycle(p) ==
  /\ At(p, "look")
  /\ Moves(p, IF lifecycle = "Active" THEN "watch" ELSE "rest")
  /\ UNCHANGED <<watch, history>>
  /\ Poller

\* MUTANT: the watch of the last owner goes on.
WatchGoesOn(p) ==
  IF watch.generation = 0
  THEN [generation |-> call[p].token, startedAt |-> now,
        notifiedStale |-> FALSE, notifiedStuck |-> FALSE]
  ELSE [watch EXCEPT !.generation = call[p].token]

\* A claim's first look begins its watch.
WatchOf(p) ==
  IF watch.generation = call[p].token
  THEN watch
  ELSE [generation |-> call[p].token, startedAt |-> now,
        notifiedStale |-> FALSE, notifiedStuck |-> FALSE]

OpenWatch(p) ==
  /\ At(p, "watch")
  /\ IF stuck /\ ~WatchOf(p).notifiedStuck
     THEN /\ watch' = [WatchOf(p) EXCEPT !.notifiedStuck = TRUE]
          /\ TellFull(call[p].token)
          /\ Returns(p)
     ELSE /\ watch' = WatchOf(p)
          /\ call' = [call EXCEPT
               ![p].pc =
                 IF now - WatchOf(p).startedAt > StartDelay THEN "beat" ELSE "rest",
               ![p].now = now]
          /\ UNCHANGED history
  /\ Poller

\* A thread that never beat has been silent since the watch began.
Silent(p) ==
  call[p].now - (IF heartbeat = 0 THEN watch.startedAt ELSE heartbeat) > StaleThreshold

ReadBeat(p) ==
  /\ At(p, "beat")
  /\ watch' = [watch EXCEPT !.notifiedStale = Silent(p)]
  /\ IF Silent(p) = watch.notifiedStale
     THEN Moves(p, "rest") /\ UNCHANGED history
     ELSE /\ Returns(p)
          /\ IF Silent(p)
             THEN TellStall(call[p].token, heartbeat, call[p].now)
             ELSE TellResumed(call[p].token)
  /\ Poller

\* A message, the end of the claim or the timeout ends the poll, a wait does not.
Rest(p) ==
  /\ At(p, "rest")
  /\ Returns(p) \/ Moves(p, "round")
  /\ UNCHANGED <<watch, history>>
  /\ Poller

-----------------------------------------------------------------------------

Next ==
  \/ Tick
  \/ Claim \/ MarkAsActive \/ AddListener \/ RequestRecycle
  \/ ProveAlive \/ StartRecycle \/ Turn \/ Dispatch \/ Served \/ Overflow
  \/ ResetForNextOwner \/ Quarantine \/ ReleaseClaim
  \/ MonitorInit \/ LookAtStuck \/ NoticeStuck \/ LookAtLifecycle \/ LoadHeartbeat
  \/ Moved \/ Stalled \/ Quiet
  \/ \E p \in Pollers :
       \/ \E token \in Claims : BeginPoll(p, token)
       \/ Round(p) \/ ReadLifecycle(p) \/ OpenWatch(p) \/ ReadBeat(p) \/ Rest(p)

Spec == Init /\ [][Next]_vars

-----------------------------------------------------------------------------
(* Properties.                                                             *)

Lifecycles == {"Active", "RecyclePending", "Recycling", "RecycleFailed"}
Monitors == [pc : {"absent", "init", "wait", "notice", "look", "load", "check"},
             startedAt : Nat, lastValue : Nat, lastChange : Nat,
             notifiedStale : BOOLEAN, notifiedStuck : BOOLEAN, cur : Nat]
Watches == [generation : Tellable, startedAt : Nat,
            notifiedStale : BOOLEAN, notifiedStuck : BOOLEAN]
Polls == [pc : {"idle", "round", "look", "watch", "beat", "rest"},
          token : Claims, now : Nat]
Reports == [to : Tellable, beat : Nat, at : Nat]

\* The clock, the slot, the two watchers and what they told.
TypeOK ==
  /\ now \in Nat /\ heartbeat \in Nat
  /\ generation \in Claims
  /\ lifecycle \in Lifecycles
  /\ stuck \in BOOLEAN
  /\ ffi \in {"top", "turn", "serve", "recycle", "finish"}
  /\ listening \in Tellable
  /\ activeAt \in [Claims -> Nat]
  /\ monitor \in Monitors
  /\ watch \in Watches
  /\ call \in [Pollers -> Polls]
  /\ told \subseteq Reports
  /\ stalls \in [Tellable -> Nat]
  /\ resumes \in [Tellable -> Nat]
  /\ full \in [Tellable -> Nat]

\* "each latches once per episode": a stall that is told is a beat older than the
\* threshold, and nobody is told twice of a stall on the same beat.
StallsAreReal ==
  /\ \A r \in told : r.at - r.beat > StaleThreshold
  /\ \A r, q \in told : r.to = q.to /\ r.beat = q.beat => r = q

\* What a claim hears is a stall, its recovery, a stall: never a recovery from what it
\* was not told.
StallsAlternate ==
  \A g \in Claims : resumes[g] <= stalls[g] /\ stalls[g] <= resumes[g] + 1

\* In poll mode a claim hears its stalls and recoveries in turn, and of a full queue
\* once: the latches are those of the claim, whatever its predecessors were told.
LatchesOfOwner ==
  PollMode => StallsAlternate /\ \A g \in Claims : full[g] <= 1

\* "Grace after a watch starts before a silent FFI thread is reported": in poll mode a
\* claim that hears of a stall has itself been active for longer than the delay.
GraceOfOwner ==
  PollMode => \A r \in told : r.to \in Claims /\ r.at - activeAt[r.to] > StartDelay
=============================================================================
