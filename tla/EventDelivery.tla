---------------------------- MODULE EventDelivery ----------------------------
(***************************************************************************)
(* Events in callback mode: the FFI thread enqueues them in a ring, the    *)
(* event thread calls the listeners of a registry that hosts, and the      *)
(* listeners themselves, change meanwhile, and a recycle clears for the    *)
(* slot's next owner.                                                      *)
(*                                                                         *)
(* A listener is one registration by a host, which frees its userData when *)
(* a remove of it, or the destroy of its context, has returned.  Every     *)
(* section under a lock is one step; the wait for the deliveries in flight *)
(* is a step of its own, since it gives the lock back.  A thread that is   *)
(* inside a dispatch, of whatever context, does not wait at all.           *)
(*                                                                         *)
(* Assumed of the hosts: none adds a listener to a context it destroys.    *)
(* Abstracted: event names but for one, that of the stuck notice; payload  *)
(* bytes, by the event they belong to.                                     *)
(***************************************************************************)
EXTENDS Integers, Sequences

CONSTANTS
  Listeners,   \* every registration a host may make
  Watchers,    \* those for not_responding, the others are for events
  Capacity,    \* EventQueueCapacity
  MaxEvents,   \* bound: events the library emits
  MaxClaims    \* bound: owners of the slot

ASSUME WatchersAssumption == Watchers \subseteq Listeners
ASSUME CapacityAssumption == Capacity \in Nat \ {0}
ASSUME BoundsAssumption == MaxEvents \in Nat /\ MaxClaims \in Nat

VARIABLES
  generation,   \* odd = the claim that owns the slot
  registry,     \* byEvent: the listeners registered, with their ids
  nextId,
  dispatching,  \* deliveries in flight
  listener,     \* per listener: its state, and the claim it was added under
  head, tail, count,
  slab,         \* per ring slot: the event whose bytes its buffers hold
  emitted,      \* events emitted so far: the last one's number
  stuck,        \* eventQueueStuck
  dropped,      \* history: claims an event of which was dropped
  running,
  ffi,          \* where the FFI thread is; "exited" is ffiThreadExited
  ev,           \* the event thread: where it is and what it delivers
  notified,     \* notifiedStuck
  seen          \* history: per listener, the events it was called with

registrations == <<registry, nextId, listener>>
ring == <<head, tail, count, slab>>
library == <<generation, emitted, stuck, dropped, running, ffi>>
vars == <<registrations, ring, library, dispatching, ev, notified, seen>>

Owned == generation % 2 = 1
NoEvent == [claim |-> 0, num |-> 0]
Thread(pc) == [pc |-> pc, event |-> NoEvent, slot |-> 0, todo |-> {}, last |-> FALSE]

Init ==
  /\ generation = 0
  /\ registry = {} /\ nextId = 0 /\ dispatching = 0
  /\ listener = [l \in Listeners |-> [state |-> "new", claim |-> 0]]
  /\ head = 0 /\ tail = 0 /\ count = 0
  /\ slab = [s \in 0 .. Capacity - 1 |-> NoEvent]
  /\ emitted = 0 /\ stuck = FALSE /\ dropped = {}
  /\ running = TRUE
  /\ ffi = "loop"
  /\ ev = Thread("top")
  /\ notified = FALSE
  /\ seen = [l \in Listeners |-> <<>>]

-----------------------------------------------------------------------------
(* The registry, called by hosts and, in a delivery, by listeners.         *)

Registered(l) == \E e \in registry : e.of = l
SetState(S, s) ==
  listener' = [l \in Listeners |->
                 IF l \in S THEN [listener[l] EXCEPT !.state = s] ELSE listener[l]]

Add(l) ==
  /\ Owned
  /\ ffi # "clear"
  /\ listener[l].state = "new"
  /\ nextId' = nextId + 1
  /\ registry' = registry \union {[id |-> nextId + 1, of |-> l]}
  /\ listener' = [listener EXCEPT ![l] = [state |-> "added", claim |-> generation]]
  /\ UNCHANGED <<ring, library, dispatching, ev, notified, seen>>

Unregister(S) ==
  /\ registry' = {e \in registry : e.of \notin S}
  /\ UNCHANGED <<ring, library, nextId, dispatching, ev, notified, seen>>

\* From a host thread: the call then waits for the deliveries in flight.
Remove(l) ==
  /\ Registered(l)
  /\ Unregister({l}) /\ SetState({l}, "removing")

RemoveAll ==
  /\ registry # {}
  /\ LET all == {e.of : e \in registry}
     IN  Unregister(all) /\ SetState(all, "removing")

\* MUTANT: the remove does not wait.
RemoveReturnsAtOnce(l) ==
  /\ listener[l].state = "removing"
  /\ SetState({l}, "freed")
  /\ UNCHANGED <<ring, library, registry, nextId, dispatching, ev, notified, seen>>

RemoveReturns(l) ==
  /\ listener[l].state = "removing"
  /\ dispatching = 0
  /\ SetState({l}, "freed")
  /\ UNCHANGED <<ring, library, registry, nextId, dispatching, ev, notified, seen>>

\* The listener the event thread turns to, in the order of registration.
Upcoming == CHOOSE e \in ev.todo : \A f \in ev.todo : e.id <= f.id

\* From inside a dispatch, of this context or of another one: no wait.  The listener
\* may be the one in the call in flight, which marks it until that call is over.
RemoveAtOnce(l, mark) ==
  /\ Registered(l)
  /\ SetState({l}, IF ev.pc = "call" /\ Upcoming.of = l THEN mark ELSE "freed")
  /\ Unregister({l})

RemoveInDispatch(l) == ev.pc = "call" /\ RemoveAtOnce(l, "self")
RemoveElsewhere(l) == RemoveAtOnce(l, "inside")

-----------------------------------------------------------------------------
(* The FFI thread.                                                         *)

Full == count = Capacity

Emit ==
  /\ Owned
  /\ ffi = "loop"
  /\ emitted < MaxEvents
  /\ emitted' = emitted + 1
  /\ IF Full
     THEN /\ stuck' = TRUE
          /\ dropped' = dropped \union {generation}
          /\ UNCHANGED <<slab, tail, count>>
     ELSE /\ slab' = [slab EXCEPT ![tail] = [claim |-> generation, num |-> emitted + 1]]
          /\ tail' = (tail + 1) % Capacity
          /\ count' = count + 1
          /\ UNCHANGED <<stuck, dropped>>
  /\ UNCHANGED <<registrations, head, generation, running, ffi, dispatching, ev,
                 notified, seen>>

Claim ==
  /\ ~Owned
  /\ running
  /\ generation < 2 * MaxClaims
  /\ generation' = generation + 1
  /\ UNCHANGED <<registrations, ring, emitted, stuck, dropped, running, ffi,
                 dispatching, ev, notified, seen>>

\* clearListeners, at the end of a recycle whose teardown completed ...
ClearListeners ==
  /\ Owned
  /\ running /\ ffi = "loop"
  /\ ffi' = "clear"
  /\ registry' = {} /\ nextId' = 0
  /\ UNCHANGED <<ring, listener, generation, emitted, stuck, dropped, running,
                 dispatching, ev, notified, seen>>

Freed == {l \in Listeners : listener[l].state \in {"added", "removing"}}

\* MUTANT: the sticky flag stays for the next owner.
ReleaseStuck ==
  /\ ffi = "clear"
  /\ dispatching = 0
  /\ ffi' = "loop"
  /\ generation' = generation + 1
  /\ SetState(Freed, "freed")
  /\ UNCHANGED <<ring, registry, nextId, emitted, stuck, dropped, running, dispatching,
                 ev, notified, seen>>

\* ... waits for the deliveries, then the flag is reset, the slot released and the
\* destroy answered.
Release ==
  /\ ffi = "clear"
  /\ dispatching = 0
  /\ ffi' = "loop"
  /\ stuck' = FALSE
  /\ generation' = generation + 1
  /\ SetState(Freed, "freed")
  /\ UNCHANGED <<ring, registry, nextId, emitted, dropped, running, dispatching,
                 ev, notified, seen>>

\* signalStop; the FFI thread ends later, what it still emits in the teardown
\* included.
SignalStop ==
  /\ running
  /\ running' = FALSE
  /\ UNCHANGED <<registrations, ring, generation, emitted, stuck, dropped, ffi,
                 dispatching, ev, notified, seen>>

FfiExits ==
  /\ ~running
  /\ ffi = "loop"
  /\ ffi' = "exited"
  /\ UNCHANGED <<registrations, ring, generation, emitted, stuck, dropped, running,
                 dispatching, ev, notified, seen>>

-----------------------------------------------------------------------------
(* The event thread.                                                       *)

EvGoto(from, to) == ev.pc = from /\ ev' = [ev EXCEPT !.pc = to]

\* MUTANT: the loop ends with `running`.
LoopStopsEarly ==
  /\ ev.pc = "top"
  /\ IF running
     THEN ev' = [ev EXCEPT !.pc = "drain"]
     ELSE ev' = [ev EXCEPT !.pc = "drain", !.last = TRUE]
  /\ UNCHANGED <<registrations, ring, library, dispatching, notified, seen>>

\* A tick, or the last drain once the FFI thread is gone.
LoopTop ==
  /\ ev.pc = "top"
  /\ IF running \/ ffi # "exited"
     THEN ev' = [ev EXCEPT !.pc = "drain"]
     ELSE ev' = [ev EXCEPT !.pc = "drain", !.last = TRUE]
  /\ UNCHANGED <<registrations, ring, library, dispatching, notified, seen>>

\* MUTANT: the slot is given back before the delivery.
PeekAndCommit ==
  /\ ev.pc = "drain"
  /\ count > 0
  /\ ev' = [ev EXCEPT !.pc = "begin", !.event = slab[head], !.slot = head]
  /\ head' = (head + 1) % Capacity
  /\ count' = count - 1
  /\ UNCHANGED <<registrations, tail, slab, library, dispatching, notified, seen>>

\* The event is read where it lies, in its slot.
Peek ==
  /\ ev.pc = "drain"
  /\ count > 0
  /\ ev' = [ev EXCEPT !.pc = "begin", !.event = slab[head], !.slot = head]
  /\ UNCHANGED <<registrations, ring, library, dispatching, notified, seen>>

QueueDrained ==
  /\ count = 0
  /\ EvGoto("drain", IF ev.last THEN "exited" ELSE "notice")
  /\ UNCHANGED <<registrations, ring, library, dispatching, notified, seen>>

\* onNotResponding goes past the queue.
Notice ==
  /\ ev.pc = "notice"
  /\ IF running /\ ~notified /\ stuck
     THEN ev' = [ev EXCEPT !.pc = "begin", !.event = NoEvent] /\ notified' = TRUE
     ELSE ev' = [ev EXCEPT !.pc = "top"] /\ UNCHANGED notified
  /\ UNCHANGED <<registrations, ring, library, dispatching, seen>>

BeginDispatch ==
  /\ ev.pc = "begin"
  /\ dispatching' = dispatching + 1
  /\ ev' = [ev EXCEPT !.pc = "notify",
                      !.todo = {e \in registry : (e.of \in Watchers) <=> ev.event = NoEvent}]
  /\ UNCHANGED <<registrations, ring, library, notified, seen>>

\* isRegistered, by id, and the callback if it is.
CallNext ==
  /\ ev.pc = "notify" /\ ev.todo # {}
  /\ IF \E e \in registry : e.id = Upcoming.id
     THEN /\ ev' = [ev EXCEPT !.pc = "call"]
          /\ seen' = [seen EXCEPT ![Upcoming.of] = Append(@, ev.event)]
     ELSE ev' = [ev EXCEPT !.todo = @ \ {Upcoming}] /\ UNCHANGED seen
  /\ UNCHANGED <<registrations, ring, library, dispatching, notified>>

CallbackReturns ==
  /\ ev.pc = "call"
  /\ ev' = [ev EXCEPT !.pc = "notify", !.todo = @ \ {Upcoming}]
  /\ SetState({l \in {Upcoming.of} : listener[l].state \in {"self", "inside"}}, "freed")
  /\ UNCHANGED <<registry, nextId, ring, library, dispatching, notified, seen>>

EndDispatch ==
  /\ ev.pc = "notify" /\ ev.todo = {}
  /\ dispatching' = dispatching - 1
  /\ ev' = [ev EXCEPT !.pc = IF ev.event = NoEvent THEN "top" ELSE "commit"]
  /\ UNCHANGED <<registrations, ring, library, notified, seen>>

\* MUTANT: the head is not advanced.
CommitNothing ==
  /\ EvGoto("commit", "drain")
  /\ UNCHANGED <<registrations, ring, library, dispatching, notified, seen>>

CommitDequeue ==
  /\ ev.pc = "commit"
  /\ ev' = [Thread("drain") EXCEPT !.last = ev.last]
  /\ head' = (head + 1) % Capacity
  /\ count' = count - 1
  /\ UNCHANGED <<registrations, tail, slab, library, dispatching, notified, seen>>

EventThread ==
  \/ LoopTop \/ Peek \/ QueueDrained \/ Notice \/ BeginDispatch
  \/ CallNext \/ CallbackReturns \/ EndDispatch \/ CommitDequeue

-----------------------------------------------------------------------------
Next ==
  \/ \E l \in Listeners : \/ Add(l) \/ Remove(l) \/ RemoveReturns(l)
                         \/ RemoveInDispatch(l) \/ RemoveElsewhere(l)
  \/ RemoveAll
  \/ Emit \/ Claim \/ ClearListeners \/ Release \/ SignalStop \/ FfiExits
  \/ EventThread

Spec == Init /\ [][Next]_vars

-----------------------------------------------------------------------------
(* Properties.                                                             *)

States == {"new", "added", "removing", "self", "inside", "freed"}
EvPcs == {"top", "drain", "begin", "notify", "call", "commit", "notice", "exited"}
Event == [claim : 0 .. 2 * MaxClaims, num : 0 .. MaxEvents]
Entry == [id : Nat \ {0}, of : Listeners]

\* The registry, the ring, and the two threads' positions.
TypeOK ==
  /\ generation \in 0 .. 2 * MaxClaims
  /\ registry \subseteq Entry
  /\ nextId \in Nat
  /\ dispatching \in {0, 1}
  /\ listener \in [Listeners -> [state : States, claim : 0 .. 2 * MaxClaims]]
  /\ head \in 0 .. Capacity - 1 /\ tail \in 0 .. Capacity - 1
  /\ count \in 0 .. Capacity
  /\ slab \in [0 .. Capacity - 1 -> Event]
  /\ emitted \in 0 .. MaxEvents
  /\ stuck \in BOOLEAN /\ running \in BOOLEAN /\ notified \in BOOLEAN
  /\ dropped \subseteq 1 .. 2 * MaxClaims
  /\ ffi \in {"loop", "clear", "exited"}
  /\ ev \in [pc : EvPcs, event : Event, slot : 0 .. Capacity - 1,
             todo : SUBSET Entry, last : BOOLEAN]
  /\ seen \in [Listeners -> Seq(Event)]

\* When userData may be freed: no callback runs for a listener after its remove, or the
\* destroy of its context, returned.  A remove from inside a dispatch returns at once:
\* then the one call in flight may be to that listener, and is the last.
UserDataAlive ==
  ev.pc = "call" => listener[Upcoming.of].state # "freed"

\* "A remove from another thread still waits the delivery out, so the userData of a
\* listener stays safe to free as soon as the remove returns": also when that thread is
\* the event thread of another context, inside a callback of its own.
RemoveWaitsElsewhere ==
  ev.pc = "call" => listener[Upcoming.of].state \notin {"inside", "freed"}

\* The bytes a listener reads stay those of its event though the library emits on:
\* the ring does not reuse the slot of a delivery in flight.
PayloadPinned ==
  ev.pc \in {"begin", "notify", "call"} /\ ev.event # NoEvent
    => slab[ev.slot] = ev.event

\* No listener gets an event twice, or two of them out of the order of emission,
\* over recycles, full rings and removals.
OnceInOrder ==
  \A l \in Listeners \ Watchers :
    \A i, j \in DOMAIN seen[l] : i < j => seen[l][i].num < seen[l][j].num

\* The event thread does not exit before every event was delivered, those the
\* teardown emitted while the threads were stopping included.
DrainedAtExit == ev.pc = "exited" => count = 0

\* An owner's requests are refused for a full ring only if an event of its own
\* claim was dropped.
StuckIsOwners == stuck => generation \in dropped
=============================================================================
