------------------------- MODULE EventDeliveryProofs -------------------------
(***************************************************************************)
(* Proofs, for every set of listeners, capacity of the ring and number of  *)
(* events and claims, of the safety properties of EventDelivery: what a    *)
(* listener is called with, and when its userData may be freed.            *)
(*                                                                         *)
(* They follow from one inductive invariant, IInv, of three parts that do  *)
(* not depend on each other's steps.  The registry: an id stands for one   *)
(* entry until the delivery that copied it is over, although a recycle     *)
(* starts the ids again (EntriesDistinct).  The ring: the count slots from *)
(* the head hold the events not delivered, in order, and the delivery is   *)
(* of the first (RingOrder, InFlight).  The listeners: none has seen what  *)
(* is still queued, nor, before its turn, the event in delivery            *)
(* (SeenIsPast).                                                           *)
(***************************************************************************)
EXTENDS EventDelivery, WellFoundedInduction, TLAPS

\* The slot of the ring that is i places after h.
RingPos(h, i) == IF h + i < Capacity THEN h + i ELSE h + i - Capacity
Queued(i) == slab[RingPos(head, i)]
First(S) == CHOOSE e \in S : \A f \in S : e.id <= f.id

\* What the registry holds, and what the delivery in flight still goes through.
Pending == registry \union ev.todo

\* A recycle's wait, and a remove's, is for the event thread's one delivery.
Dispatch ==
  /\ dispatching = IF ev.pc \in {"notify", "call"} THEN 1 ELSE 0
  /\ dispatching = 0 => ev.todo = {}
  /\ ev.pc = "call" => ev.todo # {}

\* An id, and a listener, stands for one entry: the ids start again at a recycle,
\* but not before the delivery in flight is over.
EntriesDistinct ==
  /\ ffi = "clear" => Owned /\ registry = {}
  /\ ffi # "clear" => \A e \in Pending : e.id <= nextId
  /\ \A e, f \in Pending : e.id = f.id \/ e.of = f.of => e = f
  /\ \A e \in Pending : listener[e.of].state # "new"
  /\ \A e \in registry : listener[e.of].state = "added"

\* The occupied slots hold the events not delivered yet, in the order of emission.
RingOrder ==
  /\ tail = RingPos(head, count)
  /\ \A i \in 0 .. count - 1 : Queued(i).num \in 1 .. emitted
  /\ \A i, j \in 0 .. count - 1 : i < j => Queued(i).num < Queued(j).num

\* A delivery is of the oldest of them, read where it lies.
InFlight ==
  /\ ev.event # NoEvent =>
       /\ ev.pc \in {"begin", "notify", "call", "commit"}
       /\ count > 0
       /\ ev.slot = head
       /\ ev.event = slab[head]
  /\ ev.pc = "commit" => ev.event # NoEvent
  /\ \A e \in ev.todo : e.of \in Watchers <=> ev.event = NoEvent

SeenBefore(l, n) == \A i \in DOMAIN seen[l] : seen[l][i].num < n
SeenUpTo(l, n) == \A i \in DOMAIN seen[l] : seen[l][i].num <= n

\* No event listener has seen what is still queued, nor the event in delivery unless
\* its turn has come.
SeenIsPast ==
  \A l \in Listeners \ Watchers :
    /\ SeenUpTo(l, emitted)
    /\ ev.event = NoEvent => \A i \in 0 .. count - 1 : SeenBefore(l, Queued(i).num)
    /\ ev.event # NoEvent => SeenUpTo(l, ev.event.num)
    /\ ev.event # NoEvent /\ ev.pc = "begin" => SeenBefore(l, ev.event.num)
    /\ \A e \in ev.todo :
         e.of = l /\ ~(ev.pc = "call" /\ e = Upcoming) => SeenBefore(l, ev.event.num)

\* The last drain begins once the FFI thread is gone, which it is once stopped.
LastDrain ==
  /\ ev.last => ffi = "exited"
  /\ ev.pc = "exited" => ev.last
  /\ ffi = "exited" => ~running

\* Events are dropped under a claim.
DroppedOfClaims == \A g \in dropped : g % 2 = 1

\* The inductive invariant.
IInv ==
  /\ TypeOK
  /\ Dispatch
  /\ EntriesDistinct
  /\ UserDataAlive
  /\ RingOrder
  /\ InFlight
  /\ SeenIsPast
  /\ OnceInOrder
  /\ LastDrain
  /\ DrainedAtExit
  /\ DroppedOfClaims
  /\ StuckIsOwners

-----------------------------------------------------------------------------
(* The ring's arithmetic.                                                  *)

\* Up to twice the capacity, the remainder is at most one subtraction.
LEMMA WrapAround ==
  ASSUME NEW x \in 0 .. 2 * Capacity - 1
  PROVE  x % Capacity = IF x < Capacity THEN x ELSE x - Capacity
<1> DEFINE q == x \div Capacity
           r == x % Capacity
<1>1. x = Capacity * q + r /\ q \in Int /\ r \in 0 .. Capacity - 1
  BY CapacityAssumption, SMTT(30)
<1> HIDE DEF q, r
<1>2. Capacity * q < 2 * Capacity /\ Capacity * q > -Capacity
  BY <1>1, CapacityAssumption, SMTT(30)
<1>3. q = 0 \/ q = 1
  BY <1>1, <1>2, CapacityAssumption, SMTT(30)
<1>4. r = IF x < Capacity THEN x ELSE x - Capacity
  BY <1>1, <1>3, CapacityAssumption, SMTT(30)
<1> QED
  BY <1>4 DEF r

\* Stepping round the ring is addition, and distinct places have distinct slots.
LEMMA RingPositions ==
  ASSUME NEW h \in 0 .. Capacity - 1
  PROVE  /\ RingPos(h, 0) = h
         /\ RingPos(h, Capacity) = h
         /\ (h + 1) % Capacity = RingPos(h, 1)
         /\ \A i \in 0 .. Capacity : RingPos(h, i) \in 0 .. Capacity - 1
         /\ \A i \in 0 .. Capacity - 1 :
              /\ RingPos(RingPos(h, 1), i) = RingPos(h, i + 1)
              /\ RingPos(RingPos(h, i), 1) = RingPos(h, i + 1)
         /\ \A i, j \in 0 .. Capacity - 1 : RingPos(h, i) = RingPos(h, j) => i = j
<1>1. (h + 1) % Capacity = RingPos(h, 1)
  BY CapacityAssumption, WrapAround DEF RingPos
<1> QED
  BY <1>1, CapacityAssumption DEF RingPos

-----------------------------------------------------------------------------
(* The delivery takes its listeners in the order of their ids.             *)

\* Upcoming, in the state and in the next one, depends on the list only.
LEMMA UpcomingIsFirst ==
  /\ Upcoming = First(ev.todo)
  /\ Upcoming' = First(ev'.todo)
  BY DEF Upcoming, First

\* < on the numbers, as a relation.
LessThan == {p \in Nat \X Nat : p[1] < p[2]}

\* The library's fact about <, of a relation named here.
LEMMA LessThanWellFounded == IsWellFoundedOn(LessThan, Nat)
  BY NatLessThanWellFounded, Zenon DEF OpToRel, LessThan

\* A set of entries, however large, has one of the least id.
LEMMA FirstExists ==
  ASSUME NEW S \in SUBSET Entry, S # {}
  PROVE  First(S) \in S /\ \A f \in S : First(S).id <= f.id
<1> DEFINE ids == {e.id : e \in S}
<1>1. ids \subseteq Nat /\ ids # {}
  BY DEF Entry
<1>2. PICK n \in ids : \A m \in ids : <<m, n>> \notin LessThan
  <2> HIDE DEF ids
  <2> QED
    BY <1>1, WFMin, LessThanWellFounded
<1>3. \A m \in ids : n <= m
  <2> HIDE DEF ids
  <2>1. SUFFICES ASSUME NEW m \in ids, m < n PROVE FALSE
    BY <1>1
  <2>2. <<m, n>> \in LessThan
    BY <1>1, <2>1 DEF LessThan
  <2> QED
    BY <1>2, <2>2
<1>4. \E e \in S : \A f \in S : e.id <= f.id
  BY <1>3
<1> QED
  BY <1>4 DEF First

\* A claim is odd.
LEMMA OddNumbers ==
  /\ 0 % 2 = 0
  /\ \A g \in Nat : g % 2 = 1 <=> ~ ((g + 1) % 2 = 1)
  OBVIOUS

\* A claim is odd: it is not the first number, nor the bound.
LEMMA OwnedBounds ==
  ASSUME generation \in 0 .. 2 * MaxClaims, Owned
  PROVE  generation \in 1 .. 2 * MaxClaims /\ generation + 1 \in 0 .. 2 * MaxClaims
<1>1. generation \in Nat /\ generation # 0 /\ generation % 2 = 1
  BY BoundsAssumption DEF Owned
<1>2. generation # 2 * MaxClaims
  BY <1>1, BoundsAssumption
<1> QED
  BY <1>1, <1>2, BoundsAssumption

\* The types of TypeOK's records.
ThreadType == [pc : EvPcs, event : Event, slot : 0 .. Capacity - 1, todo : SUBSET Entry,
               last : BOOLEAN]
ListenerType == [state : States, claim : 0 .. 2 * MaxClaims]

\* A step of a host changes the registry and the listeners only.
LEMMA HostTypes ==
  ASSUME TypeOK, UNCHANGED <<ring, library, dispatching, ev, notified, seen>>,
         registry' \subseteq Entry, nextId' \in Nat,
         listener' \in [Listeners -> ListenerType]
  PROVE  TypeOK'
  BY DEF TypeOK, ring, library, ListenerType

\* A step of the event thread leaves them alone, but for what a call ends.
LEMMA ThreadTypes ==
  ASSUME TypeOK, UNCHANGED <<registry, nextId, library>>, ev' \in ThreadType,
         listener' \in [Listeners -> ListenerType],
         head' \in 0 .. Capacity - 1, count' \in 0 .. Capacity, UNCHANGED <<tail, slab>>,
         dispatching' \in {0, 1}, notified' \in BOOLEAN,
         seen' \in [Listeners -> Seq(Event)]
  PROVE  TypeOK'
  BY DEF TypeOK, library, ThreadType, ListenerType

\* The stuck notice is typed as an event.
LEMMA NoEventTyped == NoEvent \in Event
  BY BoundsAssumption DEF NoEvent, Event

\* Every step of a host keeps the types ...
LEMMA HostStepTyped ==
  ASSUME TypeOK, NEW l \in Listeners,
         \/ Add(l) \/ Remove(l) \/ RemoveReturns(l) \/ RemoveAll
         \/ RemoveInDispatch(l) \/ RemoveElsewhere(l)
  PROVE  TypeOK'
<1>1. /\ registry \subseteq Entry /\ nextId \in Nat /\ generation \in 0 .. 2 * MaxClaims
      /\ listener \in [Listeners -> ListenerType]
  BY DEF TypeOK, ListenerType
<1>2. \A S, s : s \in States /\ SetState(S, s) => listener' \in [Listeners -> ListenerType]
  BY <1>1 DEF SetState, ListenerType
<1>3. {"added", "removing", "self", "inside", "freed"} \subseteq States
  BY DEF States
<1>4. CASE Add(l)
  <2>1. registry' \subseteq Entry /\ nextId' \in Nat
    BY <1>1, <1>4 DEF Add, Entry
  <2>2. listener' \in [Listeners -> ListenerType]
    BY <1>1, <1>3, <1>4 DEF Add, ListenerType
  <2> QED
    BY <1>4, <2>1, <2>2, HostTypes DEF Add
<1>5. CASE Remove(l)
  BY <1>1, <1>2, <1>3, <1>5, HostTypes DEF Remove, Unregister
<1>6. CASE RemoveReturns(l)
  BY <1>1, <1>2, <1>3, <1>6, HostTypes DEF RemoveReturns
<1>7. CASE RemoveInDispatch(l) \/ RemoveElsewhere(l)
  <2>1. PICK mark \in {"self", "inside"} : RemoveAtOnce(l, mark)
    BY <1>7 DEF RemoveInDispatch, RemoveElsewhere
  <2>2. (IF ev.pc = "call" /\ Upcoming.of = l THEN mark ELSE "freed") \in States
    BY <1>3
  <2>3. listener' \in [Listeners -> ListenerType]
    BY <1>2, <2>1, <2>2 DEF RemoveAtOnce
  <2> QED
    BY <1>1, <2>1, <2>3, HostTypes DEF RemoveAtOnce, Unregister
<1>8. CASE RemoveAll
  BY <1>1, <1>2, <1>3, <1>8, HostTypes DEF RemoveAll, Unregister
<1> QED
  BY <1>4, <1>5, <1>6, <1>7, <1>8

\* ... of the FFI thread ...
LEMMA FfiStepTyped ==
  ASSUME TypeOK, EntriesDistinct,
         Emit \/ Claim \/ ClearListeners \/ Release \/ SignalStop \/ FfiExits
  PROVE  TypeOK'
<1> USE DEF TypeOK, registrations, ring, library
<1>1. CASE Emit
  <2>1. generation \in 1 .. 2 * MaxClaims
    BY <1>1, OwnedBounds DEF Emit
  <2>2. emitted' \in 0 .. MaxEvents
    BY <1>1, BoundsAssumption DEF Emit
  <2>3. CASE Full
    BY <1>1, <2>1, <2>2, <2>3 DEF Emit
  <2>4. CASE ~Full
    <3>1. tail' \in 0 .. Capacity - 1
      BY <1>1, <2>4, CapacityAssumption, SMTT(30) DEF Emit
    <3>2. slab' \in [0 .. Capacity - 1 -> Event]
      <4>1. [claim |-> generation, num |-> emitted + 1] \in Event
        BY <1>1, <2>2 DEF Emit, Event
      <4> QED
        BY <1>1, <2>4, <4>1 DEF Emit
    <3>3. count' \in 0 .. Capacity
      BY <1>1, <2>4, CapacityAssumption DEF Emit, Full
    <3> QED
      BY <1>1, <2>2, <2>4, <3>1, <3>2, <3>3 DEF Emit
  <2> QED
    BY <2>3, <2>4
<1>2. CASE Claim
  <2>1. generation' \in 0 .. 2 * MaxClaims
    BY <1>2, BoundsAssumption DEF Claim
  <2> QED
    BY <1>2, <2>1 DEF Claim
<1>3. CASE ClearListeners
  BY <1>3 DEF ClearListeners
<1>4. CASE Release
  <2>1. generation' \in 0 .. 2 * MaxClaims
    BY <1>4, OwnedBounds DEF Release, EntriesDistinct
  <2>2. listener' \in [Listeners -> [state : States, claim : 0 .. 2 * MaxClaims]]
    BY <1>4 DEF Release, SetState, States
  <2> QED
    BY <1>4, <2>1, <2>2 DEF Release
<1>5. CASE SignalStop
  BY <1>5 DEF SignalStop
<1>6. CASE FfiExits
  BY <1>6 DEF FfiExits
<1> QED
  BY <1>1, <1>2, <1>3, <1>4, <1>5, <1>6

\* ... and of the event thread.
LEMMA EventThreadStepTyped ==
  ASSUME TypeOK, Dispatch, InFlight, EventThread
  PROVE  TypeOK'
<1>1. /\ ev \in ThreadType /\ seen \in [Listeners -> Seq(Event)] /\ registry \subseteq Entry
      /\ slab \in [0 .. Capacity - 1 -> Event]
      /\ head \in 0 .. Capacity - 1 /\ count \in 0 .. Capacity
      /\ dispatching \in {0, 1} /\ notified \in BOOLEAN
      /\ listener \in [Listeners -> ListenerType]
  BY DEF TypeOK, ThreadType, ListenerType
<1>2. \A pc \in EvPcs : [ev EXCEPT !.pc = pc] \in ThreadType
  BY <1>1 DEF ThreadType
<1>3. EvPcs = {"top", "drain", "begin", "notify", "call", "commit", "notice", "exited"}
  BY DEF EvPcs
<1> USE DEF ring, registrations
<1>4. CASE LoopTop
  <2>1. ev' \in ThreadType
    BY <1>1, <1>3, <1>4 DEF LoopTop, ThreadType
  <2> QED
    BY <1>1, <1>4, <2>1, ThreadTypes DEF LoopTop
<1>5. CASE Peek
  <2>1. ev' \in ThreadType
    BY <1>1, <1>3, <1>5 DEF Peek, ThreadType
  <2> QED
    BY <1>1, <1>5, <2>1, ThreadTypes DEF Peek
<1>6. CASE QueueDrained
  <2>1. ev' \in ThreadType
    BY <1>2, <1>3, <1>6 DEF QueueDrained, EvGoto
  <2> QED
    BY <1>1, <1>6, <2>1, ThreadTypes DEF QueueDrained
<1>7. CASE Notice
  <2>1. ev' \in ThreadType /\ notified' \in BOOLEAN
    BY <1>1, <1>3, <1>7, NoEventTyped DEF Notice, ThreadType
  <2> QED
    BY <1>1, <1>7, <2>1, ThreadTypes DEF Notice
<1>8. CASE BeginDispatch
  <2>1. dispatching' \in {0, 1}
    BY <1>8 DEF BeginDispatch, Dispatch
  <2>2. ev' \in ThreadType
    BY <1>1, <1>3, <1>8 DEF BeginDispatch, ThreadType
  <2> QED
    BY <1>1, <1>8, <2>1, <2>2, ThreadTypes DEF BeginDispatch
<1>9. CASE CallNext
  <2>1. Upcoming.of \in Listeners
    BY <1>1, <1>9, UpcomingIsFirst, FirstExists DEF CallNext, ThreadType, Entry
  <2>2. \A l \in Listeners : Append(seen[l], ev.event) \in Seq(Event)
    BY <1>1 DEF ThreadType
  <2>3. seen' \in [Listeners -> Seq(Event)]
    BY <1>1, <1>9, <2>1, <2>2 DEF CallNext
  <2>4. ev' \in ThreadType
    <3>1. [ev EXCEPT !.pc = "call"] \in ThreadType
      BY <1>2, <1>3
    <3>2. [ev EXCEPT !.todo = @ \ {Upcoming}] \in ThreadType
      BY <1>1 DEF ThreadType
    <3> QED
      BY <1>9, <3>1, <3>2 DEF CallNext
  <2> QED
    BY <1>1, <1>9, <2>3, <2>4, ThreadTypes DEF CallNext
<1>10. CASE CallbackReturns
  <2>1. ev' \in ThreadType
    BY <1>1, <1>3, <1>10 DEF CallbackReturns, ThreadType
  <2>2. listener' \in [Listeners -> ListenerType]
    BY <1>1, <1>10 DEF CallbackReturns, SetState, ListenerType, States
  <2> QED
    BY <1>1, <1>10, <2>1, <2>2, ThreadTypes DEF CallbackReturns
<1>11. CASE EndDispatch
  <2>1. dispatching' \in {0, 1}
    BY <1>11 DEF EndDispatch, Dispatch
  <2>2. ev' \in ThreadType
    BY <1>2, <1>3, <1>11 DEF EndDispatch
  <2> QED
    BY <1>1, <1>11, <2>1, <2>2, ThreadTypes DEF EndDispatch
<1>12. CASE CommitDequeue
  <2>1. head' \in 0 .. Capacity - 1
    BY <1>1, <1>12, CapacityAssumption, SMTT(30) DEF CommitDequeue
  <2>2. count' \in 0 .. Capacity
    BY <1>1, <1>12, CapacityAssumption DEF CommitDequeue, InFlight
  <2>3. /\ ev'.pc = "drain" /\ 0 \in 0 .. Capacity - 1
        /\ ev' = [pc |-> "drain", event |-> NoEvent, slot |-> 0, todo |-> {},
                  last |-> ev.last]
    BY <1>12, CapacityAssumption DEF CommitDequeue, Thread
  <2>4. ev' \in ThreadType
    BY <1>1, <1>3, <2>3, NoEventTyped DEF ThreadType
  <2> QED
    BY <1>1, <1>12, <2>1, <2>2, <2>4, ThreadTypes DEF CommitDequeue
<1> QED
  BY <1>4, <1>5, <1>6, <1>7, <1>8, <1>9, <1>10, <1>11, <1>12 DEF EventThread

\* Every step keeps the types.
LEMMA TypeKept ==
  ASSUME IInv, Next
  PROVE  TypeOK'
<1>1. TypeOK /\ Dispatch /\ EntriesDistinct /\ InFlight
  BY DEF IInv
<1>2. ASSUME NEW l \in Listeners,
             \/ Add(l) \/ Remove(l) \/ RemoveReturns(l)
             \/ RemoveInDispatch(l) \/ RemoveElsewhere(l)
      PROVE  TypeOK'
  BY <1>1, <1>2, HostStepTyped
<1>3. CASE RemoveAll
  <2>1. PICK e \in registry : TRUE
    BY <1>3 DEF RemoveAll
  <2>2. e.of \in Listeners
    BY <1>1, <2>1 DEF TypeOK, Entry
  <2> QED
    BY <1>1, <1>3, <2>2, HostStepTyped
<1>4. CASE Emit \/ Claim \/ ClearListeners \/ Release \/ SignalStop \/ FfiExits
  BY <1>1, <1>4, FfiStepTyped
<1>5. CASE EventThread
  BY <1>1, <1>5, EventThreadStepTyped
<1> QED
  BY <1>2, <1>3, <1>4, <1>5 DEF Next

-----------------------------------------------------------------------------
(* The registry, and the listeners of the delivery in flight.              *)

\* The registry's part of IInv.
RegistryInv == Dispatch /\ EntriesDistinct /\ UserDataAlive

\* What these lemmas need of the types.
LEMMA RegistryTyped ==
  ASSUME TypeOK
  PROVE  /\ registry \subseteq Entry /\ ev.todo \subseteq Entry /\ nextId \in Nat
         /\ \A e \in Pending : e.id \in Nat /\ e.of \in Listeners
         /\ listener \in [Listeners -> ListenerType]
         /\ dispatching \in {0, 1}
  BY DEF TypeOK, Pending, Entry, ListenerType

\* What the steps of the event thread make of its record.
LEMMA LoopTopSets ==
  ASSUME TypeOK, LoopTop
  PROVE  /\ ev'.pc = "drain" /\ ev'.todo = ev.todo /\ ev'.event = ev.event
         /\ ev'.slot = ev.slot /\ (ev'.last => ev.last \/ ffi = "exited")
<1>1. ev \in ThreadType
  BY DEF TypeOK, ThreadType
<1>2. CASE running \/ ffi # "exited"
  BY <1>1, <1>2 DEF LoopTop, ThreadType
<1>3. CASE ~(running \/ ffi # "exited")
  BY <1>1, <1>3 DEF LoopTop, ThreadType
<1> QED
  BY <1>2, <1>3

LEMMA NoticeSets ==
  ASSUME TypeOK, Notice
  PROVE  /\ ev'.pc \in {"begin", "top"} /\ ev'.todo = ev.todo
         /\ ev'.event \in {ev.event, NoEvent} /\ (ev'.pc = "begin" => ev'.event = NoEvent)
         /\ ev'.slot = ev.slot /\ ev'.last = ev.last
<1>1. ev \in ThreadType
  BY DEF TypeOK, ThreadType
<1>2. CASE running /\ ~notified /\ stuck
  BY <1>1, <1>2 DEF Notice, ThreadType
<1>3. CASE ~(running /\ ~notified /\ stuck)
  BY <1>1, <1>3 DEF Notice, ThreadType
<1> QED
  BY <1>2, <1>3

LEMMA CallNextSets ==
  ASSUME TypeOK, CallNext
  PROVE  /\ ev'.event = ev.event /\ ev'.slot = ev.slot /\ ev'.last = ev.last
         /\ \/ ev'.pc = "call" /\ ev'.todo = ev.todo
               /\ \E e \in registry : e.id = Upcoming.id
            \/ ev'.pc = "notify" /\ ev'.todo = ev.todo \ {Upcoming} /\ seen' = seen
               /\ ~ \E e \in registry : e.id = Upcoming.id
<1>1. ev \in ThreadType
  BY DEF TypeOK, ThreadType
<1>2. CASE \E e \in registry : e.id = Upcoming.id
  BY <1>1, <1>2 DEF CallNext, ThreadType
<1>3. CASE ~ \E e \in registry : e.id = Upcoming.id
  BY <1>1, <1>3 DEF CallNext, ThreadType
<1> QED
  BY <1>2, <1>3

\* Nothing registers or leaves, and the delivery goes on or ends.
LEMMA DeliveryStep ==
  ASSUME TypeOK, RegistryInv, UNCHANGED <<registry, nextId, listener, generation, ffi>>,
         Dispatch', ev'.todo \subseteq Pending,
         ev'.pc = "call" => Upcoming'.of \in Listeners
                            /\ listener[Upcoming'.of].state # "freed"
  PROVE  RegistryInv'
<1>1. Pending' \subseteq Pending
  BY DEF Pending
<1> QED
  BY <1>1 DEF RegistryInv, EntriesDistinct, UserDataAlive, Owned

\* Some listeners leave the registry, none of which the event thread is calling unless
\* it waits for that call, or is that call.
LEMMA ListenersLeave ==
  ASSUME TypeOK, RegistryInv,
         NEW S \in SUBSET Listeners, NEW s \in {"removing", "self", "inside", "freed"},
         UNCHANGED <<ev, dispatching, nextId, generation, ffi>>,
         registry' = {e \in registry : e.of \notin S}, SetState(S, s),
         ev.pc = "call" /\ s = "freed" => Upcoming.of \notin S
  PROVE  RegistryInv'
<1>1. /\ Pending' \subseteq Pending /\ Upcoming' = Upcoming
      /\ ev.pc = "call" => Upcoming \in Pending
  BY UpcomingIsFirst, FirstExists, RegistryTyped DEF Pending, RegistryInv, Dispatch
<1>2. \A l \in Listeners :
        /\ l \in S => listener'[l].state = s
        /\ l \notin S => listener'[l] = listener[l]
  BY RegistryTyped DEF SetState, ListenerType
<1>3. \A e \in Pending : e.of \in Listeners
  BY RegistryTyped
<1>4. Dispatch' /\ EntriesDistinct'
  BY <1>1, <1>2, <1>3 DEF RegistryInv, Dispatch, EntriesDistinct, Pending, Owned
<1>5. UserDataAlive'
  BY <1>1, <1>2, <1>3 DEF RegistryInv, UserDataAlive
<1> QED
  BY <1>4, <1>5 DEF RegistryInv

\* No step of a host, from a thread of its own or from a callback ...
LEMMA HostStepAlive ==
  ASSUME TypeOK, RegistryInv, NEW l \in Listeners,
         \/ Add(l) \/ Remove(l) \/ RemoveReturns(l) \/ RemoveAll
         \/ RemoveInDispatch(l) \/ RemoveElsewhere(l)
  PROVE  RegistryInv'
<1> USE DEF ring, library
<1>1. CASE Add(l)
  <2> DEFINE new == [id |-> nextId + 1, of |-> l]
  <2>1. /\ registry' = registry \union {new} /\ Pending' = Pending \union {new}
        /\ nextId' = nextId + 1 /\ new.id = nextId + 1 /\ new.of = l
        /\ ffi' = ffi /\ ffi # "clear" /\ ev' = ev /\ dispatching' = dispatching
        /\ listener[l].state = "new"
    BY <1>1 DEF Add, Pending
  <2>2. \A m \in Listeners :
          /\ m = l => listener'[m].state = "added"
          /\ m # l => listener'[m] = listener[m]
    BY <1>1, RegistryTyped DEF Add
  <2>3. \A e \in Pending : e.id \in Nat /\ e.id <= nextId /\ e.of \in Listeners
    BY <2>1, RegistryTyped DEF RegistryInv, EntriesDistinct
  <2>4. \A e \in Pending : e.of # l
    BY <2>1 DEF RegistryInv, EntriesDistinct
  <2>5. nextId \in Nat /\ \A e \in Pending : e.id # nextId + 1
    BY <2>3, RegistryTyped
  <2> HIDE DEF new
  <2>6. \A e, f \in Pending' : e.id = f.id \/ e.of = f.of => e = f
    BY <2>1, <2>4, <2>5 DEF RegistryInv, EntriesDistinct
  <2>7. \A e \in Pending' : e.id <= nextId'
    BY <2>1, <2>3, <2>5
  <2>8. /\ \A e \in Pending' : listener'[e.of].state # "new"
        /\ \A e \in registry' : listener'[e.of].state = "added"
    BY <2>1, <2>2, <2>3, <2>4 DEF RegistryInv, EntriesDistinct, Pending
  <2>9. EntriesDistinct'
    BY <2>1, <2>6, <2>7, <2>8 DEF EntriesDistinct
  <2>10. Dispatch'
    BY <2>1 DEF RegistryInv, Dispatch
  <2>11. UserDataAlive'
    <3>1. Upcoming' = Upcoming /\ (ev.pc = "call" => Upcoming.of \in Listeners)
      BY <2>1, UpcomingIsFirst, FirstExists, RegistryTyped DEF RegistryInv, Dispatch, Entry
    <3> QED
      BY <2>1, <2>2, <3>1 DEF RegistryInv, UserDataAlive
  <2> QED
    BY <2>9, <2>10, <2>11 DEF RegistryInv
<1>2. CASE Remove(l)
  <2>1. registry' = {e \in registry : e.of \notin {l}} /\ SetState({l}, "removing")
        /\ UNCHANGED <<ev, dispatching, nextId, generation, ffi>>
    BY <1>2 DEF Remove, Unregister
  <2> QED
    BY <2>1, ListenersLeave
<1>3. CASE RemoveReturns(l)
  <2>1. dispatching = 0 /\ UNCHANGED <<registry, ev, dispatching, nextId, generation, ffi>>
        /\ SetState({l}, "freed")
    BY <1>3 DEF RemoveReturns
  <2>2. l \notin {e.of : e \in registry}
    BY <1>3 DEF RemoveReturns, RegistryInv, EntriesDistinct
  <2> QED
    BY <2>1, <2>2, ListenersLeave DEF RegistryInv, Dispatch
<1>4. CASE RemoveInDispatch(l) \/ RemoveElsewhere(l)
  <2>0. PICK mark \in {"self", "inside"} : RemoveAtOnce(l, mark)
    BY <1>4 DEF RemoveInDispatch, RemoveElsewhere
  <2> DEFINE s == IF ev.pc = "call" /\ Upcoming.of = l THEN mark ELSE "freed"
  <2>1. registry' = {e \in registry : e.of \notin {l}} /\ SetState({l}, s)
        /\ UNCHANGED <<ev, dispatching, nextId, generation, ffi>>
    BY <2>0 DEF RemoveAtOnce, Unregister
  <2>2. /\ s \in {"removing", "self", "inside", "freed"}
        /\ (ev.pc = "call" /\ s = "freed" => Upcoming.of \notin {l})
    OBVIOUS
  <2> HIDE DEF s
  <2> QED
    BY <2>1, <2>2, ListenersLeave
<1>5. CASE RemoveAll
  <2> DEFINE all == {e.of : e \in registry}
  <2>1. registry' = {e \in registry : e.of \notin all} /\ SetState(all, "removing")
        /\ UNCHANGED <<ev, dispatching, nextId, generation, ffi>>
    BY <1>5 DEF RemoveAll, Unregister
  <2>2. all \subseteq Listeners
    BY RegistryTyped DEF Entry
  <2> HIDE DEF all
  <2> QED
    BY <2>1, <2>2, ListenersLeave
<1> QED
  BY <1>1, <1>2, <1>3, <1>4, <1>5

\* ... or of the FFI thread ...
LEMMA FfiStepAlive ==
  ASSUME TypeOK, RegistryInv,
         Emit \/ Claim \/ ClearListeners \/ Release \/ SignalStop \/ FfiExits
  PROVE  RegistryInv'
<1>1. Upcoming' = First(ev'.todo) /\ Upcoming = First(ev.todo)
  BY UpcomingIsFirst
<1> USE DEF registrations, RegistryInv, Dispatch, EntriesDistinct, UserDataAlive, Pending
<1>2. CASE Emit
  BY <1>1, <1>2 DEF Emit, Owned
<1>3. CASE Claim
  BY <1>1, <1>3 DEF Claim
<1>4. CASE ClearListeners
  BY <1>1, <1>4 DEF ClearListeners, Owned
<1>5. CASE Release
  <2>1. /\ dispatching = 0 /\ registry = {} /\ ev.todo = {} /\ ev.pc # "call" /\ ffi' = "loop"
        /\ UNCHANGED <<ev, dispatching, registry>>
    BY <1>5 DEF Release
  <2> QED
    BY <2>1
<1>6. CASE SignalStop
  BY <1>1, <1>6 DEF SignalStop, Owned
<1>7. CASE FfiExits
  BY <1>1, <1>7 DEF FfiExits, Owned
<1> QED
  BY <1>2, <1>3, <1>4, <1>5, <1>6, <1>7

\* ... or of the event thread frees what a callback uses.
LEMMA EventThreadStepAlive ==
  ASSUME TypeOK, RegistryInv, EventThread
  PROVE  RegistryInv'
<1>1. /\ UNCHANGED <<registry, nextId, generation, ffi>>
      /\ ~CallbackReturns => UNCHANGED listener
  BY DEF EventThread, LoopTop, Peek, QueueDrained, Notice, BeginDispatch, CallNext,
         CallbackReturns, EndDispatch, CommitDequeue, registrations, library
<1>2. dispatching \in {0, 1} /\ Dispatch /\ EntriesDistinct
  BY RegistryTyped DEF RegistryInv
<1>3. UNCHANGED listener /\ ev'.pc # "call" /\ ev'.todo \subseteq Pending /\ Dispatch'
        => RegistryInv'
  BY <1>1, DeliveryStep
<1>13. ev \in ThreadType
  BY DEF TypeOK, ThreadType
<1> USE <1>13 DEF ThreadType, Dispatch, Pending, registrations
<1>4. CASE LoopTop
  BY <1>2, <1>3, <1>4, LoopTopSets DEF LoopTop
<1>5. CASE Peek
  BY <1>2, <1>3, <1>5 DEF Peek
<1>6. CASE QueueDrained
  BY <1>2, <1>3, <1>6 DEF QueueDrained, EvGoto
<1>7. CASE Notice
  BY <1>2, <1>3, <1>7, NoticeSets DEF Notice
<1>8. CASE BeginDispatch
  BY <1>2, <1>3, <1>8 DEF BeginDispatch
<1>9. CASE CallNext
  <2>1. Upcoming \in ev.todo /\ Upcoming.of \in Listeners
    BY <1>9, UpcomingIsFirst, FirstExists, RegistryTyped DEF CallNext, Entry
  <2>2. CASE \E e \in registry : e.id = Upcoming.id
    <3>1. Upcoming \in registry
      BY <1>2, <2>1, <2>2 DEF EntriesDistinct
    <3>2. ev'.todo = ev.todo /\ ev'.pc = "call" /\ dispatching' = dispatching
      BY <1>9, <2>2, CallNextSets DEF CallNext
    <3>3. Upcoming' = Upcoming
      BY <3>2, UpcomingIsFirst
    <3>4. listener[Upcoming.of].state = "added"
      BY <1>2, <3>1 DEF EntriesDistinct
    <3>5. Dispatch'
      BY <1>2, <1>9, <3>2 DEF CallNext
    <3>6. UNCHANGED listener
      BY <1>9 DEF CallNext
    <3> QED
      BY <1>1, <2>1, <3>2, <3>3, <3>4, <3>5, <3>6, DeliveryStep
  <2>3. CASE ~ \E e \in registry : e.id = Upcoming.id
    BY <1>2, <1>3, <1>9, <2>3, CallNextSets DEF CallNext
  <2> QED
    BY <2>2, <2>3
<1>10. CASE CallbackReturns
  <2>1. Dispatch' /\ ev'.pc # "call" /\ ev'.todo \subseteq ev.todo
    BY <1>2, <1>10 DEF CallbackReturns
  <2>2. \A l \in Listeners :
          \/ listener'[l] = listener[l]
          \/ listener[l].state \in {"self", "inside"} /\ listener'[l].state = "freed"
    BY <1>10, RegistryTyped DEF CallbackReturns, SetState, ListenerType
  <2>3. EntriesDistinct'
    BY <1>1, <1>2, <2>1, <2>2, RegistryTyped DEF EntriesDistinct, Owned
  <2>4. UserDataAlive'
    BY <2>1 DEF UserDataAlive
  <2> QED
    BY <2>1, <2>3, <2>4 DEF RegistryInv
<1>11. CASE EndDispatch
  BY <1>2, <1>3, <1>11 DEF EndDispatch
<1>12. CASE CommitDequeue
  BY <1>2, <1>3, <1>12 DEF CommitDequeue, Thread
<1> QED
  BY <1>4, <1>5, <1>6, <1>7, <1>8, <1>9, <1>10, <1>11, <1>12 DEF EventThread

\* Every step keeps the registry's part.
LEMMA RegistryKept ==
  ASSUME IInv, Next
  PROVE  RegistryInv'
<1>1. TypeOK /\ RegistryInv
  BY DEF IInv, RegistryInv
<1>2. ASSUME NEW l \in Listeners,
             \/ Add(l) \/ Remove(l) \/ RemoveReturns(l)
             \/ RemoveInDispatch(l) \/ RemoveElsewhere(l)
      PROVE  RegistryInv'
  BY <1>1, <1>2, HostStepAlive
<1>3. CASE RemoveAll
  <2>1. PICK e \in registry : TRUE
    BY <1>3 DEF RemoveAll
  <2>2. e.of \in Listeners
    BY <1>1, <2>1, RegistryTyped DEF Pending
  <2> QED
    BY <1>1, <1>3, <2>2, HostStepAlive
<1>4. CASE Emit \/ Claim \/ ClearListeners \/ Release \/ SignalStop \/ FfiExits
  BY <1>1, <1>4, FfiStepAlive
<1>5. CASE EventThread
  BY <1>1, <1>5, EventThreadStepAlive
<1> QED
  BY <1>2, <1>3, <1>4, <1>5 DEF Next

-----------------------------------------------------------------------------
(* The ring.                                                               *)

\* What the ring's lemmas need of the types.
RingType ==
  /\ head \in 0 .. Capacity - 1 /\ tail \in 0 .. Capacity - 1
  /\ count \in 0 .. Capacity
  /\ slab \in [0 .. Capacity - 1 -> Event]
  /\ emitted \in Nat

\* They hold.
LEMMA RingTyped == TypeOK => RingType
  BY BoundsAssumption DEF TypeOK, RingType

\* The ring changes in Emit and CommitDequeue only.
LEMMA RingStays ==
  ASSUME UNCHANGED <<ring, emitted>>
  PROVE  /\ RingOrder => RingOrder'
         /\ \A i \in Int : Queued(i)' = Queued(i)
  BY DEF RingOrder, Queued, RingPos, ring

\* An event goes behind those queued: it is newer, and takes none of their slots.
LEMMA EmitQueues ==
  ASSUME RingType, RingOrder, Emit
  PROVE  /\ RingOrder'
         /\ \A i \in 0 .. count - 1 : Queued(i)' = Queued(i)
         /\ \A i \in 0 .. count' - 1 : i \notin 0 .. count - 1 => Queued(i)'.num = emitted'
         /\ emitted' = emitted + 1 /\ head' = head /\ count' \in {count, count + 1}
         /\ count > 0 => slab'[head] = slab[head]
<1>1. emitted' = emitted + 1 /\ head' = head /\ count \in Nat /\ count <= Capacity
      /\ emitted \in Nat
  BY CapacityAssumption DEF Emit, RingType
<1>2. CASE Full
  <2>1. /\ tail' = tail /\ count' = count /\ slab' = slab
        /\ \A i \in Int : Queued(i)' = Queued(i)
    BY <1>1, <1>2 DEF Emit, Queued, RingPos
  <2>2. tail' = RingPos(head', count')
    BY <1>1, <2>1 DEF RingOrder
  <2> QED
    BY <1>1, <2>1, <2>2 DEF RingOrder
<1>3. CASE ~Full
  <2> DEFINE event == [claim |-> generation, num |-> emitted + 1]
  <2>1. /\ count < Capacity /\ count' = count + 1
        /\ slab' = [slab EXCEPT ![tail] = event] /\ tail' = (tail + 1) % Capacity
        /\ event.num = emitted + 1
    BY <1>1, <1>3, CapacityAssumption DEF Emit, Full
  <2> HIDE DEF event
  <2>2. /\ head \in 0 .. Capacity - 1 /\ tail \in 0 .. Capacity - 1
        /\ tail = RingPos(head, count) /\ count \in 0 .. Capacity - 1
    BY <1>1, <2>1, CapacityAssumption DEF RingType, RingOrder
  <2>3. tail' = RingPos(head', count')
    <3>1. tail' = RingPos(RingPos(head, count), 1)
      BY <2>1, <2>2, RingPositions
    <3> QED
      BY <1>1, <2>1, <2>2, <3>1, RingPositions
  <2>4. \A i \in Int : Queued(i)' = slab'[RingPos(head, i)]
    BY <1>1 DEF Queued, RingPos
  <2>5. \A i \in Int : i = count => Queued(i)' = event
    BY <2>1, <2>2, <2>4 DEF RingType
  <2>6. \A i \in 0 .. count - 1 : Queued(i)' = Queued(i)
    <3> TAKE i \in 0 .. count - 1
    <3>1. i \in 0 .. Capacity - 1 /\ i \in 0 .. Capacity /\ i # count /\ i \in Int
      BY <1>1, <2>1, CapacityAssumption
    <3>2. RingPos(head, i) # tail /\ RingPos(head, i) \in 0 .. Capacity - 1
      BY <2>2, <3>1, RingPositions
    <3> QED
      BY <2>1, <2>4, <3>1, <3>2 DEF Queued, RingType
  <2>7. \A i \in 0 .. count' - 1 : i \in Int /\ (i \in 0 .. count - 1 \/ i = count)
    BY <1>1, <2>1
  <2>8. RingOrder'
    <3>1. \A i \in 0 .. count' - 1 : Queued(i)'.num \in 1 .. emitted'
      BY <1>1, <2>1, <2>5, <2>6, <2>7 DEF RingOrder
    <3>2. ASSUME NEW i \in 0 .. count' - 1, NEW j \in 0 .. count' - 1, i < j
          PROVE  Queued(i)'.num < Queued(j)'.num
      <4>1. i \in 0 .. count - 1
        BY <1>1, <2>1, <3>2
      <4>2. CASE j = count
        BY <1>1, <2>1, <2>5, <2>6, <4>1, <4>2 DEF RingOrder
      <4>3. CASE j \in 0 .. count - 1
        BY <2>6, <3>2, <4>1, <4>3 DEF RingOrder
      <4> QED
        BY <2>7, <4>2, <4>3
    <3> QED
      BY <2>3, <3>1, <3>2 DEF RingOrder
  <2>9. count > 0 => slab'[head] = slab[head]
    <3> SUFFICES ASSUME count > 0 PROVE slab'[head] = slab[head]
      OBVIOUS
    <3>1. 0 \in 0 .. count - 1 /\ 0 \in Int
      BY <1>1
    <3> QED
      BY <2>2, <2>4, <2>6, <3>1, RingPositions DEF Queued
  <2> QED
    BY <1>1, <2>1, <2>5, <2>6, <2>7, <2>8, <2>9
<1> QED
  BY <1>2, <1>3

\* The commit takes the oldest, and leaves the others in their order.
LEMMA CommitTakesOldest ==
  ASSUME RingType, RingOrder, InFlight, CommitDequeue
  PROVE  /\ RingOrder'
         /\ count' = count - 1 /\ emitted' = emitted /\ count > 0
         /\ ev.event = Queued(0)
         /\ \A i \in 0 .. count' - 1 : i + 1 \in 0 .. count - 1 /\ Queued(i)' = Queued(i + 1)
<1>1. /\ count \in 1 .. Capacity /\ count' = count - 1 /\ emitted' = emitted
      /\ slab' = slab /\ tail' = tail /\ ev.event = slab[head]
      /\ head' = (head + 1) % Capacity /\ head \in 0 .. Capacity - 1
  BY CapacityAssumption DEF CommitDequeue, InFlight, RingType, library
<1>2. ev.event = Queued(0)
  BY <1>1, RingPositions DEF Queued
<1>3. head' = RingPos(head, 1)
  BY <1>1, RingPositions
<1>4. \A i \in 0 .. count' : RingPos(head', i) = RingPos(head, i + 1)
  <2> TAKE i \in 0 .. count'
  <2>1. i \in 0 .. Capacity - 1
    BY <1>1, CapacityAssumption
  <2> QED
    BY <1>1, <1>3, <2>1, RingPositions
<1>5. tail' = RingPos(head', count')
  <2>1. count' \in 0 .. count' /\ count' + 1 = count
    BY <1>1
  <2> QED
    BY <1>1, <1>4, <2>1 DEF RingOrder
<1>6. \A i \in 0 .. count' - 1 : i + 1 \in 0 .. count - 1 /\ i \in 0 .. count'
  BY <1>1
<1>7. \A i \in 0 .. count' - 1 : Queued(i)' = Queued(i + 1)
  <2> TAKE i \in 0 .. count' - 1
  <2>1. Queued(i)' = slab'[RingPos(head', i)]
    BY DEF Queued, RingPos
  <2> QED
    BY <1>1, <1>4, <1>6, <2>1 DEF Queued
<1>8. \A i, j \in 0 .. count' - 1 : i < j => i + 1 < j + 1
  BY <1>1
<1> QED
  BY <1>1, <1>2, <1>5, <1>6, <1>7, <1>8 DEF RingOrder

\* The occupied slots are in order, and a delivery is of the oldest.
LEMMA RingKept ==
  ASSUME IInv, Next
  PROVE  RingOrder' /\ InFlight'
<1> USE RingStays, RingTyped
    DEF IInv, Dispatch, InFlight, registrations, ring, library, NoEvent, Thread
<1>1. ASSUME NEW l \in Listeners, Add(l)
      PROVE  RingOrder' /\ InFlight'
  BY <1>1 DEF Add
<1>2. ASSUME NEW l \in Listeners, Remove(l)
      PROVE  RingOrder' /\ InFlight'
  BY <1>2 DEF Remove, Unregister
<1>3. ASSUME NEW l \in Listeners, RemoveReturns(l)
      PROVE  RingOrder' /\ InFlight'
  BY <1>3 DEF RemoveReturns
<1>4. ASSUME NEW l \in Listeners, RemoveInDispatch(l) \/ RemoveElsewhere(l)
      PROVE  RingOrder' /\ InFlight'
  BY <1>4 DEF RemoveInDispatch, RemoveElsewhere, RemoveAtOnce, Unregister
<1>5. CASE RemoveAll
  BY <1>5 DEF RemoveAll, Unregister
<1>6. CASE Emit
  <2>1. /\ RingOrder' /\ head' = head /\ count' \in {count, count + 1}
        /\ count > 0 => slab'[head] = slab[head]
    BY <1>6, EmitQueues
  <2>2. ev' = ev /\ (count > 0 => count' > 0)
    BY <1>6, <2>1, CapacityAssumption DEF Emit, RingType
  <2> QED
    BY <2>1, <2>2
<1>7. CASE Claim
  BY <1>7 DEF Claim
<1>8. CASE ClearListeners
  BY <1>8 DEF ClearListeners
<1>9. CASE Release
  BY <1>9 DEF Release
<1>10. CASE SignalStop
  BY <1>10 DEF SignalStop
<1>11. CASE FfiExits
  BY <1>11 DEF FfiExits
<1>12. CASE LoopTop
  BY <1>12, LoopTopSets DEF LoopTop
<1>13. CASE Peek
  BY <1>13 DEF Peek, TypeOK
<1>14. CASE QueueDrained
  BY <1>14 DEF QueueDrained, EvGoto
<1>15. CASE Notice
  BY <1>15, NoticeSets DEF Notice
<1>16. CASE BeginDispatch
  BY <1>16 DEF BeginDispatch
<1>17. CASE CallNext
  BY <1>17, CallNextSets DEF CallNext
<1>18. CASE CallbackReturns
  BY <1>18 DEF CallbackReturns
<1>19. CASE EndDispatch
  BY <1>19 DEF EndDispatch
<1>20. CASE CommitDequeue
  <2>1. RingOrder'
    BY <1>20, CommitTakesOldest
  <2>2. ev'.event = NoEvent /\ ev'.pc = "drain" /\ ev'.todo = {}
    BY <1>20 DEF CommitDequeue
  <2> QED
    BY <2>1, <2>2
<1> QED
  BY <1>1, <1>2, <1>3, <1>4, <1>5, <1>6, <1>7, <1>8, <1>9, <1>10, <1>11, <1>12, <1>13,
     <1>14, <1>15, <1>16, <1>17, <1>18, <1>19, <1>20 DEF Next, EventThread

-----------------------------------------------------------------------------
(* What the listeners have seen.                                           *)

\* The numbers compared are numbers.
LEMMA SeenTyped ==
  ASSUME TypeOK
  PROVE  /\ \A l \in Listeners : seen[l] \in Seq(Event)
         /\ \A l \in Listeners : \A i \in DOMAIN seen[l] : seen[l][i].num \in Nat
         /\ ev.event.num \in Nat /\ emitted \in Nat /\ count \in Nat
<1>1. \A l \in Listeners : seen[l] \in Seq(Event)
  BY DEF TypeOK
<1>2. \A l \in Listeners : \A i \in DOMAIN seen[l] : seen[l][i] \in Event
  BY <1>1
<1>3. \A e \in Event : e.num \in Nat
  BY BoundsAssumption DEF Event
<1>4. ev.event \in Event
  BY DEF TypeOK
<1>5. emitted \in Nat /\ count \in Nat
  BY RingTyped, CapacityAssumption DEF RingType
<1> QED
  BY <1>1, <1>2, <1>3, <1>4, <1>5

\* A step away from the event thread and the ring.
LEMMA SeenStays ==
  ASSUME SeenIsPast, OnceInOrder, UNCHANGED <<ring, emitted, seen, ev>>
  PROVE  SeenIsPast' /\ OnceInOrder'
<1>1. /\ Upcoming' = Upcoming /\ count' = count
      /\ \A i \in Int : Queued(i)' = Queued(i)
  BY UpcomingIsFirst, RingStays DEF ring
<1> QED
  BY <1>1 DEF SeenIsPast, OnceInOrder, SeenBefore, SeenUpTo

\* A step of the event thread that calls nobody, leaves the ring, and goes on with the
\* same event, or turns from none to none.
LEMMA SeenGoesOn ==
  ASSUME IInv, UNCHANGED <<ring, emitted, seen>>, ev'.event = ev.event,
         ev'.todo = {}, ev'.pc # "begin" \/ ev.event = NoEvent
  PROVE  SeenIsPast' /\ OnceInOrder'
<1>1. count' = count /\ \A i \in Int : Queued(i)' = Queued(i)
  BY RingStays DEF ring
<1> QED
  BY <1>1 DEF IInv, SeenIsPast, OnceInOrder, SeenBefore, SeenUpTo

\* A new event is newer than all a listener saw.
LEMMA SeenInEmit ==
  ASSUME IInv, Emit
  PROVE  SeenIsPast' /\ OnceInOrder'
<1>1. TypeOK /\ RingType /\ RingOrder /\ SeenIsPast /\ OnceInOrder
  BY RingTyped DEF IInv
<1>2. /\ Upcoming' = Upcoming /\ seen' = seen /\ ev' = ev
      /\ emitted' = emitted + 1 /\ emitted \in Nat
  BY <1>1, UpcomingIsFirst, SeenTyped DEF Emit
<1>3. /\ \A i \in 0 .. count - 1 : Queued(i)' = Queued(i)
      /\ \A i \in 0 .. count' - 1 : i \notin 0 .. count - 1 => Queued(i)'.num = emitted'
  BY <1>1, EmitQueues
<1>4. \A l \in Listeners \ Watchers : SeenUpTo(l, emitted)'
  BY <1>1, <1>2, SeenTyped DEF SeenIsPast, SeenUpTo
<1>5. ASSUME NEW l \in Listeners \ Watchers, ev.event = NoEvent, NEW i \in 0 .. count' - 1
      PROVE  SeenBefore(l, Queued(i).num)'
  <2>1. CASE i \in 0 .. count - 1
    BY <1>1, <1>2, <1>3, <1>5, <2>1 DEF SeenIsPast, SeenBefore
  <2>2. CASE i \notin 0 .. count - 1
    BY <1>1, <1>2, <1>3, <1>5, <2>2, SeenTyped DEF SeenIsPast, SeenUpTo, SeenBefore
  <2> QED
    BY <2>1, <2>2
<1>6. /\ \A l \in Listeners \ Watchers :
           /\ ev'.event # NoEvent => SeenUpTo(l, ev.event.num)'
           /\ ev'.event # NoEvent /\ ev'.pc = "begin" => SeenBefore(l, ev.event.num)'
           /\ \A e \in ev'.todo :
                e.of = l /\ ~(ev'.pc = "call" /\ e = Upcoming') => SeenBefore(l, ev.event.num)'
      /\ OnceInOrder'
  BY <1>1, <1>2 DEF SeenIsPast, OnceInOrder, SeenBefore, SeenUpTo
<1> QED
  BY <1>2, <1>4, <1>5, <1>6 DEF SeenIsPast

\* The event peeked is queued still, so nobody has seen it.
LEMMA SeenInPeek ==
  ASSUME IInv, Peek
  PROVE  SeenIsPast' /\ OnceInOrder'
<1>1. /\ UNCHANGED <<ring, emitted, seen>> /\ count \in Nat /\ count > 0 /\ emitted \in Nat
      /\ ev.event = NoEvent /\ ev'.event = slab[head] /\ ev'.pc = "begin" /\ ev'.todo = {}
  BY SeenTyped DEF IInv, TypeOK, Dispatch, InFlight, Peek, library
<1>2. Queued(0) = slab[head] /\ 0 \in 0 .. count - 1
  BY <1>1, RingPositions, RingTyped DEF IInv, RingType, Queued
<1>3. Queued(0) # NoEvent /\ Queued(0).num \in Nat
  BY <1>2 DEF IInv, RingOrder, NoEvent
<1>4. \A l \in Listeners \ Watchers : SeenUpTo(l, emitted) /\ SeenBefore(l, Queued(0).num)
  BY <1>1, <1>2 DEF IInv, SeenIsPast
<1>5. \A l \in Listeners \ Watchers : SeenUpTo(l, Queued(0).num)
  BY <1>3, <1>4, SeenTyped DEF IInv, SeenBefore, SeenUpTo
<1>6. SeenIsPast'
  BY <1>1, <1>2, <1>3, <1>4, <1>5 DEF SeenIsPast, SeenBefore, SeenUpTo
<1> QED
  BY <1>1, <1>6 DEF IInv, OnceInOrder

\* Nor has anyone when the delivery makes its list.
LEMMA SeenInBegin ==
  ASSUME IInv, BeginDispatch
  PROVE  SeenIsPast' /\ OnceInOrder'
<1>1. /\ UNCHANGED <<ring, emitted, seen>> /\ ev.pc = "begin" /\ ev'.pc = "notify"
      /\ ev'.event = ev.event
      /\ \A e \in ev'.todo : e.of \in Watchers <=> ev.event = NoEvent
  BY DEF IInv, TypeOK, BeginDispatch, library
<1>2. count' = count /\ \A i \in Int : Queued(i)' = Queued(i)
  BY <1>1, RingStays DEF ring
<1>3. \A l \in Listeners \ Watchers : ev.event # NoEvent => SeenBefore(l, ev.event.num)
  BY <1>1 DEF IInv, SeenIsPast
<1>4. SeenIsPast'
  BY <1>1, <1>2, <1>3 DEF IInv, SeenIsPast, SeenBefore, SeenUpTo
<1> QED
  BY <1>1, <1>4 DEF IInv, OnceInOrder

\* The event is appended to what the listener saw: it is newer than all of it.
LEMMA SeenInCall ==
  ASSUME IInv, CallNext
  PROVE  SeenIsPast' /\ OnceInOrder'
<1>1. /\ UNCHANGED <<ring, emitted>> /\ ev.pc = "notify" /\ ev.todo # {}
      /\ ev'.event = ev.event
  BY DEF IInv, TypeOK, CallNext, library
<1>2. count' = count /\ \A i \in Int : Queued(i)' = Queued(i)
  BY <1>1, RingStays DEF ring
<1>3. /\ Upcoming \in ev.todo /\ Upcoming.of \in Listeners
      /\ Upcoming.of \in Watchers <=> ev.event = NoEvent
  BY <1>1, UpcomingIsFirst, FirstExists DEF IInv, TypeOK, InFlight, Entry
<1>4. CASE ~ \E e \in registry : e.id = Upcoming.id
  <2>1. ev'.pc = "notify" /\ seen' = seen /\ ev'.todo \subseteq ev.todo
    BY <1>1, <1>4 DEF IInv, TypeOK, CallNext
  <2> QED
    BY <1>1, <1>2, <2>1 DEF IInv, SeenIsPast, OnceInOrder, SeenBefore, SeenUpTo
<1>5. CASE \E e \in registry : e.id = Upcoming.id
  <2>1. /\ ev'.pc = "call" /\ ev'.todo = ev.todo /\ Upcoming' = Upcoming
        /\ seen' = [seen EXCEPT ![Upcoming.of] = Append(@, ev.event)]
        /\ \A l \in Listeners : l # Upcoming.of => seen'[l] = seen[l]
        /\ seen'[Upcoming.of] = Append(seen[Upcoming.of], ev.event)
    BY <1>1, <1>3, <1>5, UpcomingIsFirst DEF IInv, TypeOK, CallNext
  <2>2. \A e \in ev.todo : e.of = Upcoming.of => e = Upcoming
    BY <1>3 DEF IInv, EntriesDistinct, Pending
  <2>3. ASSUME NEW l \in Listeners \ Watchers, l # Upcoming.of
        PROVE  /\ SeenUpTo(l, emitted)'
               /\ ev.event = NoEvent =>
                    \A i \in 0 .. count - 1 : SeenBefore(l, Queued(i).num)'
               /\ ev.event # NoEvent => SeenUpTo(l, ev.event.num)'
               /\ \A e \in ev.todo : e.of = l => SeenBefore(l, ev.event.num)'
               /\ \A i, j \in DOMAIN seen'[l] : i < j => seen'[l][i].num < seen'[l][j].num
    <3>1. seen'[l] = seen[l]
      BY <2>1, <2>3
    <3>2. \A i, j \in DOMAIN seen'[l] : i < j => seen'[l][i].num < seen'[l][j].num
      BY <3>1 DEF IInv, OnceInOrder
    <3>3. /\ SeenUpTo(l, emitted)
          /\ ev.event = NoEvent =>
               \A i \in 0 .. count - 1 : SeenBefore(l, Queued(i).num)
          /\ ev.event # NoEvent => SeenUpTo(l, ev.event.num)
          /\ \A e \in ev.todo : e.of = l => SeenBefore(l, ev.event.num)
      BY <1>1 DEF IInv, SeenIsPast
    <3> QED
      BY <1>1, <1>2, <3>1, <3>2, <3>3 DEF SeenBefore, SeenUpTo
  <2>4. ASSUME NEW l \in Listeners \ Watchers, l = Upcoming.of
        PROVE  /\ SeenUpTo(l, emitted)'
               /\ ev.event # NoEvent /\ SeenUpTo(l, ev.event.num)'
               /\ \A i, j \in DOMAIN seen'[l] : i < j => seen'[l][i].num < seen'[l][j].num
    <3> DEFINE n == Len(seen[l])
    <3>1. ev.event # NoEvent /\ SeenBefore(l, ev.event.num)
      BY <1>1, <1>3, <2>4 DEF IInv, SeenIsPast
    <3>2. ev.event.num <= emitted /\ ev.event.num \in Nat /\ emitted \in Nat
      <4>1. ev.event = Queued(0) /\ 0 \in 0 .. count - 1
        BY <3>1, RingPositions, CapacityAssumption DEF IInv, TypeOK, InFlight, Queued
      <4> QED
        BY <4>1, SeenTyped DEF IInv, RingOrder
    <3>3. /\ n \in Nat /\ DOMAIN seen[l] = 1 .. n /\ DOMAIN seen'[l] = 1 .. n + 1
          /\ \A i \in 1 .. n : seen'[l][i] = seen[l][i] /\ seen[l][i].num \in Nat
          /\ seen'[l][n + 1] = ev.event
      <4>1. seen[l] \in Seq(Event) /\ ev.event \in Event
        BY SeenTyped DEF IInv, TypeOK
      <4>2. seen'[l] = Append(seen[l], ev.event)
        BY <2>1, <2>4
      <4> QED
        BY <4>1, <4>2, SeenTyped DEF IInv
    <3> HIDE DEF n
    <3>4. \A i \in DOMAIN seen'[l] : i \in 1 .. n \/ i = n + 1
      BY <3>3
    <3>5. SeenUpTo(l, ev.event.num)'
      BY <1>1, <3>1, <3>2, <3>3, <3>4 DEF SeenBefore, SeenUpTo
    <3>6. SeenUpTo(l, emitted)'
      BY <1>1, <3>2, <3>3, <3>4, <3>1 DEF SeenBefore, SeenUpTo
    <3>7. ASSUME NEW i \in DOMAIN seen'[l], NEW j \in DOMAIN seen'[l], i < j
          PROVE  seen'[l][i].num < seen'[l][j].num
      <4>1. i \in 1 .. n
        BY <3>3, <3>7
      <4>2. CASE j = n + 1
        BY <3>1, <3>3, <4>1, <4>2 DEF SeenBefore
      <4>3. CASE j \in 1 .. n
        BY <3>3, <3>7, <4>1, <4>3 DEF IInv, OnceInOrder
      <4> QED
        BY <3>4, <4>2, <4>3
    <3> QED
      BY <3>1, <3>5, <3>6, <3>7
  <2>5. OnceInOrder'
    BY <2>3, <2>4 DEF OnceInOrder
  <2>6. SeenIsPast'
    BY <1>1, <1>2, <2>1, <2>2, <2>3, <2>4 DEF SeenIsPast
  <2> QED
    BY <2>5, <2>6
<1> QED
  BY <1>4, <1>5

\* A listener that was called is off the list.
LEMMA SeenInReturn ==
  ASSUME IInv, CallbackReturns
  PROVE  SeenIsPast' /\ OnceInOrder'
<1>1. /\ UNCHANGED <<ring, emitted, seen>> /\ ev'.pc = "notify" /\ ev'.event = ev.event
      /\ ev'.todo = ev.todo \ {Upcoming}
  BY DEF IInv, TypeOK, CallbackReturns, library
<1>2. count' = count /\ \A i \in Int : Queued(i)' = Queued(i)
  BY <1>1, RingStays DEF ring
<1> QED
  BY <1>1, <1>2 DEF IInv, SeenIsPast, OnceInOrder, SeenBefore, SeenUpTo

\* What stays queued is newer than the event that was delivered.
LEMMA SeenInCommit ==
  ASSUME IInv, CommitDequeue
  PROVE  SeenIsPast' /\ OnceInOrder'
<1>1. seen' = seen /\ ev'.event = NoEvent /\ ev'.todo = {} /\ ev.event # NoEvent
  BY DEF IInv, InFlight, CommitDequeue, Thread
<1>2. /\ count' = count - 1 /\ emitted' = emitted /\ ev.event = Queued(0) /\ count > 0
      /\ \A i \in 0 .. count' - 1 : i + 1 \in 0 .. count - 1 /\ Queued(i)' = Queued(i + 1)
  BY CommitTakesOldest, RingTyped DEF IInv
<1>3. \A l \in Listeners \ Watchers : SeenUpTo(l, emitted) /\ SeenUpTo(l, Queued(0).num)
  BY <1>1, <1>2 DEF IInv, SeenIsPast
<1>4. ASSUME NEW l \in Listeners \ Watchers, NEW i \in 0 .. count' - 1
      PROVE  SeenBefore(l, Queued(i).num)'
  <2>1. 0 \in 0 .. count - 1 /\ i + 1 \in 0 .. count - 1 /\ 0 < i + 1
    BY <1>2, SeenTyped DEF IInv
  <2>2. /\ Queued(0).num < Queued(i + 1).num
        /\ Queued(0).num \in Nat /\ Queued(i + 1).num \in Nat
    BY <2>1 DEF IInv, RingOrder
  <2>3. SeenBefore(l, Queued(i + 1).num)
    BY <1>3, <2>2, SeenTyped DEF IInv, SeenUpTo, SeenBefore
  <2> QED
    BY <1>1, <1>2, <2>3 DEF SeenBefore
<1>5. SeenIsPast'
  BY <1>1, <1>2, <1>3, <1>4 DEF SeenIsPast, SeenUpTo
<1> QED
  BY <1>1, <1>5 DEF IInv, OnceInOrder


\* What a listener saw is past, and in order.
LEMMA SeenKept ==
  ASSUME IInv, Next
  PROVE  SeenIsPast' /\ OnceInOrder'
<1> USE DEF IInv, TypeOK, Dispatch, InFlight, registrations, library
<1>1. ASSUME NEW l \in Listeners, Add(l)
      PROVE  SeenIsPast' /\ OnceInOrder'
  BY <1>1, SeenStays DEF Add
<1>2. ASSUME NEW l \in Listeners, Remove(l)
      PROVE  SeenIsPast' /\ OnceInOrder'
  BY <1>2, SeenStays DEF Remove, Unregister
<1>3. ASSUME NEW l \in Listeners, RemoveReturns(l)
      PROVE  SeenIsPast' /\ OnceInOrder'
  BY <1>3, SeenStays DEF RemoveReturns
<1>4. ASSUME NEW l \in Listeners, RemoveInDispatch(l) \/ RemoveElsewhere(l)
      PROVE  SeenIsPast' /\ OnceInOrder'
  BY <1>4, SeenStays DEF RemoveInDispatch, RemoveElsewhere, RemoveAtOnce, Unregister
<1>5. CASE RemoveAll
  BY <1>5, SeenStays DEF RemoveAll, Unregister
<1>6. CASE Emit
  BY <1>6, SeenInEmit
<1>7. CASE Claim
  BY <1>7, SeenStays DEF Claim
<1>8. CASE ClearListeners
  BY <1>8, SeenStays DEF ClearListeners
<1>9. CASE Release
  BY <1>9, SeenStays DEF Release
<1>10. CASE SignalStop
  BY <1>10, SeenStays DEF SignalStop
<1>11. CASE FfiExits
  BY <1>11, SeenStays DEF FfiExits
<1>12. CASE LoopTop
  BY <1>12, SeenGoesOn, LoopTopSets DEF LoopTop
<1>13. CASE Peek
  BY <1>13, SeenInPeek
<1>14. CASE QueueDrained
  BY <1>14, SeenGoesOn DEF QueueDrained, EvGoto
<1>15. CASE Notice
  <2>1. UNCHANGED <<ring, emitted, seen>> /\ ev.event = NoEvent /\ ev.todo = {}
    BY <1>15 DEF Notice
  <2>2. ev'.event = NoEvent /\ ev'.todo = {}
    BY <1>15, <2>1, NoticeSets
  <2> QED
    BY <2>1, <2>2, SeenGoesOn
<1>16. CASE BeginDispatch
  BY <1>16, SeenInBegin
<1>17. CASE CallNext
  BY <1>17, SeenInCall
<1>18. CASE CallbackReturns
  BY <1>18, SeenInReturn
<1>19. CASE EndDispatch
  BY <1>19, SeenGoesOn DEF EndDispatch
<1>20. CASE CommitDequeue
  BY <1>20, SeenInCommit
<1> QED
  BY <1>1, <1>2, <1>3, <1>4, <1>5, <1>6, <1>7, <1>8, <1>9, <1>10, <1>11, <1>12, <1>13,
     <1>14, <1>15, <1>16, <1>17, <1>18, <1>19, <1>20 DEF Next, EventThread

-----------------------------------------------------------------------------
(* The end, and the sticky flag.                                           *)

\* The last drain leaves the ring empty, and only an owner's own drops refuse its
\* requests.
LEMMA EndKept ==
  ASSUME IInv, Next
  PROVE  LastDrain' /\ DrainedAtExit' /\ DroppedOfClaims' /\ StuckIsOwners'
<1> USE OddNumbers
    DEF IInv, LastDrain, DrainedAtExit, DroppedOfClaims, StuckIsOwners, Owned,
        registrations, ring, library, Thread
<1>1. ASSUME NEW l \in Listeners, Add(l)
      PROVE  LastDrain' /\ DrainedAtExit' /\ DroppedOfClaims' /\ StuckIsOwners'
  BY <1>1 DEF Add
<1>2. ASSUME NEW l \in Listeners, Remove(l)
      PROVE  LastDrain' /\ DrainedAtExit' /\ DroppedOfClaims' /\ StuckIsOwners'
  BY <1>2 DEF Remove, Unregister
<1>3. ASSUME NEW l \in Listeners, RemoveReturns(l)
      PROVE  LastDrain' /\ DrainedAtExit' /\ DroppedOfClaims' /\ StuckIsOwners'
  BY <1>3 DEF RemoveReturns
<1>4. ASSUME NEW l \in Listeners, RemoveInDispatch(l) \/ RemoveElsewhere(l)
      PROVE  LastDrain' /\ DrainedAtExit' /\ DroppedOfClaims' /\ StuckIsOwners'
  BY <1>4 DEF RemoveInDispatch, RemoveElsewhere, RemoveAtOnce, Unregister
<1>5. CASE RemoveAll
  BY <1>5 DEF RemoveAll, Unregister
<1>6. CASE Emit
  BY <1>6 DEF Emit
<1>7. CASE Claim
  BY <1>7 DEF Claim
<1>8. CASE ClearListeners
  BY <1>8 DEF ClearListeners
<1>9. CASE Release
  BY <1>9 DEF Release
<1>10. CASE SignalStop
  BY <1>10 DEF SignalStop
<1>11. CASE FfiExits
  BY <1>11 DEF FfiExits
<1>12. CASE LoopTop
  BY <1>12, LoopTopSets DEF LoopTop
<1>13. CASE Peek
  BY <1>13 DEF Peek
<1>14. CASE QueueDrained
  BY <1>14 DEF QueueDrained, EvGoto
<1>15. CASE Notice
  BY <1>15, NoticeSets DEF Notice
<1>16. CASE BeginDispatch
  BY <1>16 DEF BeginDispatch
<1>17. CASE CallNext
  BY <1>17, CallNextSets DEF CallNext
<1>18. CASE CallbackReturns
  BY <1>18 DEF CallbackReturns
<1>19. CASE EndDispatch
  BY <1>19 DEF EndDispatch
<1>20. CASE CommitDequeue
  BY <1>20 DEF CommitDequeue
<1> QED
  BY <1>1, <1>2, <1>3, <1>4, <1>5, <1>6, <1>7, <1>8, <1>9, <1>10, <1>11, <1>12, <1>13,
     <1>14, <1>15, <1>16, <1>17, <1>18, <1>19, <1>20 DEF Next, EventThread

-----------------------------------------------------------------------------
(* The theorems.                                                           *)

\* The initial state.
LEMMA InitInv == Init => IInv
<1> SUFFICES ASSUME Init PROVE IInv
  OBVIOUS
<1>1. NoEvent \in Event
  BY BoundsAssumption DEF NoEvent, Event
<1>2. TypeOK
  <2>1. /\ generation \in 0 .. 2 * MaxClaims /\ emitted \in 0 .. MaxEvents
        /\ head \in 0 .. Capacity - 1 /\ tail \in 0 .. Capacity - 1
        /\ count \in 0 .. Capacity
    BY BoundsAssumption, CapacityAssumption DEF Init
  <2>2. slab \in [0 .. Capacity - 1 -> Event] /\ seen \in [Listeners -> Seq(Event)]
    BY <1>1 DEF Init
  <2>3. listener \in [Listeners -> [state : States, claim : 0 .. 2 * MaxClaims]]
    BY BoundsAssumption DEF Init, States
  <2>4. ev \in [pc : EvPcs, event : Event, slot : 0 .. Capacity - 1,
               todo : SUBSET Entry, last : BOOLEAN]
    BY <1>1, CapacityAssumption DEF Init, Thread, EvPcs
  <2> QED
    BY <2>1, <2>2, <2>3, <2>4 DEF Init, TypeOK
<1>3. Dispatch /\ EntriesDistinct /\ UserDataAlive
  BY DEF Init, Thread, Dispatch, EntriesDistinct, UserDataAlive, Pending
<1>4. RingOrder /\ InFlight
  BY CapacityAssumption DEF Init, Thread, RingOrder, RingPos, InFlight
<1>5. SeenIsPast /\ OnceInOrder
  BY DEF Init, Thread, SeenIsPast, OnceInOrder, SeenBefore, SeenUpTo
<1>6. LastDrain /\ DrainedAtExit /\ DroppedOfClaims /\ StuckIsOwners
  BY DEF Init, Thread, LastDrain, DrainedAtExit, DroppedOfClaims, StuckIsOwners
<1> QED
  BY <1>2, <1>3, <1>4, <1>5, <1>6 DEF IInv

\* A stuttering step.
LEMMA StutterInv ==
  ASSUME IInv, UNCHANGED vars
  PROVE  IInv'
<1>1. TypeOK' /\ Dispatch' /\ EntriesDistinct'
  BY DEF IInv, vars, registrations, ring, library, TypeOK, Dispatch, EntriesDistinct,
         Pending, Owned
<1>2. UserDataAlive'
  BY UpcomingIsFirst DEF IInv, vars, registrations, UserDataAlive
<1>3. RingOrder' /\ InFlight'
  BY RingStays DEF IInv, vars, ring, library, InFlight
<1>4. SeenIsPast' /\ OnceInOrder'
  BY SeenStays DEF IInv, vars, ring, library
<1>5. LastDrain' /\ DrainedAtExit' /\ DroppedOfClaims' /\ StuckIsOwners'
  BY DEF IInv, vars, ring, library, LastDrain, DrainedAtExit, DroppedOfClaims,
         StuckIsOwners
<1> QED
  BY <1>1, <1>2, <1>3, <1>4, <1>5 DEF IInv

\* IInv is an invariant.
THEOREM DeliveryInvariant == Spec => []IInv
<1>1. Init => IInv
  BY InitInv
<1>2. IInv /\ [Next]_vars => IInv'
  <2> SUFFICES ASSUME IInv, [Next]_vars
               PROVE  IInv'
    OBVIOUS
  <2>1. CASE Next
    BY <2>1, TypeKept, RegistryKept, RingKept, SeenKept, EndKept DEF IInv, RegistryInv
  <2>2. CASE UNCHANGED vars
    BY <2>2, StutterInv
  <2> QED
    BY <2>1, <2>2
<1> QED
  BY <1>1, <1>2, PTL DEF Spec

\* The registry, the ring and both threads keep their types: dispatching never goes below
\* zero or above the one delivery, and the ring's count stays within its capacity.
THEOREM DeliveryTypes == Spec => []TypeOK
<1>1. IInv => TypeOK
  BY DEF IInv
<1> QED
  BY <1>1, DeliveryInvariant, PTL

\* Of removes by hosts, by a callback on the event thread and by one of another context:
\* no callback starts for a listener once its remove, or its context's destroy, returned,
\* and none still runs but the one a remove without a wait found in flight.
THEOREM ListenerOutlivesCalls == Spec => []UserDataAlive
<1>1. IInv => UserDataAlive
  BY DEF IInv
<1> QED
  BY <1>1, DeliveryInvariant, PTL

\* The library does not write over the slot of the event in delivery.
THEOREM PayloadStays == Spec => []PayloadPinned
<1>1. IInv => PayloadPinned
  BY DEF IInv, InFlight, PayloadPinned
<1> QED
  BY <1>1, DeliveryInvariant, PTL

\* No listener gets an event twice, or two out of order, over recycles, full rings and
\* removals.
THEOREM DeliveredOnce == Spec => []OnceInOrder
<1>1. IInv => OnceInOrder
  BY DEF IInv
<1> QED
  BY <1>1, DeliveryInvariant, PTL

\* The event thread exits with an empty ring.
THEOREM NothingLeftAtExit == Spec => []DrainedAtExit
<1>1. IInv => DrainedAtExit
  BY DEF IInv
<1> QED
  BY <1>1, DeliveryInvariant, PTL

\* The sticky flag refuses an owner's requests for events of its own claim only.
THEOREM StuckForOwnDrops == Spec => []StuckIsOwners
<1>1. IInv => StuckIsOwners
  BY DEF IInv
<1> QED
  BY <1>1, DeliveryInvariant, PTL
=============================================================================
