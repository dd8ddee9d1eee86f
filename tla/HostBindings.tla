----------------------------- MODULE HostBindings -----------------------------
(***************************************************************************)
(* A host program over the generated C or C++ binding: one context, its    *)
(* calls and its event listeners, from the create to the destroy.          *)
(*                                                                         *)
(* What the library is given as user data belongs to the binding.  In C a  *)
(* call gives it a box with the host's callback, freed by the trampoline;  *)
(* in C++ a handle on the state the caller blocks on, freed by ffi_cb_.    *)
(* A listener's box is in a table of the wrapper, MyTimerCtx.              *)
(*                                                                         *)
(* The library does what the modules of its own promise: it answers an     *)
(* accepted call at most once, a destroy that returns RET_OK has answered  *)
(* all of them and cleared the listeners, one that returns RET_ERR has     *)
(* not, and a remove waits for the deliveries in flight.                   *)
(*                                                                         *)
(* Assumed of the host: nothing uses a wrapper while it is destroyed, no   *)
(* two threads use its table at once, a C++ listener does not remove       *)
(* itself while it runs, and no listener is removed from a callback of     *)
(* another context, where the library does not wait (EventDelivery).       *)
(***************************************************************************)
EXTENDS Integers, FiniteSets

CONSTANTS
    Languages,  \* "c", "cpp": the bindings to look at
    Calls,      \* calls the host makes on the context
    Statics,    \* calls it makes without one
    Silent,     \* the calls of a C host that pass a NULL callback
    Listeners   \* event listeners it adds, each once

Create == "create"
None   == "none"
Every  == Calls \union Statics \union {Create}

ASSUME LanguagesAssumption == Languages \subseteq {"c", "cpp"}
ASSUME CallsAssumption ==
    /\ Calls \intersect Statics = {}
    /\ Create \notin Calls \union Statics
    /\ Silent \subseteq Calls \union Statics
ASSUME ListenersAssumption == None \notin Listeners

VARIABLES
    lang,
    context,    \* the library's: none, claimed, built, failed, ended, unsafe
    wrapper,    \* none, live, closing, freed
    rc,         \* what the destroy returned: none, ok, err
    at,         \* per call, the host: idle, inside, waiting, over
    lib,        \* per call, the library: none, pending, warned, calling, answered
    box,        \* per call, its user data: none, live, freed, twice
    told,       \* history: per call, the results the host got
    lbox,       \* per listener, its user data
    listed,     \* the wrapper's table of listeners
    registered, \* the library's registry of them
    table,      \* what a host thread is doing to the table: <<step, listener>>
    todo,       \* the snapshot of the delivery in flight, less those called
    running     \* the listener in hand: none, checked, running

calls == <<at, lib, box, told>>
listening == <<lbox, listed, registered, table>>
delivery == <<todo, running>>
life == <<context, wrapper, rc>>
vars == <<lang, life, calls, listening, delivery>>

Rest == <<"none", None>>
Free(data) == IF data = "live" THEN "freed" ELSE "twice"

Init ==
    /\ lang \in Languages
    /\ context = "none" /\ wrapper = "none" /\ rc = "none"
    /\ at = [k \in Every |-> "idle"]
    /\ lib = [k \in Every |-> "none"]
    /\ box = [k \in Every |-> "none"]
    /\ told = [k \in Every |-> 0]
    /\ lbox = [l \in Listeners |-> "none"]
    /\ listed = {} /\ registered = {}
    /\ table = Rest
    /\ todo = {} /\ running = Rest

-----------------------------------------------------------------------------
(* A call enters the library.                                              *)

Heard(k) == ~(lang = "c" /\ k \in Silent)
Tell(k) == told' = [told EXCEPT ![k] = IF Heard(k) THEN @ + 1 ELSE @]
Goes(k, here) == at' = [at EXCEPT ![k] = here]

\* The encoding or an allocation fails, or the export gets the user data.
Ask(k) ==
    /\ at[k] = "idle"
    /\ \/ Goes(k, "over") /\ Tell(k) /\ UNCHANGED box
       \/ Goes(k, "inside") /\ box' = [box EXCEPT ![k] = "live"] /\ UNCHANGED told
    /\ UNCHANGED <<lang, life, lib, listening, delivery>>

OnContext(k) == k \in Calls /\ wrapper = "live" /\ Ask(k)
OnLibrary(k) == k \in Statics /\ Ask(k)

InC == lang = "c"
CtxCreate  == InC /\ Ask(Create)
Echo(k)    == InC /\ OnContext(k)
Version(k) == InC /\ OnContext(k)
Complex(k) == InC /\ OnContext(k)
Schedule(k) == InC /\ OnContext(k)
Shout(k)   == InC /\ OnContext(k)
EchoVersion(k) == InC /\ OnContext(k)
LibVersion(k)  == InC /\ OnLibrary(k)
EchoLibVersion(k) == InC /\ OnLibrary(k)
ShoutAnon(k) == InC /\ OnLibrary(k)
EchoCreate == InC /\ Ask(Create)

InCpp == lang = "cpp"
CppCreate     == InCpp /\ Ask(Create)
CppEcho(k)    == InCpp /\ OnContext(k)
CppVersion(k) == InCpp /\ OnContext(k)
CppComplex(k) == InCpp /\ OnContext(k)
CppSchedule(k) == InCpp /\ OnContext(k)
CppShout(k)   == InCpp /\ OnContext(k)
CppEchoVersion(k) == InCpp /\ OnContext(k)
CppLibVersion(k)  == InCpp /\ OnLibrary(k)
CppEchoLibVersion(k) == InCpp /\ OnLibrary(k)
CppShoutAnon(k) == InCpp /\ OnLibrary(k)
CppEchoCreate == InCpp /\ Ask(Create)

\* Where the method goes when the export has returned.
AfterExport == IF InCpp THEN "waiting" ELSE "over"

Accept(k) ==
    /\ at[k] = "inside"
    /\ Goes(k, AfterExport)
    /\ lib' = [lib EXCEPT ![k] = "pending"]
    /\ context' = IF k = Create THEN "claimed" ELSE context
    /\ UNCHANGED <<lang, wrapper, rc, box, told, listening, delivery>>

\* The callback runs inside the export, which then returns RET_ERR or, for a
\* create, NULL.  RET_MISSING_CALLBACK is not one of its answers: both bindings
\* pass a function of their own.
Refuse(k) ==
    /\ at[k] = "inside"
    /\ Goes(k, AfterExport)
    /\ lib' = [lib EXCEPT ![k] = "answered"]
    /\ box' = [box EXCEPT ![k] = Free(@)]
    /\ IF InC THEN Tell(k) ELSE UNCHANGED told
    /\ UNCHANGED <<lang, life, listening, delivery>>

-----------------------------------------------------------------------------
(* The library calls back, on the context's FFI thread: one at a time.     *)

Open(k) == lib[k] \in {"pending", "warned"}
FFIThreadFree(k) ==
    k \in Statics \/ \A j \in Calls \union {Create} : lib[j] # "calling"

\* MUTANT: the trampoline takes the warning for the result.
WarnIsAnswer(k) ==
    /\ lib[k] = "pending"
    /\ FFIThreadFree(k)
    /\ lib' = [lib EXCEPT ![k] = "warned"]
    /\ Tell(k)
    /\ box' = [box EXCEPT ![k] = Free(@)]
    /\ UNCHANGED <<lang, life, at, listening, delivery>>

\* NIMFFI_RET_STALE_WARN: the trampoline returns at once.
Warn(k) ==
    /\ lib[k] = "pending"
    /\ FFIThreadFree(k)
    /\ lib' = [lib EXCEPT ![k] = "warned"]
    /\ UNCHANGED <<lang, life, at, box, told, listening, delivery>>

\* The trampoline in C decodes the reply and runs the host's callback, with
\* the reply or with an error.  Without a callback it only frees the box.
CallBack(k) ==
    /\ InC /\ k # Create
    /\ Open(k) /\ FFIThreadFree(k)
    /\ Tell(k)
    /\ lib' = [lib EXCEPT ![k] = IF Heard(k) THEN "calling" ELSE "answered"]
    /\ box' = [box EXCEPT ![k] = IF Heard(k) THEN @ ELSE Free(@)]
    /\ UNCHANGED <<lang, life, at, listening, delivery>>

\* The constructor failed, its reply is no address, there is no memory for the
\* wrapper, or the host gets a wrapper.
Created ==
    /\ InC /\ Open(Create)
    /\ Tell(Create)
    /\ lib' = [lib EXCEPT ![Create] = "calling"]
    /\ \/ context' = "failed" /\ UNCHANGED wrapper
       \/ context' = "built" /\ UNCHANGED wrapper
       \/ context' = "built" /\ wrapper' = "live"
    /\ UNCHANGED <<lang, rc, at, box, listening, delivery>>

CallbackReturns(k) ==
    /\ lib[k] = "calling"
    /\ lib' = [lib EXCEPT ![k] = "answered"]
    /\ box' = [box EXCEPT ![k] = Free(@)]
    /\ UNCHANGED <<lang, life, at, told, listening, delivery>>

\* ffi_cb_: stores the result, wakes the caller and frees the handle.
Answer(k) ==
    /\ InCpp
    /\ Open(k)
    /\ lib' = [lib EXCEPT ![k] = "answered"]
    /\ box' = [box EXCEPT ![k] = Free(@)]
    /\ \/ k # Create /\ UNCHANGED context
       \/ k = Create /\ context' \in {"built", "failed"}
    /\ UNCHANGED <<lang, wrapper, rc, at, told, listening, delivery>>

\* ffi_call_ after its wait.  A create whose reply is an address makes the wrapper;
\* any other reply is one more error, and the context stays.
Return(k) ==
    /\ at[k] = "waiting"
    /\ lib[k] = "answered"
    /\ Goes(k, "over") /\ Tell(k)
    /\ \/ k = Create /\ context = "built" /\ wrapper' = "live"
       \/ UNCHANGED wrapper
    /\ UNCHANGED <<lang, context, rc, lib, box, listening, delivery>>

\* MUTANT: the wait has no limit.
NoTimeOut(k) == FALSE /\ UNCHANGED vars

TimeOut(k) ==
    /\ at[k] = "waiting"
    /\ lib[k] # "answered"
    /\ Goes(k, "over") /\ Tell(k)
    /\ UNCHANGED <<lang, life, lib, box, listening, delivery>>

-----------------------------------------------------------------------------
(* Listeners: the library's registry and the wrapper's table.              *)

Idle == table = Rest /\ wrapper = "live"
Dispatching == todo # {} \/ running # Rest

Add(l) ==
    /\ Idle
    /\ lbox[l] = "none"
    /\ lbox' = [lbox EXCEPT ![l] = "live"]
    /\ registered' = registered \union {l}
    /\ table' = <<"adding", l>>
    /\ UNCHANGED <<lang, life, calls, listed, delivery>>

\* The library registers nothing and returns 0: the box goes at once.
AddRefused(l) ==
    /\ Idle
    /\ lbox[l] = "none"
    /\ lbox' = [lbox EXCEPT ![l] = Free("live")]
    /\ UNCHANGED <<lang, life, calls, listed, registered, table, delivery>>

AddEnds(l) ==
    /\ table = <<"adding", l>>
    /\ listed' = listed \union {l}
    /\ table' = Rest
    /\ UNCHANGED <<lang, life, calls, lbox, registered, delivery>>

\* The table cannot grow: the listener is removed again.
AddFails(l) ==
    /\ InC
    /\ table = <<"adding", l>>
    /\ registered' = registered \ {l}
    /\ table' = <<"removing", l>>
    /\ UNCHANGED <<lang, life, calls, lbox, listed, delivery>>

Remove(l) ==
    /\ Idle
    /\ l \in listed
    /\ registered' = registered \ {l}
    /\ table' = <<"removing", l>>
    /\ UNCHANGED <<lang, life, calls, lbox, listed, delivery>>

\* The library's remove has waited; the binding then frees the box.
RemoveEnds(l) ==
    /\ table = <<"removing", l>>
    /\ ~Dispatching
    /\ lbox' = [lbox EXCEPT ![l] = Free(@)]
    /\ listed' = listed \ {l}
    /\ table' = Rest
    /\ UNCHANGED <<lang, life, calls, registered, delivery>>

\* From inside a listener nothing waits: of itself, in C, or of another one.
RemoveInside(l) ==
    /\ Idle
    /\ l \in listed
    /\ running[1] = "running"
    /\ InCpp => running[2] # l
    /\ registered' = registered \ {l}
    /\ lbox' = [lbox EXCEPT ![l] = Free(@)]
    /\ listed' = listed \ {l}
    /\ UNCHANGED <<lang, life, calls, table, delivery>>

-----------------------------------------------------------------------------
(* The event thread.                                                       *)

Dispatch ==
    /\ context \in {"built", "unsafe"}
    /\ ~Dispatching
    /\ registered # {}
    /\ todo' = registered
    /\ UNCHANGED <<lang, life, calls, listening, running>>

\* The listener is still registered, or it is skipped.
Check(l) ==
    /\ l \in todo
    /\ running = Rest
    /\ todo' = todo \ {l}
    /\ running' = IF l \in registered THEN <<"checked", l>> ELSE Rest
    /\ UNCHANGED <<lang, life, calls, listening>>

\* The trampoline reads the box and runs the handler.
Deliver ==
    /\ running[1] = "checked"
    /\ running' = <<"running", running[2]>>
    /\ UNCHANGED <<lang, life, calls, listening, todo>>

ListenerReturns ==
    /\ running[1] = "running"
    /\ running' = Rest
    /\ UNCHANGED <<lang, life, calls, listening, todo>>

-----------------------------------------------------------------------------
(* The destroy.                                                            *)

NobodyInside == \A k \in Calls : at[k] \notin {"inside", "waiting"}
FreeListed ==
    lbox' = [l \in Listeners |-> IF l \in listed THEN Free(lbox[l]) ELSE lbox[l]]

Destroy ==
    /\ Idle
    /\ NobodyInside
    /\ wrapper' = "closing"
    /\ UNCHANGED <<lang, context, rc, calls, listening, delivery>>

\* MUTANT: the boxes of the listeners are forgotten.
DestroyForgets ==
    /\ wrapper = "closing"
    /\ \A k \in Calls \union {Create} : ~Open(k) /\ lib[k] # "calling"
    /\ ~Dispatching
    /\ context' = "ended" /\ wrapper' = "freed" /\ rc' = "ok"
    /\ registered' = {} /\ listed' = {}
    /\ UNCHANGED <<lang, calls, lbox, table, delivery>>

DestroyOk ==
    /\ wrapper = "closing"
    /\ \A k \in Calls \union {Create} : ~Open(k) /\ lib[k] # "calling"
    /\ ~Dispatching
    /\ context' = "ended" /\ wrapper' = "freed" /\ rc' = "ok"
    /\ registered' = {} /\ listed' = {}
    /\ FreeListed
    /\ UNCHANGED <<lang, calls, table, delivery>>

\* MUTANT: the C destroy does not look at the return code.
AfterAnyError ==
    /\ wrapper' = "freed" /\ rc' = "err"
    /\ listed' = {}
    /\ FreeListed
    /\ UNCHANGED <<lang, calls, registered, table, delivery>>

\* What the binding does with RET_ERR: C frees its table but not the boxes,
\* the destructor of C++ frees both.
AfterError ==
    /\ wrapper' = "freed" /\ rc' = "err"
    /\ listed' = {}
    /\ IF InC THEN UNCHANGED lbox ELSE FreeListed
    /\ UNCHANGED <<lang, calls, registered, table, delivery>>

\* The slot is quarantined.
DestroyErr ==
    /\ wrapper = "closing"
    /\ context' = "unsafe"
    /\ AfterError

\* From a callback of the context itself: RET_ERR at once, the context is live.
DestroyInside ==
    /\ Idle
    /\ NobodyInside
    /\ running[1] = "running" \/ \E k \in Calls \union {Create} : lib[k] = "calling"
    /\ AfterError
    /\ UNCHANGED context

-----------------------------------------------------------------------------

ContextCall(k) ==
    \/ Echo(k) \/ Version(k) \/ Complex(k) \/ Schedule(k)
    \/ Shout(k) \/ EchoVersion(k)
    \/ CppEcho(k) \/ CppVersion(k) \/ CppComplex(k) \/ CppSchedule(k)
    \/ CppShout(k) \/ CppEchoVersion(k)

StaticCall(k) ==
    \/ LibVersion(k) \/ EchoLibVersion(k) \/ ShoutAnon(k)
    \/ CppLibVersion(k) \/ CppEchoLibVersion(k) \/ CppShoutAnon(k)

Next ==
    \/ CtxCreate \/ EchoCreate \/ CppCreate \/ CppEchoCreate
    \/ \E k \in Calls : ContextCall(k)
    \/ \E k \in Statics : StaticCall(k)
    \/ \E k \in Every :
        \/ Accept(k) \/ Refuse(k)
        \/ Warn(k) \/ CallBack(k) \/ CallbackReturns(k) \/ Answer(k)
        \/ Return(k) \/ TimeOut(k)
    \/ Created
    \/ \E l \in Listeners :
        \/ Add(l) \/ AddRefused(l) \/ AddEnds(l) \/ AddFails(l)
        \/ Remove(l) \/ RemoveEnds(l) \/ RemoveInside(l)
        \/ Check(l)
    \/ Dispatch \/ Deliver \/ ListenerReturns
    \/ Destroy \/ DestroyOk \/ DestroyErr \/ DestroyInside

\* An export returns, and a wait of C++ has a timeout.  Nothing is assumed of
\* the library's answers.
Fairness ==
    \A k \in Every : WF_vars(Accept(k) \/ Refuse(k) \/ Return(k) \/ TimeOut(k))

Spec == Init /\ [][Next]_vars /\ Fairness

-----------------------------------------------------------------------------
(* Properties                                                              *)

\* A host hears of each of its calls at most once, however the encoding, the
\* export, the warning, the answer and the timeout fall together, and exactly
\* once when its call is over and the library owes no answer: a non-zero return
\* code never comes without, or in addition to, a callback.
ToldOnce ==
    \A k \in Every :
        /\ told[k] <= 1
        /\ (at[k] = "over" /\ Heard(k) /\ (InCpp \/ ~Open(k))) => told[k] = 1

\* Memory the library may still pass to a callback has not been freed, and none
\* is freed twice.  Left out are the listeners of a C++ wrapper whose destroy
\* returned RET_ERR: its destructor frees them whatever the library said.
Reachable(l) ==
    \/ l \in registered
    \/ running[1] = "checked" /\ running[2] = l
    \/ InCpp /\ running[1] = "running" /\ running[2] = l

UserDataLives ==
    /\ \A k \in Every :
        /\ Open(k) \/ lib[k] = "calling" => box[k] = "live"
        /\ box[k] # "twice"
    /\ \A l \in Listeners :
        /\ Reachable(l) /\ ~(InCpp /\ rc = "err") => lbox[l] = "live"
        /\ lbox[l] # "twice"

\* User data nothing can reach any more has been freed: that of an answered
\* call, of a listener that was removed or could not be listed, and all of it
\* once a destroy has returned RET_OK.
UserDataReclaimed ==
    /\ \A k \in Every : lib[k] = "answered" => box[k] = "freed"
    /\ \A l \in Listeners :
        (\/ rc = "ok"
         \/ rc = "none" /\ table = Rest /\ l \notin listed) => lbox[l] # "live"

\* A method of either binding returns, whatever the library does with the call.
CallReturns == \A k \in Every : at[k] \in {"inside", "waiting"} ~> at[k] = "over"
=============================================================================
