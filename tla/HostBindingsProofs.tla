-------------------------- MODULE HostBindingsProofs --------------------------
(***************************************************************************)
(* Proofs, for every set of calls and listeners and for both languages,    *)
(* that the generated bindings tell the host of each call once and neither *)
(* free too early nor forget the user data they gave to the library.       *)
(*                                                                         *)
(* IInv relates the three parties of a call: where the host is bounds how  *)
(* far the library can be, and both say whether the user data is live and  *)
(* the host was told (CallStages).  A listener's user data is live while   *)
(* the wrapper's table lists it, or a host thread is putting it there or   *)
(* taking it away (TableOwns); the event thread may hold on to one that    *)
(* left the table, but not to one that was freed (ListenersLive).  That a  *)
(* wrapper is made once (OneWrapper) keeps the table of one context from   *)
(* being used after its destroy.                                           *)
(***************************************************************************)
EXTENDS HostBindings, TLAPS

\* The types of the module's variables.
Hosted == {"idle", "inside", "waiting", "over"}
LibStages == {"none", "pending", "warned", "calling", "answered"}
Boxes == {"none", "live", "freed", "twice"}

TypesInv ==
    /\ lang \in {"c", "cpp"}
    /\ at \in [Every -> Hosted]
    /\ lib \in [Every -> LibStages]
    /\ box \in [Every -> Boxes]
    /\ told \in [Every -> Nat]
    /\ lbox \in [Listeners -> Boxes]
    /\ listed \subseteq Listeners /\ registered \subseteq Listeners
    /\ todo \subseteq Listeners
    /\ table \in {"none", "adding", "removing"} \X (Listeners \union {None})
    /\ running \in {"none", "checked", "running"} \X (Listeners \union {None})
    /\ wrapper \in {"none", "live", "closing", "freed"}
    /\ rc \in {"none", "ok", "err"}

\* How far the host is says how far the library can be, who holds the user data and
\* what the host was told.
Once(k) == IF Heard(k) THEN 1 ELSE 0
CallStages ==
    \A k \in Every :
        /\ at[k] = "idle" => lib[k] = "none" /\ box[k] = "none" /\ told[k] = 0
        /\ at[k] = "inside" => lib[k] = "none" /\ box[k] = "live" /\ told[k] = 0
        /\ at[k] = "waiting" => InCpp /\ lib[k] # "none" /\ told[k] = 0
        /\ at[k] = "over" /\ lib[k] = "none" => box[k] = "none" /\ told[k] = Once(k)
        /\ at[k] = "over" /\ InCpp => told[k] = Once(k)
        /\ InC /\ Open(k) => told[k] = 0
        /\ InC /\ lib[k] \in {"calling", "answered"} => told[k] = Once(k)
        /\ Open(k) \/ lib[k] = "calling" => box[k] = "live"
        /\ lib[k] = "answered" => box[k] = "freed"
        /\ lib[k] = "calling" => InC

\* There is one wrapper: its creation was answered, and its end has a return code.
OneWrapper ==
    /\ wrapper = "freed" <=> rc # "none"
    /\ table # Rest => wrapper = "live"
    /\ wrapper # "none" =>
        IF InC THEN lib[Create] \in {"calling", "answered"} ELSE at[Create] = "over"

\* What the table lists is live, and what a host thread is adding or removing is not yet
\* listed, or not registered any more.
TableOwns ==
    /\ \A l \in listed : lbox[l] = "live"
    /\ \A l \in Listeners :
        /\ table = <<"adding", l>> => lbox[l] = "live" /\ l \notin listed
        /\ table = <<"removing", l>> => lbox[l] = "live" /\ l \notin registered
        /\ lbox[l] = "live" /\ rc = "none" =>
             l \in listed \/ table \in {<<"adding", l>>, <<"removing", l>>}
        /\ rc = "ok" => lbox[l] # "live"

\* The listeners' half of UserDataLives.
ListenersLive ==
    \A l \in Listeners :
        /\ Reachable(l) /\ ~(InCpp /\ rc = "err") => lbox[l] = "live"
        /\ lbox[l] # "twice"

\* The inductive invariant.
IInv == TypesInv /\ CallStages /\ OneWrapper /\ TableOwns /\ ListenersLive

-----------------------------------------------------------------------------
(* What the actions come down to.                                          *)

\* Every method of either binding enters the library by Ask.
LEMMA CallsAsk ==
    ASSUME \/ CtxCreate \/ EchoCreate \/ CppCreate \/ CppEchoCreate
           \/ \E k \in Calls : ContextCall(k)
           \/ \E k \in Statics : StaticCall(k)
    PROVE  \E k \in Every : Ask(k)
    BY DEF CtxCreate, EchoCreate, CppCreate, CppEchoCreate, ContextCall, StaticCall,
           Echo, Version, Complex, Schedule, Shout, EchoVersion, CppEcho, CppVersion,
           CppComplex, CppSchedule, CppShout, CppEchoVersion, LibVersion, EchoLibVersion,
           ShoutAnon, CppLibVersion, CppEchoLibVersion, CppShoutAnon, OnContext,
           OnLibrary, Every

\* The three kinds of step.
CallStep ==
    \/ \E k \in Every :
        \/ Ask(k) \/ Accept(k) \/ Refuse(k)
        \/ Warn(k) \/ CallBack(k) \/ CallbackReturns(k) \/ Answer(k)
        \/ Return(k) \/ TimeOut(k)
    \/ Created
ListenerStep ==
    \/ \E l \in Listeners :
        \/ Add(l) \/ AddRefused(l) \/ AddEnds(l) \/ AddFails(l)
        \/ Remove(l) \/ RemoveEnds(l) \/ RemoveInside(l)
        \/ Check(l)
    \/ Dispatch \/ Deliver \/ ListenerReturns
DestroyStep == Destroy \/ DestroyOk \/ DestroyErr \/ DestroyInside

\* Every step is of one of them.
LEMMA Steps == Next => CallStep \/ ListenerStep \/ DestroyStep
    BY CallsAsk DEF Next, CallStep, ListenerStep, DestroyStep

-----------------------------------------------------------------------------
(* A call: the host's side, the library's and the user data.               *)

\* A step of a call keeps the call's part ...
LEMMA CallStepKeepsCalls ==
    ASSUME TypesInv, CallStages, OneWrapper, CallStep
    PROVE  TypesInv' /\ CallStages' /\ OneWrapper'
<1> USE CallsAssumption
    DEF TypesInv, CallStages, OneWrapper, life, calls, listening, delivery,
        Open, Heard, Once, InC, InCpp, Tell, Goes, Free, Hosted, LibStages, Boxes
<1>0. Create \in Every /\ Create \notin Silent
    BY DEF Every
<1>1. ASSUME NEW k \in Every, Ask(k)
      PROVE  TypesInv' /\ CallStages' /\ OneWrapper'
    BY <1>0, <1>1 DEF Ask
<1>2. ASSUME NEW k \in Every, Accept(k)
      PROVE  TypesInv' /\ CallStages' /\ OneWrapper'
    BY <1>0, <1>2 DEF Accept, AfterExport
<1>3. ASSUME NEW k \in Every, Refuse(k)
      PROVE  TypesInv' /\ CallStages' /\ OneWrapper'
    BY <1>0, <1>3 DEF Refuse, AfterExport
<1>4. ASSUME NEW k \in Every, Warn(k)
      PROVE  TypesInv' /\ CallStages' /\ OneWrapper'
    BY <1>0, <1>4 DEF Warn
<1>5. ASSUME NEW k \in Every, CallBack(k)
      PROVE  TypesInv' /\ CallStages' /\ OneWrapper'
    BY <1>0, <1>5 DEF CallBack
<1>6. ASSUME NEW k \in Every, CallbackReturns(k)
      PROVE  TypesInv' /\ CallStages' /\ OneWrapper'
    BY <1>0, <1>6 DEF CallbackReturns
<1>7. ASSUME NEW k \in Every, Answer(k)
      PROVE  TypesInv' /\ CallStages' /\ OneWrapper'
    BY <1>0, <1>7 DEF Answer
<1>8. ASSUME NEW k \in Every, Return(k)
      PROVE  TypesInv' /\ CallStages' /\ OneWrapper'
    BY <1>0, <1>8 DEF Return
<1>9. ASSUME NEW k \in Every, TimeOut(k)
      PROVE  TypesInv' /\ CallStages' /\ OneWrapper'
    BY <1>0, <1>9 DEF TimeOut
<1>10. CASE Created
    BY <1>0, <1>10 DEF Created
<1> QED
    BY <1>1, <1>2, <1>3, <1>4, <1>5, <1>6, <1>7, <1>8, <1>9, <1>10 DEF CallStep

\* ... and leaves the listeners alone.
LEMMA CallStepKeepsListeners ==
    ASSUME TypesInv, CallStages, OneWrapper, TableOwns, ListenersLive, CallStep
    PROVE  TableOwns' /\ ListenersLive'
<1>1. UNCHANGED <<lang, rc, listening, delivery>>
    BY DEF CallStep, Ask, Accept, Refuse, Warn, CallBack, CallbackReturns, Answer, Return,
           TimeOut, Created, life
<1> QED
    BY <1>1 DEF TableOwns, ListenersLive, Reachable, InC, InCpp, listening, delivery

-----------------------------------------------------------------------------
(* The listeners.                                                          *)

\* A step of a host at its table, or of the event thread, keeps the invariant.
LEMMA ListenerStepKeeps ==
    ASSUME IInv, ListenerStep
    PROVE  IInv'
<1>1. UNCHANGED <<lang, life, calls>>
    BY DEF ListenerStep, Add, AddRefused, AddEnds, AddFails, Remove, RemoveEnds,
           RemoveInside, Check, Dispatch, Deliver, ListenerReturns, listening
<1>2. CallStages'
    BY <1>1 DEF IInv, CallStages, calls, Open, Heard, Once, InC, InCpp
<1>3. TypesInv' /\ OneWrapper' /\ TableOwns' /\ ListenersLive'
    <2> USE ListenersAssumption
        DEF IInv, TypesInv, OneWrapper, TableOwns, ListenersLive, Reachable, InC, InCpp,
            life, calls, listening, delivery, Rest, Idle, Dispatching, Free, Boxes
    <2>1. ASSUME NEW l \in Listeners, Add(l)
          PROVE  TypesInv' /\ OneWrapper' /\ TableOwns' /\ ListenersLive'
        BY <2>1 DEF Add
    <2>2. ASSUME NEW l \in Listeners, AddEnds(l)
          PROVE  TypesInv' /\ OneWrapper' /\ TableOwns' /\ ListenersLive'
        BY <2>2 DEF AddEnds
    <2>3. ASSUME NEW l \in Listeners, AddFails(l)
          PROVE  TypesInv' /\ OneWrapper' /\ TableOwns' /\ ListenersLive'
        BY <2>3 DEF AddFails
    <2>4. ASSUME NEW l \in Listeners, Remove(l)
          PROVE  TypesInv' /\ OneWrapper' /\ TableOwns' /\ ListenersLive'
        BY <2>4 DEF Remove
    <2>5. ASSUME NEW l \in Listeners, RemoveEnds(l)
          PROVE  TypesInv' /\ OneWrapper' /\ TableOwns' /\ ListenersLive'
        BY <2>5 DEF RemoveEnds
    <2>6. ASSUME NEW l \in Listeners, RemoveInside(l)
          PROVE  TypesInv' /\ OneWrapper' /\ TableOwns' /\ ListenersLive'
        BY <2>6 DEF RemoveInside
    <2>7. ASSUME NEW l \in Listeners, Check(l)
          PROVE  TypesInv' /\ OneWrapper' /\ TableOwns' /\ ListenersLive'
        BY <2>7 DEF Check
    <2>8. CASE Dispatch
        BY <2>8 DEF Dispatch
    <2>9. CASE Deliver
        BY <2>9 DEF Deliver
    <2>10. CASE ListenerReturns
        BY <2>10 DEF ListenerReturns
    <2>11. ASSUME NEW l \in Listeners, AddRefused(l)
           PROVE  TypesInv' /\ OneWrapper' /\ TableOwns' /\ ListenersLive'
        BY <2>11 DEF AddRefused
    <2> QED
        BY <2>1, <2>2, <2>3, <2>4, <2>5, <2>6, <2>7, <2>8, <2>9, <2>10, <2>11
        DEF ListenerStep
<1> QED
    BY <1>2, <1>3 DEF IInv

-----------------------------------------------------------------------------
(* The destroy.                                                            *)

\* So does a step of the destroy, whatever the library returned.
LEMMA DestroyStepKeeps ==
    ASSUME IInv, DestroyStep
    PROVE  IInv'
<1>1. UNCHANGED <<lang, calls, table, delivery>>
    BY DEF DestroyStep, Destroy, DestroyOk, DestroyErr, DestroyInside, AfterError, listening
<1>2. CallStages'
    BY <1>1 DEF IInv, CallStages, calls, Open, Heard, Once, InC, InCpp
<1> USE <1>1 DEF IInv, TypesInv, OneWrapper, TableOwns, ListenersLive, Reachable, InC, InCpp,
            calls, listening, delivery, Rest, Idle, Dispatching, Free, FreeListed, Boxes
<1>3. CASE Destroy
    BY <1>2, <1>3 DEF Destroy
<1>4. CASE DestroyOk
    BY <1>2, <1>4 DEF DestroyOk
<1>5. CASE DestroyErr
    BY <1>2, <1>5 DEF DestroyErr, AfterError
<1>6. CASE DestroyInside
    BY <1>2, <1>6 DEF DestroyInside, AfterError
<1> QED
    BY <1>3, <1>4, <1>5, <1>6 DEF DestroyStep

-----------------------------------------------------------------------------
(* The theorems.                                                           *)

\* The initial state.
LEMMA InitInv ==
    ASSUME Init
    PROVE  IInv
<1>1. TypesInv
    <2>1. lang \in {"c", "cpp"}
        BY LanguagesAssumption DEF Init
    <2> QED
        BY <2>1 DEF Init, TypesInv, Rest, Hosted, LibStages, Boxes
<1>2. CallStages /\ OneWrapper
    BY DEF Init, CallStages, OneWrapper, Open, InC, InCpp, Rest
<1>3. TableOwns /\ ListenersLive
    BY DEF Init, TableOwns, ListenersLive, Reachable, Rest
<1> QED
    BY <1>1, <1>2, <1>3 DEF IInv

\* IInv is an invariant.
THEOREM BindingInvariant == Spec => []IInv
<1>1. Init => IInv
    BY InitInv
<1>2. IInv /\ [Next]_vars => IInv'
    <2> SUFFICES ASSUME IInv, [Next]_vars
                 PROVE  IInv'
        OBVIOUS
    <2>1. CASE CallStep
        BY <2>1, CallStepKeepsCalls, CallStepKeepsListeners DEF IInv
    <2>2. CASE ListenerStep
        BY <2>2, ListenerStepKeeps
    <2>3. CASE DestroyStep
        BY <2>3, DestroyStepKeeps
    <2>4. CASE UNCHANGED vars
        BY <2>4
        DEF vars, IInv, TypesInv, CallStages, OneWrapper, TableOwns, ListenersLive,
            Reachable, life, calls, listening, delivery, Open, Heard, Once, InC, InCpp
    <2> QED
        BY <2>1, <2>2, <2>3, <2>4, Steps
<1> QED
    BY <1>1, <1>2, PTL DEF Spec

\* The host hears of each call at most once, and exactly once when it is over and nothing
\* is owed.
THEOREM HostToldOnce == Spec => []ToldOnce
<1>1. IInv => ToldOnce
    BY DEF IInv, TypesInv, CallStages, ToldOnce, Heard, Once, InC, InCpp, Open, Hosted,
           LibStages
<1> QED
    BY <1>1, BindingInvariant, PTL

\* Memory the library may still pass to a callback is live, and none is freed twice.
THEOREM NoUseAfterFree == Spec => []UserDataLives
<1>1. IInv => UserDataLives
    BY DEF IInv, TypesInv, CallStages, ListenersLive, UserDataLives, Reachable, Open, InC,
           InCpp, Hosted, LibStages
<1> QED
    BY <1>1, BindingInvariant, PTL

\* User data nothing reaches any more was freed: after an answer, a remove, and all of it
\* after a destroy that returned RET_OK.
THEOREM NothingForgotten == Spec => []UserDataReclaimed
<1>1. IInv => UserDataReclaimed
    BY DEF IInv, CallStages, TableOwns, UserDataReclaimed, Rest
<1> QED
    BY <1>1, BindingInvariant, PTL
=============================================================================
