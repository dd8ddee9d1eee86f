------------------------------- MODULE HostSide -------------------------------
(***************************************************************************)
(* A host process over a generated binding, its two halves side by side:   *)
(* HostBindings, which says when a call, a callback or a listener runs,    *)
(* and Codec, which says what one request, reply or event turns into.      *)
(* The codec keeps no state between two values, and what HostBindings asks *)
(* of it is only that it succeeds or fails: the two share the language of  *)
(* the host, and a behaviour is one of either, which its first step        *)
(* chooses.                                                                *)
(***************************************************************************)
EXTENDS HostBindings

CONSTANTS
    MaxNeed     \* the largest request, in first buffers (Codec)

\* Those of Codec, which has the language too.
VARIABLES
    pc, way, type, value, wire, need, cap, heap, cell

codecVars == <<pc, way, type, value, wire, need, cap, heap, cell>>

Data == INSTANCE Codec

SideInit == Init /\ Data!Init

\* The half that moves, while the other one has not begun.
HostMoves == pc = "idle" /\ UNCHANGED codecVars
DataMoves == (\A k \in Every : at[k] = "idle") /\ UNCHANGED vars

SideNext ==
    \/ (CtxCreate \/ EchoCreate \/ CppCreate \/ CppEchoCreate) /\ HostMoves
    \/ \E k \in Calls : ContextCall(k) /\ HostMoves
    \/ \E k \in Statics : StaticCall(k) /\ HostMoves
    \/ \E k \in Every :
        \/ Accept(k) /\ HostMoves
        \/ Refuse(k) /\ HostMoves
        \/ Warn(k) /\ HostMoves
        \/ CallBack(k) /\ HostMoves
        \/ CallbackReturns(k) /\ HostMoves
        \/ Answer(k) /\ HostMoves
        \/ Return(k) /\ HostMoves
        \/ TimeOut(k) /\ HostMoves
    \/ Created /\ HostMoves
    \/ \E l \in Listeners :
        \/ Add(l) /\ HostMoves
        \/ AddRefused(l) /\ HostMoves
        \/ AddEnds(l) /\ HostMoves
        \/ AddFails(l) /\ HostMoves
        \/ Remove(l) /\ HostMoves
        \/ RemoveEnds(l) /\ HostMoves
        \/ RemoveInside(l) /\ HostMoves
        \/ Check(l) /\ HostMoves
    \/ Dispatch /\ HostMoves
    \/ Deliver /\ HostMoves
    \/ ListenerReturns /\ HostMoves
    \/ Destroy /\ HostMoves
    \/ DestroyOk /\ HostMoves
    \/ DestroyErr /\ HostMoves
    \/ DestroyInside /\ HostMoves
    \/ DataMoves /\ Data!Inputs
    \/ DataMoves /\ Data!Fits
    \/ DataMoves /\ Data!Refuse
    \/ DataMoves /\ Data!Grow
    \/ DataMoves /\ Data!Reject
    \/ DataMoves /\ Data!Call
    \/ DataMoves /\ Data!Reclaim

SideSpec ==
    SideInit /\ [][SideNext]_<<vars, codecVars>> /\ Fairness /\ Data!Fairness

-----------------------------------------------------------------------------
(* What Codec promises of the values that cross the binding.               *)

\* The library decodes every request that is sent to the value the host passed.
RequestMeansValue == Data!RequestMeansValue

\* A binding accepts exactly the replies and events that the library's types
\* describe, unless malloc fails, and the callback reads the value they carry.
AcceptsExactly == Data!AcceptsExactly

\* Every block that encoding or decoding took is freed, and freed once, but those of an
\* event that does not decode.
ReclaimedOnce == Data!ReclaimedOnce

\* The encoding loop ends: every request is sent or refused.
EncodingEnds == Data!EncodingEnds
=============================================================================
