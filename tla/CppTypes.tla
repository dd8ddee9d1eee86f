------------------------------ MODULE CppTypes ------------------------------
(***************************************************************************)
(* The types of the generated C++ headers, my_timer.hpp and echo.hpp: the  *)
(* keys that each pair of encode_cbor and decode_cbor writes and looks up, *)
(* in order.  Their memory is the containers' own.                         *)
(***************************************************************************)
EXTENDS CborData

Struct(fields)  == Object(fields, {})
Vector(type)    == Array(type, FALSE)
Optional(type)  == Maybe(type, FALSE)

----------------------------------------------------------------------------
\* my_timer.hpp

TimerConfig == Struct(<< <<"name", Text>> >>)

EchoRequest ==
    Struct(<< <<"message", Text>>, <<"delayMs", Int64>> >>)

EchoResponse ==
    Struct(<< <<"echoed", Text>>, <<"timerName", Text>> >>)

ComplexRequest ==
    Struct(<< <<"messages", Vector(EchoRequest)>>, <<"tags", Vector(Text)>>,
              <<"note", Optional(Text)>>, <<"retries", Optional(Int64)>> >>)

ComplexResponse ==
    Struct(<< <<"summary", Text>>, <<"itemCount", Int64>>,
              <<"hasNote", Bool>> >>)

EchoEvent ==
    Struct(<< <<"message", Text>>, <<"echoCount", Int64>> >>)

OnJobScheduledPayload ==
    Struct(<< <<"jobId", Text>>, <<"willRunCount", Int64>> >>)

JobPriority == Enum({"low", "normal", "high"}, 0)

JobSpec ==
    Struct(<< <<"name", Text>>, <<"payload", Vector(Text)>>,
              <<"priority", JobPriority>> >>)

RetryPolicy ==
    Struct(<< <<"maxAttempts", Int64>>, <<"backoffMs", Int64>>,
              <<"retryOn", Vector(Text)>> >>)

ScheduleConfig ==
    Struct(<< <<"startAtMs", Int64>>, <<"intervalMs", Int64>>,
              <<"jitter", Optional(Int64)>> >>)

ScheduleResult ==
    Struct(<< <<"jobId", Text>>, <<"willRunCount", Int64>>,
              <<"firstRunAtMs", Int64>>, <<"effectiveBackoffMs", Int64>>,
              <<"priority", JobPriority>> >>)

MyTimerCreateCtorReq == Struct(<< <<"config", TimerConfig>> >>)

MyTimerEchoReq == Struct(<< <<"req", EchoRequest>> >>)

MyTimerVersionReq == Struct(<<>>)

MyTimerLibVersionReq == Struct(<<>>)

MyTimerComplexReq == Struct(<< <<"req", ComplexRequest>> >>)

MyTimerScheduleReq ==
    Struct(<< <<"job", JobSpec>>, <<"retry", RetryPolicy>>,
              <<"schedule", ScheduleConfig>> >>)

----------------------------------------------------------------------------
\* echo.hpp

EchoConfig == Struct(<< <<"prefix", Text>> >>)

ShoutRequest == Struct(<< <<"text", Text>> >>)

ShoutResponse ==
    Struct(<< <<"shouted", Text>>, <<"prefix", Text>> >>)

EchoCreateCtorReq == Struct(<< <<"config", EchoConfig>> >>)

EchoShoutReq == Struct(<< <<"req", ShoutRequest>> >>)

EchoVersionReq == Struct(<<>>)

EchoLibVersionReq == Struct(<<>>)

EchoShoutAnonReq == Struct(<< <<"req", ShoutRequest>> >>)

----------------------------------------------------------------------------
RequestTypes ==
    [MyTimerCreateCtorReq |-> MyTimerCreateCtorReq,
     MyTimerEchoReq |-> MyTimerEchoReq,
     MyTimerVersionReq |-> MyTimerVersionReq,
     MyTimerLibVersionReq |-> MyTimerLibVersionReq,
     MyTimerComplexReq |-> MyTimerComplexReq,
     MyTimerScheduleReq |-> MyTimerScheduleReq,
     EchoCreateCtorReq |-> EchoCreateCtorReq,
     EchoShoutReq |-> EchoShoutReq,
     EchoVersionReq |-> EchoVersionReq,
     EchoLibVersionReq |-> EchoLibVersionReq,
     EchoShoutAnonReq |-> EchoShoutAnonReq]

ReplyTypes ==
    [Str |-> Text,
     EchoResponse |-> EchoResponse,
     ComplexResponse |-> ComplexResponse,
     ScheduleResult |-> ScheduleResult,
     ShoutResponse |-> ShoutResponse]

EventTypes ==
    [EchoEvent |-> EchoEvent,
     OnJobScheduledPayload |-> OnJobScheduledPayload]
=============================================================================
