------------------------------ MODULE NimTypes ------------------------------
(***************************************************************************)
(* The types the libraries declare in timer.nim and echo.nim, with the     *)
(* envelopes nim-ffi makes of a proc's parameters and of an event's: what  *)
(* the library encodes and decodes, and so the reference of every binding. *)
(***************************************************************************)
EXTENDS CborData

----------------------------------------------------------------------------
\* the scalar types of ffi/codegen/types_ir.nim

I32 == Integer(Signed(32))
I16 == Integer(Signed(16))
I8  == Integer(Signed(8))
U64 == Integer(Unsigned(64))
U32 == Integer(Unsigned(32))
U16 == Integer(Unsigned(16))
U8  == Integer(Unsigned(8))

Record(fields) == Object(fields, {})
SeqOf(type)    == Array(type, FALSE)
Option(type)   == Maybe(type, FALSE)

----------------------------------------------------------------------------
\* timer.nim

TimerConfig == Record(<< <<"name", Text>> >>)

EchoRequest ==
    Record(<< <<"message", Text>>, <<"delayMs", Int64>> >>)

EchoResponse ==
    Record(<< <<"echoed", Text>>, <<"timerName", Text>> >>)

ComplexRequest ==
    Record(<< <<"messages", SeqOf(EchoRequest)>>, <<"tags", SeqOf(Text)>>,
              <<"note", Option(Text)>>, <<"retries", Option(Int64)>> >>)

ComplexResponse ==
    Record(<< <<"summary", Text>>, <<"itemCount", Int64>>,
              <<"hasNote", Bool>> >>)

EchoEvent ==
    Record(<< <<"message", Text>>, <<"echoCount", Int64>> >>)

OnJobScheduledPayload ==
    Record(<< <<"jobId", Text>>, <<"willRunCount", Int64>> >>)

EventEnvelope(type) ==
    Record(<< <<"eventType", Text>>, <<"payload", type>> >>)

JobPriority == Enum({"low", "normal", "high"}, 0)

JobSpec ==
    Record(<< <<"name", Text>>, <<"payload", SeqOf(Text)>>,
              <<"priority", JobPriority>> >>)

RetryPolicy ==
    Record(<< <<"maxAttempts", Int64>>, <<"backoffMs", Int64>>,
              <<"retryOn", SeqOf(Text)>> >>)

ScheduleConfig ==
    Record(<< <<"startAtMs", Int64>>, <<"intervalMs", Int64>>,
              <<"jitter", Option(Int64)>> >>)

ScheduleResult ==
    Record(<< <<"jobId", Text>>, <<"willRunCount", Int64>>,
              <<"firstRunAtMs", Int64>>, <<"effectiveBackoffMs", Int64>>,
              <<"priority", JobPriority>> >>)

MyTimerCreateCtorReq == Record(<< <<"config", TimerConfig>> >>)

MyTimerEchoReq == Record(<< <<"req", EchoRequest>> >>)

MyTimerVersionReq == Record(<<>>)

MyTimerLibVersionReq == Record(<<>>)

MyTimerComplexReq == Record(<< <<"req", ComplexRequest>> >>)

MyTimerScheduleReq ==
    Record(<< <<"job", JobSpec>>, <<"retry", RetryPolicy>>,
              <<"schedule", ScheduleConfig>> >>)

----------------------------------------------------------------------------
\* echo.nim

EchoConfig == Record(<< <<"prefix", Text>> >>)

ShoutRequest == Record(<< <<"text", Text>> >>)

ShoutResponse ==
    Record(<< <<"shouted", Text>>, <<"prefix", Text>> >>)

EchoCreateCtorReq == Record(<< <<"config", EchoConfig>> >>)

EchoShoutReq == Record(<< <<"req", ShoutRequest>> >>)

EchoVersionReq == Record(<<>>)

EchoLibVersionReq == Record(<<>>)

EchoShoutAnonReq == Record(<< <<"req", ShoutRequest>> >>)

----------------------------------------------------------------------------
RequestTypes ==
    [MyTimerCreateCtorReq |-> MyTimerCreateCtorReq,
     MyTimerEchoReq |-> MyTimerEchoReq,
     MyTimerVersionReq |-> MyTimerVersionReq,
     MyTimerLibVersionReq |-> MyTimerLibVersionReq,
     MyTimerComplexReq |-> MyTimerComplexReq,
     MyTimerScheduleReq |-> MyTimerScheduleReq,
     EchoCreateCtorReq |-> EchoCreateCtorReq,
     EchoShoutReq |-> EchoShoutReq,
     EchoVersionReq |-> EchoVersionReq,
     EchoLibVersionReq |-> EchoLibVersionReq,
     EchoShoutAnonReq |-> EchoShoutAnonReq]

ReplyTypes ==
    [Str |-> Text,
     EchoResponse |-> EchoResponse,
     ComplexResponse |-> ComplexResponse,
     ScheduleResult |-> ScheduleResult,
     ShoutResponse |-> ShoutResponse]

LeafTypes ==
    [I32 |-> I32, I16 |-> I16, I8 |-> I8, U64 |-> U64, U32 |-> U32,
     U16 |-> U16, U8 |-> U8, Bytes |-> Bytes]

EventTypes ==
    [EchoEvent |-> EchoEvent,
     OnJobScheduledPayload |-> OnJobScheduledPayload]
=============================================================================
