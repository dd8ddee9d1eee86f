------------------------------- MODULE CTypes -------------------------------
(***************************************************************************)
(* The types of the generated C headers, my_timer.h and echo.h.  Each      *)
(* definition stands for the functions enc, dec and free of one type: the  *)
(* keys that are written and looked up, in order, and the fields that are  *)
(* freed.                                                                  *)
(***************************************************************************)
EXTENDS CborData

----------------------------------------------------------------------------
\* nim_ffi_cbor.h: the leaf decoders

I32 == Integer(Signed(32))
I16 == Integer(Signed(16))
I8  == Integer(Signed(8))
U64 == Integer(Unsigned(64))
U32 == Integer(Unsigned(32))
U16 == Integer(Unsigned(16))
U8  == Integer(Unsigned(8))

----------------------------------------------------------------------------
\* my_timer.h

TimerConfig == Object(<< <<"name", Text>> >>, {"name"})

EchoRequest ==
    Object(<< <<"message", Text>>, <<"delayMs", Int64>> >>, {"message"})

\* Mutant: the second string is forgotten.
EchoResponseKeepsName ==
    Object(<< <<"echoed", Text>>, <<"timerName", Text>> >>, {"echoed"})

EchoResponse ==
    Object(<< <<"echoed", Text>>, <<"timerName", Text>> >>,
           {"echoed", "timerName"})

Seq_EchoRequest == Array(EchoRequest, TRUE)

Seq_Str == Array(Text, TRUE)

Opt_Str == Maybe(Text, TRUE)

Opt_I64 == Maybe(Int64, FALSE)

ComplexRequest ==
    Object(<< <<"messages", Seq_EchoRequest>>, <<"tags", Seq_Str>>,
              <<"note", Opt_Str>>, <<"retries", Opt_I64>> >>,
           {"messages", "tags", "note"})

ComplexResponse ==
    Object(<< <<"summary", Text>>, <<"itemCount", Int64>>,
              <<"hasNote", Bool>> >>, {"summary"})

EchoEvent ==
    Object(<< <<"message", Text>>, <<"echoCount", Int64>> >>, {"message"})

OnJobScheduledPayload ==
    Object(<< <<"jobId", Text>>, <<"willRunCount", Int64>> >>, {"jobId"})

\* Mutant: the buffer has no room for the NUL of the longest name.
JobPriorityTight == Enum({"low", "normal", "high"}, 6)

JobPriority == Enum({"low", "normal", "high"}, 7)

JobSpec ==
    Object(<< <<"name", Text>>, <<"payload", Seq_Str>>,
              <<"priority", JobPriority>> >>, {"name", "payload"})

\* Mutant: a key is written as the C field would be spelled elsewhere.
RetryPolicySnake ==
    Object(<< <<"max_attempts", Int64>>, <<"backoffMs", Int64>>,
              <<"retryOn", Seq_Str>> >>, {"retryOn"})

RetryPolicy ==
    Object(<< <<"maxAttempts", Int64>>, <<"backoffMs", Int64>>,
              <<"retryOn", Seq_Str>> >>, {"retryOn"})

ScheduleConfig ==
    Object(<< <<"startAtMs", Int64>>, <<"intervalMs", Int64>>,
              <<"jitter", Opt_I64>> >>, {})

ScheduleResult ==
    Object(<< <<"jobId", Text>>, <<"willRunCount", Int64>>,
              <<"firstRunAtMs", Int64>>, <<"effectiveBackoffMs", Int64>>,
              <<"priority", JobPriority>> >>, {"jobId"})

MyTimerCreateCtorReq == Object(<< <<"config", TimerConfig>> >>, {"config"})

MyTimerEchoReq == Object(<< <<"req", EchoRequest>> >>, {"req"})

MyTimerVersionReq == Object(<<>>, {})

MyTimerLibVersionReq == Object(<<>>, {})

MyTimerComplexReq == Object(<< <<"req", ComplexRequest>> >>, {"req"})

MyTimerScheduleReq ==
    Object(<< <<"job", JobSpec>>, <<"retry", RetryPolicy>>,
              <<"schedule", ScheduleConfig>> >>, {"job", "retry"})

----------------------------------------------------------------------------
\* echo.h

EchoConfig == Object(<< <<"prefix", Text>> >>, {"prefix"})

ShoutRequest == Object(<< <<"text", Text>> >>, {"text"})

ShoutResponse ==
    Object(<< <<"shouted", Text>>, <<"prefix", Text>> >>,
           {"shouted", "prefix"})

EchoCreateCtorReq == Object(<< <<"config", EchoConfig>> >>, {"config"})

EchoShoutReq == Object(<< <<"req", ShoutRequest>> >>, {"req"})

EchoVersionReq == Object(<<>>, {})

EchoLibVersionReq == Object(<<>>, {})

EchoShoutAnonReq == Object(<< <<"req", ShoutRequest>> >>, {"req"})

----------------------------------------------------------------------------
RequestTypes ==
    [MyTimerCreateCtorReq |-> MyTimerCreateCtorReq,
     MyTimerEchoReq |-> MyTimerEchoReq,
     MyTimerVersionReq |-> MyTimerVersionReq,
     MyTimerLibVersionReq |-> MyTimerLibVersionReq,
     MyTimerComplexReq |-> MyTimerComplexReq,
     MyTimerScheduleReq |-> MyTimerScheduleReq,
     EchoCreateCtorReq |-> EchoCreateCtorReq,
     EchoShoutReq |-> EchoShoutReq,
     EchoVersionReq |-> EchoVersionReq,
     EchoLibVersionReq |-> EchoLibVersionReq,
     EchoShoutAnonReq |-> EchoShoutAnonReq]

ReplyTypes ==
    [Str |-> Text,
     EchoResponse |-> EchoResponse,
     ComplexResponse |-> ComplexResponse,
     ScheduleResult |-> ScheduleResult,
     ShoutResponse |-> ShoutResponse]

LeafTypes ==
    [I32 |-> I32, I16 |-> I16, I8 |-> I8, U64 |-> U64, U32 |-> U32,
     U16 |-> U16, U8 |-> U8, Bytes |-> Bytes]

EventTypes ==
    [EchoEvent |-> EchoEvent,
     OnJobScheduledPayload |-> OnJobScheduledPayload]
=============================================================================
