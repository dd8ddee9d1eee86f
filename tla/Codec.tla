-------------------------------- MODULE Codec --------------------------------
(***************************************************************************)
(* How the generated bindings turn a value into CBOR and CBOR into a       *)
(* value.  A request is encoded into a buffer that grows until it fits; a  *)
(* reply or an event is decoded into a structure whose parts are on the    *)
(* heap (C) and is reclaimed after the host's callback.                    *)
(*                                                                         *)
(* A C structure is a cell: a text <<block, text>>, an array <<block,      *)
(* items>>, an option <<has_value, cell>>, an object the sequence of its   *)
(* fields.  Blocks are numbered as malloc hands them out, 0 is NULL; the   *)
(* heap says how many were made, which were freed, and which call of       *)
(* malloc fails (0 for none).  The library's own codec is a vendored one:  *)
(* what it writes and accepts is stated by Wire, Conforms and Means.       *)
(***************************************************************************)
EXTENDS CborData, FiniteSets, SequencesExt

C   == INSTANCE CTypes
Cpp == INSTANCE CppTypes
Nim == INSTANCE NimTypes

CONSTANTS
    MaxNeed     \* the largest request, 1 or more units of the first buffer (4 KiB)

VARIABLES
    pc,         \* idle, encode, sent, received, called, done, failed
    lang,       \* c, cpp: whose binding
    way,        \* request, reply, event
    type,       \* the name of the type
    value,      \* what the host or the library put in
    wire,       \* the CBOR item sent or received
    need, cap,  \* the size of the request and of its buffer
    heap,       \* [made, fails, freed]
    cell        \* the structure decoded so far

vars == <<pc, lang, way, type, value, wire, need, cap, heap, cell>>

----------------------------------------------------------------------------
\* Types by name

Types(side, w) ==
    LET library == CASE side = "c"   -> [request |-> C!RequestTypes,
                                         reply |-> C!ReplyTypes,
                                         event |-> C!EventTypes,
                                         leaf |-> C!LeafTypes]
                     [] side = "cpp" -> [request |-> Cpp!RequestTypes,
                                         reply |-> Cpp!ReplyTypes,
                                         event |-> Cpp!EventTypes]
                     [] side = "nim" -> [request |-> Nim!RequestTypes,
                                         reply |-> Nim!ReplyTypes,
                                         event |-> Nim!EventTypes,
                                         leaf |-> Nim!LeafTypes]
    IN  library[w]

----------------------------------------------------------------------------
\* Encoding

Null    == "NULL"       \* a C string that is the null pointer
Unnamed == "unnamed"    \* a C enum value without a name

\* A sequence as a tuple, all of it evaluated: TLC's workers share the inputs.
Tuple(f) == SubSeq(f, 1, Len(f))

RECURSIVE Encode(_, _)
Encode(T, v) ==
    CASE T.kind = "text"   -> WText(IF v = Null THEN "" ELSE v)
      [] T.kind = "enum"   -> WText(v)
      [] T.kind = "bytes"  -> WBytes(v)
      [] T.kind = "int"    -> WInt(v)
      [] T.kind = "bool"   -> WBool(v)
      [] T.kind = "array"  ->
            WArray(Tuple([i \in DOMAIN v |-> Encode(T.of, v[i])]))
      [] T.kind = "maybe"  -> IF v = <<>> THEN WNull ELSE Encode(T.of, v[1])
      [] T.kind = "object" ->
            WMap(Tuple([i \in DOMAIN v |->
                    <<T.fields[i][1], Encode(T.fields[i][2], v[i])>>]))

\* A value its codec refuses: an enum outside the names.
RECURSIVE Refused(_, _)
Refused(T, v) ==
    CASE T.kind = "enum"   -> v \notin T.names
      [] T.kind \in {"array", "maybe"} ->
            \E i \in DOMAIN v : Refused(T.of, v[i])
      [] T.kind = "object" ->
            \E i \in DOMAIN v : Refused(T.fields[i][2], v[i])
      [] OTHER -> FALSE

----------------------------------------------------------------------------
\* Memory

CanMalloc(h) == h.made + 1 # h.fails
Malloc(h)    == [h EXCEPT !.made = @ + 1]
Release(h, blocks) ==
    [h EXCEPT !.freed = @ \o SelectSeq(blocks, LAMBDA b : b # 0)]
NewHeap(fails) == [made |-> 0, fails |-> fails, freed |-> <<>>]

\* A structure cleared by memset or calloc.
RECURSIVE Zero(_)
Zero(T) ==
    CASE T.kind \in {"text", "array", "bytes"} -> <<0, <<>> >>
      [] T.kind = "maybe"  -> <<FALSE, Zero(T.of)>>
      [] T.kind = "object" ->
            [i \in DOMAIN T.fields |-> Zero(T.fields[i][2])]
      [] OTHER -> 0

\* The free function of a type: the blocks it frees, in its order.
RECURSIVE Free(_, _)
Free(T, c) ==
    CASE T.kind \in {"text", "bytes"} -> <<c[1]>>
      [] T.kind = "array" ->
            IF c[1] = 0 THEN <<>>
            ELSE (IF T.frees
                  THEN FlattenSeq([i \in DOMAIN c[2] |-> Free(T.of, c[2][i])])
                  ELSE <<>>) \o <<c[1]>>
      [] T.kind = "maybe" ->
            IF c[1] /\ T.frees THEN Free(T.of, c[2]) ELSE <<>>
      [] T.kind = "object" ->
            FlattenSeq([i \in DOMAIN c |->
                IF T.fields[i][1] \in T.owned
                THEN Free(T.fields[i][2], c[i]) ELSE <<>>])
      [] OTHER -> <<>>

----------------------------------------------------------------------------
\* Decoding: [ok, cell, heap].  In C++ strings and vectors are containers that
\* free themselves: they take no block.

Got(c, h)  == [ok |-> TRUE, cell |-> c, heap |-> h]
Fail(c, h) == [ok |-> FALSE, cell |-> c, heap |-> h]

\* A text or byte string: malloc, copy, and free again when the copy fails.
DecodeBlock(T, w, h) ==
    IF w # WCut(T.kind) /\ Kind(w) # T.kind THEN Fail(Zero(T), h)
    ELSE IF lang = "cpp"
    THEN IF Kind(w) = "cut" THEN Fail(Zero(T), h) ELSE Got(<<0, Body(w)>>, h)
    ELSE IF ~CanMalloc(h) THEN Fail(Zero(T), h)
    ELSE LET m == Malloc(h)
         IN  IF Kind(w) = "cut" THEN Fail(Zero(T), Release(m, <<m.made>>))
             ELSE Got(<<m.made, IF T.kind = "text" THEN UpToNul(Body(w))
                                                   ELSE Body(w)>>, m)

\* Read into a buffer of room bytes (C) or a string (C++), then compared.
DecodeEnum(T, w, h) ==
    LET name == IF lang = "c" THEN UpToNul(Body(w)) ELSE Body(w)
    IN  IF /\ Kind(w) = "text"
           /\ lang = "c" => Len(Body(w)) < T.room
           /\ name \in T.names
        THEN Got(name, h) ELSE Fail(0, h)

RECURSIVE Decode(_, _, _), DecodeAll(_, _, _)

Decode(T, w, h) ==
    CASE T.kind \in {"text", "bytes"} -> DecodeBlock(T, w, h)
      [] T.kind = "enum" -> DecodeEnum(T, w, h)
      [] T.kind = "bool" ->
            IF Kind(w) = "bool" THEN Got(Body(w), h) ELSE Fail(0, h)
      [] T.kind = "int" ->
            IF Kind(w) = "int" /\ Body(w) \in T.range
            THEN Got(Body(w), h) ELSE Fail(0, h)
      [] T.kind = "maybe" ->
            IF w = WNull THEN Got(<<FALSE, Zero(T.of)>>, h)
            ELSE LET d == Decode(T.of, w, h)
                 IN  [d EXCEPT !.cell = <<TRUE, @>>]
      [] T.kind = "array" ->
            IF Kind(w) # "array" \/ (lang = "c" /\ ~CanMalloc(h))
            THEN Fail(Zero(T), h)
            ELSE LET m == IF lang = "c" THEN Malloc(h) ELSE h
                     b == IF lang = "c" THEN m.made ELSE 0
                     d == DecodeAll([i \in DOMAIN Body(w) |-> T.of],
                                    Body(w), m)
                 IN  [d EXCEPT !.cell = <<b, @>>]
      [] T.kind = "object" ->
            IF Kind(w) # "map" THEN Fail(Zero(T), h)
            ELSE DecodeAll([i \in DOMAIN T.fields |-> T.fields[i][2]],
                           [i \in DOMAIN T.fields |->
                                Lookup(w, T.fields[i][1])], h)

\* One after the other, up to the first that fails.
DecodeAll(types, ws, h) ==
    IF types = <<>> THEN Got(<<>>, h)
    ELSE LET T    == Head(types)
             here == IF Head(ws) = WMissing THEN Fail(Zero(T), h)
                     ELSE Decode(T, Head(ws), h)
             rest == IF here.ok THEN DecodeAll(Tail(types), Tail(ws), here.heap)
                     ELSE Fail([i \in 1..Len(types) - 1 |-> Zero(types[i + 1])],
                               here.heap)
         IN  [rest EXCEPT !.cell = <<here.cell>> \o @]

\* The value the host's callback reads in a decoded structure.
RECURSIVE View(_, _)
View(T, c) ==
    CASE T.kind \in {"text", "bytes"} -> c[2]
      [] T.kind = "array"  -> [i \in DOMAIN c[2] |-> View(T.of, c[2][i])]
      [] T.kind = "maybe"  -> IF c[1] THEN <<View(T.of, c[2])>> ELSE <<>>
      [] T.kind = "object" -> [i \in DOMAIN c |-> View(T.fields[i][2], c[i])]
      [] OTHER -> c

----------------------------------------------------------------------------
\* The library's codec: which wires are of a type, and their value.  A C host
\* sees a text up to its first NUL.

Seen(side, t) == IF side = "c" THEN UpToNul(t) ELSE t

RECURSIVE Conforms(_, _, _)
Conforms(side, T, w) ==
    CASE T.kind = "enum"   -> Kind(w) = "text" /\ Seen(side, Body(w)) \in T.names
      [] T.kind = "int"    -> Kind(w) = "int" /\ Body(w) \in T.range
      [] T.kind = "maybe"  -> w = WNull \/ Conforms(side, T.of, w)
      [] T.kind = "array"  ->
            /\ Kind(w) = "array"
            /\ \A i \in DOMAIN Body(w) : Conforms(side, T.of, Body(w)[i])
      [] T.kind = "object" ->
            /\ Kind(w) = "map"
            /\ \A i \in DOMAIN T.fields :
                    Conforms(side, T.fields[i][2], Lookup(w, T.fields[i][1]))
      [] OTHER -> Kind(w) = T.kind

RECURSIVE Means(_, _, _)
Means(side, T, w) ==
    CASE T.kind \in {"text", "enum"} -> Seen(side, Body(w))
      [] T.kind = "maybe"  ->
            IF w = WNull THEN <<>> ELSE <<Means(side, T.of, w)>>
      [] T.kind = "array"  ->
            [i \in DOMAIN Body(w) |-> Means(side, T.of, Body(w)[i])]
      [] T.kind = "object" ->
            [i \in DOMAIN T.fields |->
                Means(side, T.fields[i][2], Lookup(w, T.fields[i][1]))]
      [] OTHER -> Body(w)

\* What the host meant by a value: a null C string is an empty one.
RECURSIVE Plain(_, _)
Plain(T, v) ==
    CASE T.kind = "text" -> IF v = Null THEN "" ELSE v
      [] T.kind \in {"array", "maybe"} ->
            [i \in DOMAIN v |-> Plain(T.of, v[i])]
      [] T.kind = "object" ->
            [i \in DOMAIN v |-> Plain(T.fields[i][2], v[i])]
      [] OTHER -> v

----------------------------------------------------------------------------
\* The inputs: of each type one plain value and those that differ from it in
\* one place, and the wires that differ from a good one in one place.

Texts(side) == {"a", ""} \cup (IF side = "c" THEN {Null} ELSE {"a|b"})
Ends(range) == {k \in range : k - 1 \notin range \/ k + 1 \notin range}

RECURSIVE Base(_)
Base(T) ==
    CASE T.kind \in {"text", "bytes"} -> "a"
      [] T.kind = "int"    -> 0
      [] T.kind = "bool"   -> TRUE
      [] T.kind = "enum"   -> "low"
      [] T.kind = "array"  -> <<Base(T.of), Base(T.of)>>
      [] T.kind = "maybe"  -> <<Base(T.of)>>
      [] T.kind = "object" ->
            Tuple([i \in DOMAIN T.fields |-> Base(T.fields[i][2])])

RECURSIVE Values(_, _)
Values(side, T) ==
    CASE T.kind = "text"   -> Texts(side)
      [] T.kind = "bytes"  -> {"a", ""}
      [] T.kind = "int"    -> {0} \cup Ends(T.range)
      [] T.kind = "bool"   -> BOOLEAN
      [] T.kind = "enum"   ->
            T.names \cup (IF side = "nim" THEN {} ELSE {Unnamed})
      [] T.kind = "array"  ->
            {<<>>} \cup {<<Base(T.of), v>> : v \in Values(side, T.of)}
      [] T.kind = "maybe"  -> {<<>>} \cup {<<v>> : v \in Values(side, T.of)}
      [] T.kind = "object" ->
            {Base(T)} \cup UNION {
                {[Base(T) EXCEPT ![i] = v] : v \in Values(side, T.fields[i][2])} :
                i \in DOMAIN T.fields}

Strays == {WNull, WBool(TRUE), WInt(0), WInt(64), WText("low|x"),
           WText("zzzzzzz"), WBytes("a"), WCut("text"), WCut("bytes"),
           WArray(<<>>), WMap(<<>>)}

RECURSIVE Altered(_)
Altered(w) ==
    Strays \cup
    CASE Kind(w) = "int" -> {WInt(k) : k \in {-65, -33, -32, 8, 9, 63}}
      [] Kind(w) = "array" ->
            UNION {{WArray([Body(w) EXCEPT ![i] = x]) : x \in Altered(Body(w)[i])} :
                   i \in DOMAIN Body(w)}
      [] Kind(w) = "map" ->
            {WMap(RemoveAt(Body(w), i)) : i \in DOMAIN Body(w)}
            \cup {WMap(Tuple(Reverse(Body(w)))),
                   WMap(<< <<"extra", WNull>> >> \o Body(w))}
            \cup UNION {{WMap([Body(w) EXCEPT ![i] = <<Body(w)[i][1], x>>]) :
                          x \in Altered(Body(w)[i][2])} : i \in DOMAIN Body(w)}
      [] OTHER -> {}

Wires(T) == {Encode(T, v) : v \in Values("nim", T)} \cup Altered(Encode(T, Base(T)))

Hosts == {"c", "cpp"}

\* Seven blocks are the most that one of the structures takes.
MaxMallocs == 8

Init ==
    /\ pc = "idle" /\ lang \in Hosts /\ way = "request" /\ type = "none"
    /\ value = <<>> /\ wire = WMissing /\ need = 0 /\ cap = 0
    /\ heap = NewHeap(0) /\ cell = <<>>

----------------------------------------------------------------------------
\* A request

T == Types(lang, way)[type]

\* nimffi_encode_to_buf, encodeCborFFI: the first buffer.
Request(t, v, n) ==
    /\ way' = "request" /\ type' = t /\ value' = v /\ need' = n
    /\ \/ /\ pc' = "encode" /\ cap' = 1
          /\ heap' = IF lang = "c" THEN Malloc(heap) ELSE heap
       \/ /\ lang = "c" /\ pc' = "failed"
          /\ UNCHANGED <<cap, heap>>
    /\ UNCHANGED <<lang, wire, cell>>

Buffer == IF lang = "c" THEN <<1>> ELSE <<0>>

\* The request fits: it is handed to the library, and the wrapper frees the
\* buffer when the export has returned.
Fits ==
    /\ pc = "encode" /\ need <= cap /\ ~Refused(T, value)
    /\ wire' = Encode(T, value)
    /\ heap' = Release(heap, Buffer)
    /\ pc' = "sent"
    /\ UNCHANGED <<lang, way, type, value, need, cap, cell>>

\* The encoder fails on the value, on whichever it meets first.
Refuse ==
    /\ pc = "encode" /\ Refused(T, value)
    /\ heap' = Release(heap, Buffer)
    /\ pc' = "failed"
    /\ UNCHANGED <<lang, way, type, value, wire, need, cap, cell>>

\* The encoder overflows the buffer.  A request is a map: the overflow is met
\* inside it, and the outer encoder, which the driver asks, has counted none.
Extra == 0

\* Mutant: the buffer grows by what the encoder counted, even when that is none.
GrownByExtra == cap + Extra

Grown == cap + (IF Extra > 0 THEN Extra ELSE cap)

Grow ==
    /\ pc = "encode" /\ need > cap
    /\ \/ /\ cap' = Grown
          /\ UNCHANGED <<pc, heap>>
       \/ /\ lang = "c"                 \* realloc fails
          /\ heap' = Release(heap, Buffer)
          /\ pc' = "failed"
          /\ UNCHANGED cap
    /\ UNCHANGED <<lang, way, type, value, wire, need, cell>>

----------------------------------------------------------------------------
\* A reply, an event, and the types only the codec functions of a header know

Receive(s, t, w, fails) ==
    /\ way' = s /\ type' = t /\ wire' = w
    /\ heap' = NewHeap(fails)
    /\ pc' = "received"
    /\ UNCHANGED <<lang, value, need, cap, cell>>

\* An event is a map whose entry "payload" is decoded.
Payload ==
    IF way # "event" THEN wire
    ELSE IF Kind(wire) = "map" THEN Lookup(wire, "payload") ELSE WMissing

Decoded == Decode(T, Payload, heap)

\* A reply that does not decode is reported and what was decoded of it freed
\* (so does the host for a type of its own).  An event's trampoline just returns.
Reject ==
    LET d == Decoded
    IN  /\ pc = "received" /\ ~d.ok
        /\ heap' = IF way = "event" THEN d.heap
                   ELSE Release(d.heap, Free(T, d.cell))
        /\ cell' = <<d.cell>>
        /\ pc' = "failed"
        /\ UNCHANGED <<lang, way, type, value, wire, need, cap>>

\* The host's callback reads the structure.
Call ==
    LET d == Decoded
    IN  /\ pc = "received" /\ d.ok
        /\ heap' = d.heap /\ cell' = <<d.cell>>
        /\ pc' = "called"
        /\ UNCHANGED <<lang, way, type, value, wire, need, cap>>

\* The callback has returned: the structure is reclaimed.
Reclaim ==
    /\ pc = "called"
    /\ heap' = Release(heap, Free(T, cell[1]))
    /\ pc' = "done"
    /\ UNCHANGED <<lang, way, type, value, wire, need, cap, cell>>

----------------------------------------------------------------------------
\* Only a C binding calls malloc; the host decodes with it any type its header
\* has.
Inputs ==
    /\ pc = "idle"
    /\ \E s \in {"request", "reply", "event", "leaf"} :
           /\ lang = "cpp" => s # "leaf"
           /\ \E t \in DOMAIN Types(lang, s) :
                LET S == IF s = "event" THEN Nim!EventEnvelope(Types("nim", s)[t])
                         ELSE Types("nim", s)[t]
                IN  \/ /\ s = "request"
                       /\ \E v \in Values(lang, Types(lang, s)[t]),
                             n \in 1..MaxNeed : Request(t, v, n)
                    \/ \E w \in Wires(S),
                          f \in 0..(IF lang = "c" THEN MaxMallocs ELSE 0) :
                               Receive(s, t, w, f)

Next == Inputs \/ Fits \/ Refuse \/ Grow \/ Reject \/ Call \/ Reclaim

\* The encoding loop of a call that was made runs on; nothing makes a host call.
Fairness == WF_vars(Fits \/ Refuse \/ Grow)

Spec == Init /\ [][Next]_vars /\ Fairness

----------------------------------------------------------------------------
\* The library decodes every request that is sent to the value the host passed.
RequestMeansValue ==
    pc = "sent" =>
        LET N == Types("nim", way)[type]
        IN  Conforms("nim", N, wire) /\ Means("nim", N, wire) = Plain(N, value)

\* A binding accepts exactly the replies and events that the library's types
\* describe, unless malloc fails, and the callback reads the value they carry.
NoMallocFailed == heap.fails = 0 \/ heap.made < heap.fails - 1

AcceptsExactly ==
    LET N == Types("nim", way)[type]
    IN  /\ pc = "called" => /\ Conforms(lang, N, Payload)
                            /\ View(T, cell[1]) = Means(lang, N, Payload)
        /\ pc = "failed" /\ wire # WMissing /\ NoMallocFailed =>
                ~Conforms(lang, N, Payload)

\* Every block that encoding or decoding took is freed, and freed once,
\* whichever malloc failed and whatever was decoded before the error.  Left out
\* is an event that does not decode: its trampoline frees nothing.
ReclaimedOnce ==
    \/ pc \in {"sent", "done"}
    \/ pc = "failed" /\ way # "event"
    => /\ Len(heap.freed) = heap.made
       /\ ToSet(heap.freed) = 1..heap.made

\* The encoding loop ends: every request is sent or refused.
EncodingEnds == pc = "encode" ~> pc \in {"sent", "failed"}
=============================================================================
