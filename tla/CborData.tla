------------------------------ MODULE CborData ------------------------------
(***************************************************************************)
(* The data the bindings and the library exchange, and the shapes of their *)
(* types.  A wire is a CBOR item as a tuple <<kind, body>>.  A text is a   *)
(* string in which "|" stands for the byte NUL; an integer k >= 0 stands   *)
(* for 2^k - 1 and a negative one for -2^(-k - 1), so that k tells which   *)
(* widths hold it.  A type is a record that the operators of module Codec  *)
(* walk: each side's types are built with these constructors from the code *)
(* its header or its library has for them.                                 *)
(***************************************************************************)
EXTENDS Integers, Sequences

WText(t)    == <<"text", t>>
WInt(i)     == <<"int", i>>
WBool(b)    == <<"bool", b>>
WBytes(b)   == <<"bytes", b>>
WArray(ws)  == <<"array", ws>>
WMap(es)    == <<"map", es>>      \* a sequence of <<key, wire>>
WNull       == <<"null", 0>>
WMissing    == <<"missing", 0>>      \* an invalid CborValue: no such item
WCut(kind)  == <<"cut", kind>>    \* a text or bytes that end too early

Kind(w) == w[1]
Body(w) == w[2]

Signed(bits)   == -bits .. bits - 1
Unsigned(bits) == 0 .. bits

Text       == [kind |-> "text"]
Bytes      == [kind |-> "bytes"]
Bool       == [kind |-> "bool"]
Integer(range) == [kind |-> "int", range |-> range]
Int64      == Integer(Signed(64))

\* A text of a fixed list; room is the size of the buffer it is read into, 0
\* for none.
Enum(names, room) == [kind |-> "enum", names |-> names, room |-> room]

\* frees: does the type's free function free the items (the value) as well.
Array(type, frees) == [kind |-> "array", of |-> type, frees |-> frees]
Maybe(type, frees) == [kind |-> "maybe", of |-> type, frees |-> frees]

\* fields: a sequence of <<name, type>>; owned: the fields its free function
\* frees.
Object(fields, owned) ==
    [kind |-> "object", fields |-> fields, owned |-> owned]

\* What a C string reads of a text.
UpToNul(t) == CASE t = "a|b" -> "a" [] t = "low|x" -> "low" [] OTHER -> t

\* The value under a key of a map: the first entry with it.
Lookup(w, key) ==
    LET hits == {i \in DOMAIN Body(w) : Body(w)[i][1] = key}
    IN  IF hits = {} THEN WMissing
        ELSE Body(w)[CHOOSE i \in hits : \A j \in hits : i <= j][2]
=============================================================================
