-------------------------------- MODULE Amf --------------------------------
(***************************************************************************)
(* The AMF0 and AMF3 codec (protocol/amf), as pure operators: what the      *)
(* decoders return for a sequence of bytes, and what the encoders write.    *)
(*                                                                          *)
(* A decoder's function takes a reader and returns one: .w is what is left  *)
(* to read, .d the tables of the Decoder, .v the value read, .e the error   *)
(* ("" for none).  The error io.EOF is told from the others because         *)
(* handleCmdMsg does.  The decoder's refCache, which nothing reads, is left *)
(* out.                                                                     *)
(***************************************************************************)
EXTENDS AmfData, SequencesExt, FiniteSets, TLC

CONSTANT StringMax   \* AMF0_STRING_MAX: 2^16 - 1 in the code

ASSUME AmfAssumption == StringMax \in Nat \ {0}

-----------------------------------------------------------------------------
(* Readers *)

Fail(e) == [e |-> e]
Then(r, F(_)) == IF r.e = "" THEN F(r) ELSE r
Give(r, v) == [r EXCEPT !.v = v]

\* fmt.Errorf with the error as text: it is io.EOF no more.
Wrap(r) == IF r.e = "EOF" THEN Fail("error") ELSE r

At(r, kind) == r.w # << >> /\ kind \in DOMAIN Head(r.w)

ReadByte(r) ==
  IF r.w = << >> THEN Fail("EOF")
  ELSE IF At(r, "byte") THEN [r EXCEPT !.v = Head(r.w).byte, !.w = Tail(r.w)]
  ELSE Fail("error")

\* binary.Read of a length or of a float64, its error wrapped.
ReadFixed(r, kind) ==
  IF At(r, kind) THEN [r EXCEPT !.v = Head(r.w)[kind], !.w = Tail(r.w)] ELSE Fail("error")

\* Reading n bytes.  At the end of the message a bytes.Reader answers io.EOF,
\* also when there is nothing to be read.
ReadBytes(r, n) ==
  IF r.w = << >> THEN Fail("EOF")
  ELSE IF n = 0 THEN Give(r, "")
  ELSE IF At(r, "chars") /\ Len(Head(r.w).chars) = n
       THEN [r EXCEPT !.v = Head(r.w).chars, !.w = Tail(r.w)]
  ELSE Fail("error")

\* The AMF3 decoders do not look at how many bytes there were: what is missing at
\* the end of the message remains as make has left it, zeros.
Zeros[n \in Nat] == IF n = 0 THEN "" ELSE "0" \o Zeros[n - 1]
ReadUpTo(r, n) ==
  IF Len(r.w) = 1 /\ At(r, "chars") /\ Len(Head(r.w).chars) < n
  THEN [r EXCEPT !.v = Head(r.w).chars \o Zeros[n - Len(Head(r.w).chars)], !.w = << >>]
  ELSE ReadBytes(r, n)

AssertMarker(r, m) ==
  Then(ReadByte(r), LAMBDA x : IF x.v = m THEN x ELSE Fail("error"))

-----------------------------------------------------------------------------
(* AMF3: integers of 29 bits, seven to a byte, eight in a fourth byte *)

decodeU29Seven(r) ==
  LET b(i) == r.w[i].byte
      last == IF \E i \in 1..3 : i <= Len(r.w) /\ b(i) < 128
              THEN CHOOSE i \in 1..3 : b(i) < 128 /\ \A j \in 1..(i - 1) : b(j) >= 128
              ELSE 4
      sum[i \in 0..last] == IF i = 0 THEN 0 ELSE (sum[i - 1] * 128) + (b(i) % 128)
  IN  IF Len(r.w) < last THEN Fail("EOF")
      ELSE [r EXCEPT !.v = sum[last], !.w = SubSeq(r.w, last + 1, Len(r.w))]

decodeU29(r) ==
  LET b(i) == r.w[i].byte
      got == Cardinality({i \in 1..4 : \A j \in 1..i : j <= Len(r.w) /\ Is(r.w[j], "byte")})
      last == IF \E i \in 1..3 : i <= got /\ b(i) < 128
              THEN CHOOSE i \in 1..got : b(i) < 128 /\ \A j \in 1..(i - 1) : b(j) >= 128
              ELSE 4
      sum[i \in 0..last] ==
        IF i = 0 THEN 0
        ELSE IF i = 4 THEN (sum[3] * 256) + b(4)
        ELSE (sum[i - 1] * 128) + (b(i) % 128)
  IN  IF got < last THEN Fail(IF got = Len(r.w) THEN "EOF" ELSE "error")
      ELSE [r EXCEPT !.v = sum[last], !.w = SubSeq(r.w, last + 1, Len(r.w))]

encodeAmf3Uint29(n) ==
  LET high(x) == Byte(128 + (x % 128)) IN
  IF n < 2^7 THEN Byte(n)
  ELSE IF n < 2^14 THEN high(n \div 2^7) \o Byte(n % 2^7)
  ELSE IF n < 2^21 THEN high(n \div 2^14) \o high(n \div 2^7) \o Byte(n % 2^7)
  ELSE high(n \div 2^22) \o high(n \div 2^15) \o high(n \div 2^8) \o Byte(n % 2^8)

\* The lowest bit is 0 for a reference into one of the tables.
decodeReferenceInt(r) ==
  Wrap(Then(decodeU29(r), LAMBDA x :
         Give(x, [isRef |-> x.v % 2 = 0, refVal |-> x.v \div 2])))

-----------------------------------------------------------------------------
(* The decoders *)

RECURSIVE DecodeAmf0(_), DecodeAmf0Object(_, _), DecodeAmf0Values(_, _, _)
RECURSIVE DecodeAmf3(_), DecodeAmf3Values(_, _, _), DecodeProperties(_, _, _),
          DecodeDynamic(_, _)

DecodeAmf0Number(r) == Then(ReadFixed(r, "f64"), LAMBDA x : Give(x, Num(x.v)))

\* Its error is not wrapped.
DecodeAmf0Boolean(r) ==
  Then(ReadByte(r), LAMBDA x :
    IF x.v \in {0, 1} THEN Give(x, Bool(x.v = 1)) ELSE Fail("error"))

\* A string whose length is of the given kind: u16, or u32 for a long one.
DecodeAmf0String(r, kind) ==
  Then(ReadFixed(r, kind), LAMBDA n :
    Then(Wrap(ReadBytes(n, n.v)), LAMBDA x : Give(x, Str(x.v))))

\* Keys and values up to the empty key and the end marker; a key that comes
\* again replaces the value.
DecodeAmf0Object(r, obj) ==
  Then(DecodeAmf0String(r, "u16"), LAMBDA k :
    IF k.v.str = ""
    THEN Then(Wrap(AssertMarker(k, 9)), LAMBDA x : Give(x, Obj(obj)))
    ELSE Then(Wrap(DecodeAmf0(k)), LAMBDA x : DecodeAmf0Object(x, (k.v.str :> x.v) @@ obj)))

DecodeAmf0Values(r, n, vs) ==
  IF n = 0 THEN Give(r, Arr(vs))
  ELSE Then(Wrap(DecodeAmf0(r)), LAMBDA x : DecodeAmf0Values(x, n - 1, Append(vs, x.v)))

DecodeAmf0EcmaArray(r) == Then(ReadFixed(r, "u32"), LAMBDA x : DecodeAmf0Object(x, NoFields))
DecodeAmf0StrictArray(r) ==
  Then(ReadFixed(r, "u32"), LAMBDA x : DecodeAmf0Values(x, x.v, << >>))

\* A float64 and two bytes of no use.
DecodeAmf0Date(r) ==
  Then(DecodeAmf0Number(r), LAMBDA x :
    Then(ReadFixed(x, "u16"), LAMBDA y : Give(y, x.v)))

DecodeAmf0TypedObject(r) ==
  Then(DecodeAmf0String(r, "u16"), LAMBDA t :
    Then(DecodeAmf0Object(t, NoFields), LAMBDA x : Give(x, Typed(t.v.str, x.v.obj))))

\* Movie clips (4), references (7) and record sets (14) are not supported.
DecodeAmf0(r) ==
  Then(ReadByte(r), LAMBDA x :
    CASE x.v = 0  -> DecodeAmf0Number(x)
      [] x.v = 1  -> DecodeAmf0Boolean(x)
      [] x.v = 2  -> DecodeAmf0String(x, "u16")
      [] x.v = 3  -> DecodeAmf0Object(x, NoFields)
      [] x.v \in {5, 6, 13} -> Give(x, Nil)
      [] x.v = 8  -> DecodeAmf0EcmaArray(x)
      [] x.v = 10 -> DecodeAmf0StrictArray(x)
      [] x.v = 11 -> DecodeAmf0Date(x)
      [] x.v \in {12, 15} -> DecodeAmf0String(x, "u32")
      [] x.v = 16 -> DecodeAmf0TypedObject(x)
      [] x.v = 17 -> DecodeAmf3(x)
      [] OTHER    -> Fail("error"))

\* Indices into the tables are not checked: one too high ends the process.
Lookup(r, table, n) == IF n < Len(table) THEN Give(r, table[n + 1]) ELSE Fail("panic")

\* A reference to an object, of which the caller wants the given kind.
ObjectRef(r, n, kind) ==
  Then(Lookup(r, r.d.objs, n), LAMBDA x : IF Is(x.v, kind) THEN x ELSE Fail("error"))

Remember(r) == [r EXCEPT !.d.objs = Append(@, r.v)]

DecodeAmf3Integer(r) ==
  Then(decodeU29(r), LAMBDA x :
    Give(x, Int32(IF x.v > 2^28 - 1 THEN x.v - 2^29 ELSE x.v)))

DecodeAmf3Double(r) == DecodeAmf0Number(r)

\* Strings that are not empty are remembered and may be referred to.
DecodeAmf3String(r) ==
  Then(decodeReferenceInt(r), LAMBDA h :
    IF h.v.isRef THEN Then(Lookup(h, h.d.strs, h.v.refVal), LAMBDA x : Give(x, Str(x.v)))
    ELSE Then(Wrap(ReadUpTo(h, h.v.refVal)), LAMBDA x :
           [x EXCEPT !.v = Str(x.v),
                     !.d.strs = IF x.v = "" THEN @ ELSE Append(@, x.v)]))

\* Milliseconds become seconds.
DecodeAmf3Date(r) ==
  Then(decodeReferenceInt(r), LAMBDA h :
    IF h.v.isRef THEN ObjectRef(h, h.v.refVal, "time")
    ELSE Then(ReadFixed(h, "f64"), LAMBDA x : Remember(Give(x, Time(x.v \div 1000)))))

DecodeAmf3Xml(r) ==
  Then(decodeReferenceInt(r), LAMBDA h :
    IF h.v.isRef THEN ObjectRef(h, h.v.refVal, "str")
    ELSE Then(Wrap(ReadUpTo(h, h.v.refVal)), LAMBDA x :
           IF x.v = "" THEN Give(x, Str("")) ELSE Remember(Give(x, Str(x.v)))))

DecodeAmf3ByteArray(r) ==
  Then(decodeReferenceInt(r), LAMBDA h :
    IF h.v.isRef THEN ObjectRef(h, h.v.refVal, "bytes")
    ELSE Then(Wrap(ReadUpTo(h, h.v.refVal)), LAMBDA x : Remember(Give(x, Bytes(x.v)))))

DecodeAmf3Values(r, n, vs) ==
  IF n = 0 THEN Give(r, Arr(vs))
  ELSE Then(Wrap(DecodeAmf3(r)), LAMBDA x : DecodeAmf3Values(x, n - 1, Append(vs, x.v)))

\* A reference is shifted once more; the array is remembered after its
\* elements; one with keys is refused.
DecodeAmf3Array(r) ==
  Then(decodeReferenceInt(r), LAMBDA h :
    IF h.v.isRef THEN ObjectRef(h, h.v.refVal \div 2, "arr")
    ELSE Then(DecodeAmf3String(h), LAMBDA k :
           IF k.v.str # "" THEN Fail("error")
           ELSE Then(DecodeAmf3Values(k, h.v.refVal, << >>), Remember)))

\* Values under keys that are known from a trait or a field set.
DecodeProperties(r, keys, obj) ==
  IF keys = << >> THEN Give(r, Obj(obj))
  ELSE Then(Wrap(DecodeAmf3(r)), LAMBDA x :
         DecodeProperties(x, Tail(keys), (Head(keys) :> x.v) @@ obj))

\* Further keys, up to an empty one.
DecodeDynamic(r, obj) ==
  Then(DecodeAmf3String(r), LAMBDA k :
    IF k.v.str = "" THEN Give(k, Obj(obj))
    ELSE Then(Wrap(DecodeAmf3(k)), LAMBDA x : DecodeDynamic(x, (k.v.str :> x.v) @@ obj)))

-----------------------------------------------------------------------------
(* Objects of AMF3: a trait names the class and the keys *)

RECURSIVE DecodeKeys(_, _, _), readFlags(_, _)

DecodeKeys(r, n, keys) ==
  IF n = 0 THEN Give(r, keys)
  ELSE Then(DecodeAmf3String(r), LAMBDA x : DecodeKeys(x, n - 1, Append(keys, x.v.str)))

\* The trait of an object that begins with h: one that was read before, or a
\* new one, which is remembered.
DecodeTrait(r, h) ==
  IF h % 2 = 0 THEN Lookup(r, r.d.traits, h \div 2)
  ELSE Then(DecodeAmf3String(r), LAMBDA t :
    Then(DecodeKeys(t, h \div 8, << >>), LAMBDA x :
      LET trait == [type |-> t.v.str, keys |-> x.v,
                    external |-> (h \div 2) % 2 = 1, dynamic |-> (h \div 4) % 2 = 1]
      IN  [x EXCEPT !.v = trait, !.d.traits = Append(@, trait)]))

\* Bytes of flags, the highest bit of which says that there is another one.
readFlags(r, flags) ==
  Then(Wrap(ReadByte(r)), LAMBDA x :
    IF x.v < 128 THEN Give(x, Append(flags, x.v)) ELSE readFlags(x, Append(flags, x.v)))

\* Which fields follow: those of the field sets whose bits are set, and under
\* names of their own those of further bits up to the sixth.
Fields(flags, sets) ==
  LET set(i) == IF i <= Len(sets) THEN sets[i] ELSE << >>
      bit(i, p) == (flags[i] \div 2^p) % 2 = 1
      field(i, p) == IF p < Len(set(i)) THEN set(i)[p + 1]
                     ELSE "extra_" \o ToString(i - 1) \o "_" \o ToString(p)
      count(i) == IF Len(set(i)) > 6 THEN Len(set(i)) ELSE 6
      chosen(i) == SelectSeq([p \in 1..count(i) |-> p - 1], LAMBDA p : bit(i, p))
  IN  FlattenSeq([i \in DOMAIN flags |-> [n \in DOMAIN chosen(i) |-> field(i, chosen(i)[n])]])

decodeExternal(r, obj, sets) ==
  Then(readFlags(r, << >>), LAMBDA x : DecodeProperties(x, Fields(x.v, sets), obj))

AbstractFields ==
  <<<<"body", "clientId", "destination", "headers", "messageId", "timeStamp", "timeToLive">>,
    <<"clientIdBytes", "messageIdBytes">>>>

decodeAsyncMessage(r) ==
  Then(Wrap(decodeExternal(r, NoFields, AbstractFields)), LAMBDA x :
    decodeExternal(x, x.v.obj, <<<<"correlationId", "correlationIdBytes">>>>))

decodeAcknowledgeMessage(r) ==
  Then(decodeAsyncMessage(r), LAMBDA x : decodeExternal(x, x.v.obj, << >>))

\* No handlers are registered for other classes.
DecodeExternalizable(r, type) ==
  CASE type = "DSA" -> decodeAsyncMessage(r)
    [] type = "DSK" -> decodeAcknowledgeMessage(r)
    [] type = "flex.messaging.io.ArrayCollection" -> Then(Wrap(DecodeAmf3(r)), Remember)
    [] OTHER -> Fail("error")

\* The place of the object in the table is taken by nil, and stays so.
DecodeAmf3Object(r) ==
  Then(decodeReferenceInt(r), LAMBDA h :
    IF h.v.isRef THEN Lookup(h, h.d.objs, h.v.refVal \div 2)
    ELSE Then(DecodeTrait(h, h.v.refVal), LAMBDA t :
      LET x == Remember(Give(t, Nil))
          trait == t.v
      IN  IF trait.external THEN DecodeExternalizable(x, trait.type)
          ELSE Then(DecodeProperties(x, trait.keys, NoFields), LAMBDA y :
                 IF trait.dynamic THEN DecodeDynamic(y, y.v.obj) ELSE y)))

DecodeAmf3(r) ==
  Then(ReadByte(r), LAMBDA x :
    CASE x.v \in {0, 1} -> Give(x, Nil)
      [] x.v \in {2, 3} -> Give(x, Bool(x.v = 3))
      [] x.v = 4  -> DecodeAmf3Integer(x)
      [] x.v = 5  -> DecodeAmf3Double(x)
      [] x.v = 6  -> DecodeAmf3String(x)
      [] x.v \in {7, 11} -> DecodeAmf3Xml(x)
      [] x.v = 8  -> DecodeAmf3Date(x)
      [] x.v = 9  -> DecodeAmf3Array(x)
      [] x.v = 10 -> DecodeAmf3Object(x)
      [] x.v = 12 -> DecodeAmf3ByteArray(x)
      [] OTHER    -> Fail("error"))

\* DecodeBatch: values up to the first error, .e, with those before it in .v.
RECURSIVE DecodeBatch(_, _)
DecodeBatch(r, vs) ==
  LET x == DecodeAmf0(r) IN
  IF x.e = "" THEN DecodeBatch(x, Append(vs, x.v)) ELSE [r EXCEPT !.e = x.e, !.v = vs]

-----------------------------------------------------------------------------
(* The encoders: the set of what they may write, as the keys of a Go map    *)
(* come in any order                                                        *)

RECURSIVE EncodeAmf0(_), EncodeAmf3(_)

Concatenations(choices) ==
  LET picks == {p \in [DOMAIN choices -> UNION Range(choices)] :
                  \A i \in DOMAIN choices : p[i] \in choices[i]}
  IN  {FlattenSeq(p) : p \in picks}

\* Its length is cut to 16 bits; values longer than that become long strings.
EncodeAmf0String(s) == U16(Len(s) % (StringMax + 1)) \o Chars(s)
EncodeAmf0LongString(s) == U32(Len(s)) \o Chars(s)

EncodeAmf0Object(obj) ==
  UNION {Concatenations([i \in DOMAIN keys |->
             {EncodeAmf0String(keys[i]) \o w : w \in EncodeAmf0(obj[keys[i]])}])
         : keys \in SetToSeqs(DOMAIN obj)}

EncodeAmf0EcmaArray(obj) ==
  {Byte(8) \o U32(Cardinality(DOMAIN obj)) \o w \o EncodeAmf0String("") \o Byte(9)
     : w \in EncodeAmf0Object(obj)}

EncodeAmf0(v) ==
  CASE Is(v, "nil")  -> {Byte(5)}
    [] Is(v, "num")  -> {Byte(0) \o F64(v.num)}
    [] Is(v, "int")  -> {Byte(0) \o F64(v.int)}
    [] Is(v, "bool") -> {Byte(1) \o Byte(IF v.bool THEN 1 ELSE 0)}
    [] Is(v, "str")  -> {IF Len(v.str) <= StringMax
                         THEN Byte(2) \o EncodeAmf0String(v.str)
                         ELSE Byte(12) \o EncodeAmf0LongString(v.str)}
    [] Is(v, "arr")  -> {Byte(10) \o U32(Len(v.arr)) \o w
                           : w \in Concatenations([i \in DOMAIN v.arr |-> EncodeAmf0(v.arr[i])])}
    [] Is(v, "obj")  -> {Byte(3) \o w \o EncodeAmf0String("") \o Byte(9)
                           : w \in EncodeAmf0Object(v.obj)}

EncodeBatchAmf0(vals) == Concatenations([i \in DOMAIN vals |-> EncodeAmf0(vals[i])])

encodeAmf3Utf8(s) == encodeAmf3Uint29((2 * Len(s)) + 1) \o Chars(s)

\* A trait of its own for every object, with its keys in one order.
EncodeAmf3Object(type, obj) ==
  LET keys == SetToSeq(DOMAIN obj)
      Each(F(_)) == FlattenSeq([i \in DOMAIN keys |-> F(keys[i])])
  IN  Byte(10) \o encodeAmf3Uint29(3 + (16 * Len(keys))) \o encodeAmf3Utf8(type)
        \o Each(encodeAmf3Utf8) \o Each(LAMBDA k : EncodeAmf3(obj[k]))

\* Not reached from EncodeAmf3, which takes any slice for an array.
EncodeAmf3ByteArray(s) == Byte(12) \o encodeAmf3Uint29((2 * Len(s)) + 1) \o Chars(s)

\* Integers that do not fit 29 bits become doubles.
EncodeAmf3(v) ==
  CASE Is(v, "nil")  -> Byte(1)
    [] Is(v, "num")  -> Byte(5) \o F64(v.num)
    [] Is(v, "int")  -> IF v.int \in 0..(2^29 - 1) THEN Byte(4) \o encodeAmf3Uint29(v.int)
                        ELSE Byte(5) \o F64(v.int)
    [] Is(v, "bool") -> Byte(IF v.bool THEN 3 ELSE 2)
    [] Is(v, "str")  -> Byte(6) \o encodeAmf3Utf8(v.str)
    [] Is(v, "time") -> Byte(8) \o Byte(1) \o F64(v.time * 1000)
    [] Is(v, "arr")  -> Byte(9) \o encodeAmf3Uint29((2 * Len(v.arr)) + 1) \o encodeAmf3Utf8("")
                          \o FlattenSeq([i \in DOMAIN v.arr |-> EncodeAmf3(v.arr[i])])
    [] Is(v, "typed") -> EncodeAmf3Object(v.typed, v.obj)
    [] Is(v, "obj") /\ ~Is(v, "typed") -> EncodeAmf3Object("", v.obj)

\* EncodeAmf0Amf3Marker: an AMF3 value among AMF0 values.
AvmPlus(w) == Byte(17) \o w

-----------------------------------------------------------------------------
(* metadata.go *)

SetDataFrame == "@setDataFrame"
setFrameFrame == CHOOSE w \in EncodeAmf0(Str(SetDataFrame)) : TRUE

Size(item) ==
  CASE Is(item, "byte") -> 1 [] Is(item, "u16") -> 2 [] Is(item, "u32") -> 4
    [] Is(item, "f64") -> 8 [] Is(item, "chars") -> Len(item.chars)

RECURSIVE DropBytes(_, _)
DropBytes(w, n) ==
  IF n = 0 \/ w = << >> THEN w ELSE DropBytes(Tail(w), n - Size(Head(w)))

MetaDataReformAlways(w, flag) ==
  Then(DecodeAmf0(Reader(w, NewTables)), LAMBDA x :
    IF ~Is(x.v, "str") THEN Fail("error")
    ELSE IF flag = "ADD" THEN Reader(setFrameFrame \o w, NewTables)
    ELSE Reader(DropBytes(w, FoldSeq(LAMBDA i, n : Size(i) + n, 0, setFrameFrame)), NewTables))

\* Puts SetDataFrame before a message that does not begin with it (ADD), or
\* takes it away (DEL).
MetaDataReform(w, flag) ==
  Then(DecodeAmf0(Reader(w, NewTables)), LAMBDA x :
    IF ~Is(x.v, "str") THEN Fail("error")
    ELSE CASE flag = "ADD" /\ x.v.str # SetDataFrame -> Reader(setFrameFrame \o w, NewTables)
           [] flag = "DEL" /\ x.v.str = SetDataFrame ->
                Reader(DropBytes(w, FoldSeq(LAMBDA i, n : Size(i) + n, 0, setFrameFrame)),
                       NewTables)
           [] OTHER -> Reader(w, NewTables))

=============================================================================
