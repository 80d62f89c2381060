----------------------------- MODULE MCSession -----------------------------
(***************************************************************************)
(* The codec, the metadata, and the arguments of Session's other commands,  *)
(* with what the decoder makes of each (Kinds).                             *)
(***************************************************************************)
EXTENDS Session, Amf

OnMetaData == Byte(2) \o EncodeAmf0String("onMetaData")
                \o (CHOOSE w \in EncodeAmf0EcmaArray([width |-> Num(1280)]) : TRUE)

Sent(wires, means, kind) == {[wire |-> w, means |-> means, kind |-> kind] : w \in wires}
Amf0(v, kind) == Sent(EncodeAmf0(v), v, kind)
Amf3(v, kind) == Sent({AvmPlus(EncodeAmf3(v))}, v, kind)
Raw(w, means, kind) == Sent({w}, means, kind)

Str3(s) == Byte(6) \o encodeAmf3Utf8(s)

\* Every kind of AMF0 value that the encoder writes, and what only others do.
\* Refused: an empty string that ends the message, and a reference.
Amf0Args ==
  UNION {Amf0(v, "plain") : v \in
           {Nil, Bool(TRUE), Bool(FALSE), Num(-7), Str("abcdefghijklmnopqrstuvwxyz"),
            Arr(<<Num(1), Str("x"), Nil>>), Arr(<< >>), Obj(NoFields),
            Obj([a |-> Obj([b |-> Str("")]), c |-> Arr(<<Bool(TRUE)>>)])}}
  \union Sent(EncodeAmf0EcmaArray([a |-> Num(1), b |-> Nil]),
              Obj([a |-> Num(1), b |-> Nil]), "plain")
  \union Raw(Byte(11) \o F64(12) \o U16(0), Num(12), "plain")
  \union Raw(Byte(15) \o EncodeAmf0LongString("<x/>"), Str("<x/>"), "plain")
  \union Raw(Byte(16) \o EncodeAmf0String("T") \o EncodeAmf0String("a") \o Byte(5)
               \o EncodeAmf0String("") \o Byte(9), Typed("T", [a |-> Nil]), "plain")
  \union Raw(Byte(6), Nil, "plain") \union Raw(Byte(13), Nil, "plain")
  \union Amf0(Str(""), "refused")
  \union Raw(Byte(10) \o U32(2) \o Byte(3) \o U16(0) \o Byte(9) \o Byte(7) \o U16(1),
             Arr(<<Obj(NoFields), Obj(NoFields)>>), "refused")

ArrayOf(n, w) == AvmPlus(Byte(9) \o encodeAmf3Uint29((2 * n) + 1) \o encodeAmf3Utf8("") \o w)
Dynamic == Byte(10) \o Byte(11) \o encodeAmf3Utf8("") \o encodeAmf3Utf8("a") \o Byte(3)
             \o encodeAmf3Utf8("")

\* An object of a class; the class is not part of what is read.
Fields_(n) == Obj([a |-> Str("x"), b |-> Int32(n)])
TypedT(n) == EncodeAmf3(Typed("T", Fields_(n).obj))

\* Values of AMF3 after the marker of AMF0 for them, and integers at each of
\* the lengths.  Misread: integers from 2^28 on, which AMF3 has no room for and the
\* encoder writes, and a string that is shorter than it says.  Refused: an empty
\* string or array that ends the message, and an array with keys.
Amf3Args ==
  UNION {Amf3(v, "plain") : v \in
           {Nil, Bool(TRUE), Bool(FALSE), Num(-7), Str("abc"), Time(12),
            Arr(<<Int32(1), Str(""), Str("x")>>), Obj([a |-> Arr(<< >>), b |-> Nil])}}
  \union UNION {Amf3(Int32(n), "plain") :
                  n \in {0, 127, 128, 16383, 16384, 2097151, 2097152, 268435455}}
  \union UNION {Amf3(Int32(n), "misread") : n \in {268435456, 536870911}}
  \union Raw(AvmPlus(EncodeAmf3ByteArray("xyz")), Bytes("xyz"), "plain")
  \union Raw(AvmPlus(Byte(7) \o encodeAmf3Utf8("<x/>")), Str("<x/>"), "plain")
  \union Raw(AvmPlus(Byte(0)), Nil, "plain")
  \union Raw(ArrayOf(2, Dynamic \o Byte(1)), Arr(<<Obj([a |-> Bool(TRUE)]), Nil>>), "plain")
  \union Raw(AvmPlus(TypedT(2)), Fields_(2), "plain")
  \union Raw(AvmPlus(Byte(6) \o encodeAmf3Uint29(11) \o Chars("abc")), Str("abc"), "misread")
  \union Amf3(Str(""), "refused") \union Amf3(Arr(<< >>), "refused")
  \union Raw(AvmPlus(Byte(9) \o encodeAmf3Uint29(1) \o encodeAmf3Utf8("a") \o Byte(3)
                       \o encodeAmf3Utf8("")), Obj([a |-> Bool(TRUE)]), "refused")

\* Messages of flex clients: flags, then the fields they announce.  Refused: classes
\* for which there is no handler.
External(class, w) == AvmPlus(Byte(10) \o Byte(7) \o encodeAmf3Utf8(class) \o w)
FlexArgs ==
  Raw(External("DSA", Byte(16 + 1) \o Byte(4) \o Byte(9) \o Str3("id") \o Byte(1) \o Str3("cor")),
      Obj([body |-> Int32(9), messageId |-> Str("id"), correlationId |-> Str("cor")]), "plain")
  \union
  Raw(External("DSK", Byte(128) \o Byte(1) \o Str3("cid") \o Byte(0) \o Byte(32) \o Byte(3)),
      Obj([clientIdBytes |-> Str("cid"), extra_0_5 |-> Bool(TRUE)]), "plain")
  \union
  Raw(External("flex.messaging.io.ArrayCollection", EncodeAmf3(Arr(<<Int32(3), Nil>>))),
      Arr(<<Int32(3), Nil>>), "plain")
  \union
  Raw(External("T", Byte(1)), Obj(NoFields), "refused")

\* References, as AMF3 numbers them: strings by themselves, classes by themselves,
\* and objects, arrays, dates and byte arrays together, from where each begins.  The
\* decoder has an array behind its elements and nil for an object; and it looks up
\* objects and arrays under half their number.
Referring(ty, n) == Byte(ty) \o encodeAmf3Uint29(2 * n)
ObjectOf(keys, w) ==
  AvmPlus(Byte(10) \o encodeAmf3Uint29(3 + (16 * Len(keys))) \o encodeAmf3Utf8("")
            \o FlattenSeq([i \in DOMAIN keys |-> encodeAmf3Utf8(keys[i])]) \o w)
OfString == 6
OfDate == 8
OfArray == 9
OfObject == 10
OfBytes == 12

\* A string, a class, a date and a byte array in an object, and an array in an array.
Found ==
  Raw(ArrayOf(2, Str3("abc") \o Referring(OfString, 0)), Arr(<<Str("abc"), Str("abc")>>), "refers")
  \union
  Raw(ArrayOf(2, TypedT(1) \o Byte(10) \o Byte(1) \o Byte(6) \o encodeAmf3Utf8("x")
                   \o EncodeAmf3(Int32(2))),
      Arr(<<Fields_(1), Fields_(2)>>), "refers")
  \union
  Raw(ObjectOf(<<"a", "b">>, EncodeAmf3(Time(5)) \o Referring(OfDate, 1)),
      Obj([a |-> Time(5), b |-> Time(5)]), "refers")
  \union
  Raw(ObjectOf(<<"a", "b">>, EncodeAmf3ByteArray("xyz") \o Referring(OfBytes, 1)),
      Obj([a |-> Bytes("xyz"), b |-> Bytes("xyz")]), "refers")
  \union
  Raw(ArrayOf(2, EncodeAmf3(Arr(<<Nil>>)) \o Referring(OfArray, 1)),
      Arr(<<Arr(<<Nil>>), Arr(<<Nil>>)>>), "refers")

\* An object, which is nil; one of which half the number is a date; and the first of
\* two dates in an array, for which the second is taken.
Elsewhere ==
  Raw(ObjectOf(<<"a", "b">>, TypedT(1) \o Referring(OfObject, 1)),
      Obj([a |-> Fields_(1), b |-> Fields_(1)]), "elsewhere")
  \union
  Raw(ObjectOf(<<"a", "b", "c">>, EncodeAmf3(Time(5)) \o TypedT(1) \o Referring(OfObject, 2)),
      Obj([a |-> Time(5), b |-> Fields_(1), c |-> Fields_(1)]), "elsewhere")
  \union
  Raw(ArrayOf(3, EncodeAmf3(Time(5)) \o EncodeAmf3(Time(6)) \o Referring(OfDate, 1)),
      Arr(<<Time(5), Time(6), Time(5)>>), "elsewhere")

\* The only date in an array, which is past the end of the table; an array in an
\* object; and, after an array, a date that was in it.
Nowhere ==
  Raw(ArrayOf(2, EncodeAmf3(Time(5)) \o Referring(OfDate, 1)),
      Arr(<<Time(5), Time(5)>>), "nowhere")
  \union
  Raw(ObjectOf(<<"a", "b">>, EncodeAmf3(Arr(<<Nil>>)) \o Referring(OfArray, 1)),
      Obj([a |-> Arr(<<Nil>>), b |-> Arr(<<Nil>>)]), "nowhere")
  \union
  Raw(ObjectOf(<<"a", "b">>, EncodeAmf3(Arr(<<Time(5)>>)) \o Referring(OfDate, 2)),
      Obj([a |-> Arr(<<Time(5)>>), b |-> Time(5)]), "nowhere")

AllArgs == Amf0Args \union Amf3Args \union FlexArgs \union Found \union Elsewhere \union Nowhere
=============================================================================
