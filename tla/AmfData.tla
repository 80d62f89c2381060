------------------------------ MODULE AmfData ------------------------------
(***************************************************************************)
(* What the AMF codec reads, writes and returns.                            *)
(*                                                                          *)
(* Bytes.  A marker, a flag and each of the bytes of a variable-length      *)
(* integer is an item [byte |-> n]; a length is [u16 |-> n] or [u32 |-> n], *)
(* a float64 [f64 |-> n] and the characters of a string, if it has any, are *)
(* one item [chars |-> s].  So what is cut in the middle of an item cannot  *)
(* be said, and floats are whole numbers.                                   *)
(*                                                                          *)
(* Values.  Each kind of Go value is a record with a field of its own:      *)
(* [num |-> n] is a float64 and [int |-> n] an int32, for instance.         *)
(***************************************************************************)
EXTENDS Integers, Sequences

Byte(n)  == <<[byte |-> n]>>
U16(n)   == <<[u16 |-> n]>>
U32(n)   == <<[u32 |-> n]>>
F64(n)   == <<[f64 |-> n]>>
Chars(s) == IF s = "" THEN << >> ELSE <<[chars |-> s]>>

Num(n)  == [num |-> n]
Int32(n) == [int |-> n]
Str(s)  == [str |-> s]
Bool(b) == [bool |-> b]
Nil     == [nil |-> TRUE]
Arr(s)  == [arr |-> s]
Obj(f)  == [obj |-> f]
Time(n) == [time |-> n]         \* in seconds
Bytes(s) == [bytes |-> s]
Typed(type, f) == [typed |-> type, obj |-> f]
NoFields == << >>               \* the function without arguments

Is(v, kind) == kind \in DOMAIN v

-----------------------------------------------------------------------------
(* Readers *)

NewTables == [strs |-> << >>, objs |-> << >>, traits |-> << >>]
Reader(w, d) == [e |-> "", v |-> 0, w |-> w, d |-> d]

=============================================================================
