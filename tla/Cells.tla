-------------------------------- MODULE Cells --------------------------------
(* The byte level of the thin-client protocol, integers and texts:            *)
(* protocol/mod.rs and protocol/data_types.rs.                                *)
(*                                                                            *)
(* A byte string is a sequence of cells <<width, value>>: one cell per        *)
(* integer written, so that a reader that asks for another width than the     *)
(* writer used fails instead of reading neighbouring bytes.  Text is          *)
(* abstracted to its length: a string of k bytes is the number k, an absent   *)
(* one None, and the content of a byte array is a cell as wide as the array.  *)
EXTENDS Integers, Sequences

(* Option::None of a string.                                                  *)
None == -1

(* write_u8, write_u16, write_i32, write_i64 and the others: a fixed width.   *)
Num(w, v) == << <<w, v>> >>

(* The same where no property looks at the number that is written.            *)
W(w) == Num(w, 0)

(* write_all of a byte array of k bytes; nothing at all when it is empty.     *)
Raw(k) == IF k = 0 THEN <<>> ELSE Num(k, k)

(* The wire code of each type (enum TypeCode).                                *)
Code ==
  [Byte |-> 1, Short |-> 2, Int |-> 3, Long |-> 4, Float |-> 5, Double |-> 6,
   Char |-> 7, Bool |-> 8, String |-> 9, Uuid |-> 10, Date |-> 11,
   ArrByte |-> 12, ArrShort |-> 13, ArrInt |-> 14, ArrLong |-> 15,
   ArrFloat |-> 16, ArrDouble |-> 17, ArrChar |-> 18, ArrBool |-> 19,
   ArrString |-> 20, ArrUuid |-> 21, ArrDate |-> 22, ArrObj |-> 23,
   Collection |-> 24, Map |-> 25, WrappedData |-> 27, Enum |-> 28,
   ArrEnum |-> 29, Decimal |-> 30, ArrDecimal |-> 31, Class |-> 32,
   Timestamp |-> 33, ArrTimestamp |-> 34, Proxy |-> 35, Time |-> 36,
   ArrTime |-> 37, BinaryEnum |-> 38, Null |-> 101, Handle |-> 102,
   ComplexObj |-> 103, Transformed |-> 253,
   OptimizedMarshaller |-> 254]

(* TypeCode::try_from: the type of a wire code, "?" for the codes it rejects. *)
TypeOf(code) ==
  IF \E t \in DOMAIN Code : Code[t] = code
  THEN CHOOSE t \in DOMAIN Code : Code[t] = code ELSE "?"

(* write_string: the length, then the bytes.                                  *)
WriteString(k) == Num(4, k) \o Raw(k)

(* write_string_type_code and String::write: the type code first.             *)
Str(k) == Num(1, Code.String) \o WriteString(k)
StrSize(k) == 1 + 4 + k

(* Option<String>::write and the match on an optional &str in the requests.   *)
OptStr(k) == IF k = None THEN Num(1, Code.Null) ELSE Str(k)
OptStrSize(k) == IF k = None THEN 1 ELSE StrSize(k)

(* What a reader returns: whether it succeeded, what it read, what is left.   *)
Read(v, rest) == [ok |-> TRUE, v |-> v, rest |-> rest]
Failed == [ok |-> FALSE, v |-> 0, rest |-> <<>>]

(* read_u8, read_i32 and the others: read_exact of w bytes.                   *)
Take(c, w) ==
  IF c # <<>> /\ c[1][1] = w THEN Read(c[1][2], Tail(c)) ELSE Failed

(* read_exact of k bytes of text or of an array; k = 0 reads nothing.         *)
TakeRaw(c, k) == IF k = 0 THEN Read(0, c) ELSE Take(c, k)

(* read_string and read_primitive_arr over bytes: the length, then as many.   *)
Sized(k, b) == IF b.ok THEN Read(k, b.rest) ELSE Failed
Text(n) == IF n.ok THEN Sized(n.v, TakeRaw(n.rest, n.v)) ELSE Failed
ReadString(c) == Text(Take(c, 4))

(* String::read: Null is None, anything else is read as a string.             *)
TypedText(t) ==
  IF ~t.ok THEN Failed
  ELSE IF t.v = Code.Null THEN Read(None, t.rest) ELSE ReadString(t.rest)
ReadOptStr(c) == TypedText(Take(c, 1))

(* A string that may not be null.                                             *)
NotNull(r) == IF r.ok /\ r.v # None THEN r ELSE Failed
=============================================================================
