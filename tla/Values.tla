------------------------------- MODULE Values -------------------------------
(* The codec of Ignite values: protocol/complex_obj.rs (the eager reader and  *)
(* writer and LazyBinaryObject), the typed readers of protocol/data_types.rs  *)
(* and the SQL reader of query/sql.rs.                                        *)
(*                                                                            *)
(* An IgniteValue is a record: t its variant, d its numbers, es the values it *)
(* contains, and for an object ty its type name and fs its field names.       *)
EXTENDS Registry, Wire

(* The variants that hold nothing but numbers.                                *)
V(t, d) == [t |-> t, d |-> d, es |-> <<>>, ty |-> 0, fs |-> <<>>]

(* The variants that hold other values; a Map's keys and values alternate.    *)
Holding(t, d, es) == [V(t, d) EXCEPT !.es = es]

(* IgniteValue::Object of a ComplexObject, and a bare ComplexObject.          *)
Object(ty, fs, es) == [V("Object", <<>>) EXCEPT !.es = es, !.ty = ty, !.fs = fs]

Null == V("Null", <<>>)

(* The ComplexObject that wraps a value which is not a complex object.        *)
Wrapper(v) == Object(0, <<>>, <<v>>)
IsWrapper(o) == o.t = "Object" /\ o.fs = <<>> /\ Len(o.es) = 1

(* flatten_complex_value.                                                     *)
Flatten(o) == IF IsWrapper(o) THEN o.es[1] ELSE o

(* The widths of the integers each fixed-size variant is written with.        *)
Words ==
  [Byte |-> <<1>>, Short |-> <<2>>, Int |-> <<4>>, Long |-> <<8>>,
   Float |-> <<4>>, Double |-> <<8>>, Char |-> <<2>>, Bool |-> <<1>>,
   Uuid |-> <<8, 8>>, Date |-> <<8>>, Time |-> <<8>>, Timestamp |-> <<8, 4>>,
   Enum |-> <<4, 4>>, Null |-> <<>>]

(* The element width of the primitive arrays (write_primitive_arr!).          *)
PrimWidth ==
  [ArrByte |-> 1, ArrShort |-> 2, ArrInt |-> 4, ArrLong |-> 8, ArrFloat |-> 4,
   ArrDouble |-> 8, ArrChar |-> 2, ArrBool |-> 1]

(* The element type of the typed arrays (read_typed_nullable_array).          *)
ElementOf ==
  [ArrString |-> "String", ArrUuid |-> "Uuid", ArrDate |-> "Date",
   ArrDecimal |-> "Decimal", ArrTimestamp |-> "Timestamp", ArrTime |-> "Time"]

(* The variants that are a type code, a length and as many bytes.             *)
BlobCode == [String |-> "String", Binary |-> "ArrByte",
             OpaqueMarshal |-> "OptimizedMarshaller"]

(* IgniteValue::ignite_type then ignite_type_id: the code a field of this     *)
(* value is registered with.                                                  *)
FieldCode(v) ==
  IF v.t \in DOMAIN Words \cup {"String", "Decimal", "Map", "Collection"}
  THEN Code[v.t] ELSE
  CASE v.t \in {"Binary", "OpaqueMarshal"} -> Code.ArrByte
    [] v.t \in {"Object", "PreEncoded"}    -> Code.ComplexObj
    [] v.t \in {"Array", "ArrTyped"}       -> Code.ArrObj

-----------------------------------------------------------------------------
(* Writing.                                                                   *)

HeaderLen == 24
UserType == 1
HasSchema == 2
HasRawData == 4
OffsetOneByte == 8
OffsetTwoBytes == 16
Flag(flags, bit) == (flags \div bit) % 2 = 1

(* Faulty variant of OffsetFlag: an offset of 256 is still given one byte.    *)
OffsetFlagOfCount(offsets) ==
  IF \A i \in DOMAIN offsets : offsets[i] <= 256 THEN OffsetOneByte
  ELSE IF \A i \in DOMAIN offsets : offsets[i] <= 65535 THEN OffsetTwoBytes ELSE 0

(* ComplexObject::get_data, second half: the narrowest width that fits every  *)
(* offset, as a flag; 0 means four bytes.                                     *)
OffsetFlag(offsets) ==
  LET max == IF offsets = <<>> THEN 0
             ELSE CHOOSE x \in {offsets[i] : i \in DOMAIN offsets} :
                    \A i \in DOMAIN offsets : offsets[i] <= x
  IN  IF max <= 255 THEN OffsetOneByte
      ELSE IF max <= 65535 THEN OffsetTwoBytes ELSE 0

WidthOf(flag) ==
  IF flag = OffsetOneByte THEN 1 ELSE IF flag = OffsetTwoBytes THEN 2 ELSE 4

(* `offset as u8`, `offset as u16`.                                           *)
Narrow(width, x) == IF width = 4 THEN x ELSE x % 256 ^ width

(* PreEncoded keeps a byte string as the numbers of its cells.                *)
AsNumbers(c) == Cat([i \in 1 .. Len(c) |-> c[i]])
AsCells(d) == [i \in 1 .. Len(d) \div 2 |-> <<d[2 * i - 1], d[2 * i]>>]

(* The builders of the two type names that ComplexObject::write singles out.  *)
JavaLong == 14
JavaString == 16

RECURSIVE Write(_)

(* get_data: the field values one after the other, and the footer with the    *)
(* id and the offset of each.  zip stops at the shorter of the two lists.     *)
Footer(fs, values, offsets, flag) ==
  [values |-> Cat(values),
   footer |-> Cat([i \in DOMAIN values |->
                     Num(4, FieldId[fs[i]])
                     \o Num(WidthOf(flag), Narrow(WidthOf(flag), offsets[i]))]),
   flag   |-> flag]
Laid(fs, values, offsets) == Footer(fs, values, offsets, OffsetFlag(offsets))
Data(fs, values) ==
  Laid(fs, values, [i \in DOMAIN values |-> HeaderLen + Bytes(CatOf(values, 1, i - 1))])
GetData(o) ==
  Data(o.fs, [i \in 1 .. IF Len(o.fs) < Len(o.es) THEN Len(o.fs) ELSE Len(o.es) |->
                Write(o.es[i])])

(* ComplexObject::write.                                                      *)
Framed(o, g) ==
  LET end == HeaderLen + Bytes(g.values)
  IN  Num(1, Code.ComplexObj) \o Num(1, 1)
      \o Num(2, HasSchema + UserType + g.flag) \o Num(4, TypeId[o.ty]) \o W(4)
      \o Num(4, end + Bytes(g.footer)) \o Num(4, SchemaId(Ids(o.fs)))
      \o Num(4, end) \o g.values \o g.footer
WriteObject(o) ==
  IF IsWrapper(o) THEN Write(o.es[1]) ELSE
  IF o.ty \in {JavaLong, JavaString} THEN Write(o.es[Len(o.es)]) ELSE Framed(o, GetData(o))

(* IgniteValue::write.  ArrPrim is a Vec of a primitive type and ArrEnum and  *)
(* WrappedData are what a server may send; the writers of the last two are    *)
(* not in this crate.  es: the elements, written.                             *)
WriteAs(v, es) ==
  CASE v.t \in DOMAIN Words ->
         Num(1, Code[v.t]) \o [i \in 1 .. Len(Words[v.t]) |-> <<Words[v.t][i], v.d[i]>>]
    [] v.t \in DOMAIN BlobCode -> Num(1, Code[BlobCode[v.t]]) \o WriteString(v.d[1])
    [] v.t = "Decimal" ->
         Num(1, Code.Decimal) \o Num(4, v.d[1]) \o WriteString(v.d[2])
    [] v.t = "Array" -> Num(1, Code.ArrObj) \o Num(4, -1) \o Num(4, Len(v.es)) \o es
    [] v.t = "Map" -> Num(1, Code.Map) \o Num(4, Len(v.es) \div 2) \o Num(1, v.d[1]) \o es
    [] v.t = "Collection" ->
         Num(1, Code.Collection) \o Num(4, Len(v.es)) \o Num(1, v.d[1]) \o es
    [] v.t = "ArrTyped" -> Num(1, v.d[1]) \o Num(4, Len(v.es)) \o es
    [] v.t = "PreEncoded" -> AsCells(v.d)
    [] v.t = "ArrPrim" ->
         Num(1, v.d[1]) \o Num(4, Len(v.d) - 1)
         \o [i \in 1 .. Len(v.d) - 1 |-> <<PrimWidth[TypeOf(v.d[1])], v.d[i + 1]>>]
    [] v.t = "ArrEnum" -> Num(1, Code.ArrEnum) \o W(4) \o Num(4, Len(v.es)) \o es
    [] v.t = "WrappedData" ->
         Num(1, Code.WrappedData) \o Num(4, Bytes(es)) \o es \o Num(4, 0)
Write(v) ==
  IF v.t = "Object" THEN WriteObject(v)
  ELSE WriteAs(v, Cat([i \in 1 .. Len(v.es) |-> Write(v.es[i])]))

(* IgniteValue::size and ComplexObject::size, and the sizes of                *)
(* write_primitive_arr!.                                                      *)
RECURSIVE Size(_)
FieldsSize(g) == Bytes(g.values) + Bytes(g.footer) + HeaderLen
ObjectSize(o) ==
  IF IsWrapper(o) THEN Size(o.es[1]) ELSE
  IF o.ty = JavaLong THEN 8 + 1 ELSE
  IF o.ty = JavaString THEN 4 + 1 + o.es[Len(o.es)].d[1] ELSE FieldsSize(GetData(o))

SizeAs(v, es) ==
  CASE v.t \in DOMAIN Words -> 1 + Total(Words[v.t])
    [] v.t \in DOMAIN BlobCode -> 1 + 4 + v.d[1]
    [] v.t = "Decimal" -> 1 + 4 + 4 + v.d[2]
    [] v.t = "Array" -> 1 + 4 + 4 + es
    [] v.t \in {"Map", "Collection"} -> 1 + 4 + 1 + es
    [] v.t = "ArrTyped" -> 1 + 4 + es
    [] v.t = "PreEncoded" -> Bytes(AsCells(v.d))
    [] v.t = "ArrPrim" -> PrimWidth[TypeOf(v.d[1])] * (Len(v.d) - 1) + 4 + 1
Size(v) ==
  IF v.t = "Object" THEN ObjectSize(v)
  ELSE SizeAs(v, Total([i \in 1 .. Len(v.es) |-> Size(v.es[i])]))

-----------------------------------------------------------------------------
(* Reading.  The crate has three readers with almost the same arms: "top"     *)
(* (ComplexObject::read_unwrapped), "field" (its loop over the fields of an   *)
(* object) and "sql" (read_sql_value_unwrapped).  The tables say which type   *)
(* codes each of them accepts; the rest is an error.                          *)

(* read_unwrapped: wrappers of a single number or blob.                       *)
TopScalars == {"Byte", "String", "Long", "Int", "Short", "Float", "Double",
               "Char", "Bool", "Uuid", "Date", "Time", "Timestamp", "Decimal",
               "ArrByte"}
(* read_unwrapped: object and typed arrays, enums.                            *)
TopArrays == {"ArrObj", "Enum", "BinaryEnum"} \cup DOMAIN ElementOf
(* read_unwrapped: the arms after the complex object.                         *)
TopOthers == {"ComplexObj", "Map", "Collection", "Null", "OptimizedMarshaller"}

(* The field loop, up to collections.                                         *)
FieldScalars == TopScalars \cup {"ArrObj", "Enum", "BinaryEnum", "ComplexObj",
                                  "Null", "Map", "Collection"}
(* The field loop, typed and enum arrays, opaque and wrapped data.            *)
FieldArrays == DOMAIN ElementOf \cup {"ArrEnum", "OptimizedMarshaller", "WrappedData"}

(* read_sql_value_unwrapped, from Null to Time.                               *)
SqlScalars == (TopScalars \ {"ArrByte"}) \cup {"Null"}
(* read_sql_value_unwrapped, the array arms.                                  *)
SqlArrays == DOMAIN PrimWidth \cup DOMAIN ElementOf
(* read_sql_value_unwrapped, from ArrObj on.                                  *)
SqlOthers == {"ArrObj", "Collection", "Map", "WrappedData", "Enum", "BinaryEnum",
              "ComplexObj", "OptimizedMarshaller"}

Arms == [top   |-> TopScalars \cup TopArrays \cup TopOthers,
         field |-> FieldScalars \cup FieldArrays,
         sql   |-> SqlScalars \cup SqlArrays \cup SqlOthers]

(* The integers of a fixed-size value (read_enum, read_uuid, read_timestamp). *)
ReadWords(c, ws) ==
  LET n == Len(ws)
  IN  IF Len(c) >= n /\ \A i \in 1 .. n : c[i][1] = ws[i]
      THEN Read([i \in 1 .. n |-> c[i][2]], SubSeq(c, n + 1, Len(c)))
      ELSE Failed

(* A successful read, turned into a value.                                    *)
As(r, v) == IF r.ok THEN Read(v, r.rest) ELSE Failed

RECURSIVE Decode(_, _, _), DecodeN(_, _, _, _), DecodeFields(_, _, _)

(* n elements.  The eager readers read each with ComplexObject::read and      *)
(* flatten it, the SQL reader with itself.                                    *)
DecodeMore(kind, n, r, reg) ==
  IF ~r.ok THEN Failed
  ELSE Join(IF kind = "sql" THEN r.v ELSE Flatten(r.v), DecodeN(kind, n, r.rest, reg))
DecodeN(kind, n, c, reg) ==
  IF n <= 0 THEN Read(<<>>, c)
  ELSE DecodeMore(kind, n - 1, Decode(IF kind = "sql" THEN "sql" ELSE "top", c, reg), reg)

(* A count, in the map's case of pairs, the subtype byte, the elements.  The  *)
(* SQL reader drops the subtype.                                              *)
Collected(t, d, es) == As(es, Holding(t, d, es.v))
DecodeSubtyped(kind, t, h, reg) ==
  IF ~h.ok THEN Failed
  ELSE Collected(t, IF kind = "sql" THEN <<>> ELSE <<h.v[2]>>,
                 DecodeN(kind, IF t = "Map" THEN 2 * h.v[1] ELSE h.v[1], h.rest, reg))
DecodeCounted(kind, t, c, reg) == DecodeSubtyped(kind, t, ReadWords(c, <<4, 1>>), reg)

(* The arrays whose elements carry their own type code: skip words are read   *)
(* and dropped before the count.  Eagerly a typed array keeps its code.       *)
ArrayOf(kind, t, es) ==
  LET typed == t \in DOMAIN ElementOf
  IN  IF ~es.ok THEN Failed ELSE
      IF kind = "sql" /\ typed /\ \E i \in 1 .. Len(es.v) : es.v[i].t \notin {ElementOf[t], "Null"}
      THEN Failed
      ELSE Read(IF typed /\ kind # "sql" THEN Holding("ArrTyped", <<Code[t]>>, es.v)
                ELSE Holding("Array", <<>>, es.v), es.rest)
DecodeElements(kind, t, h, reg) ==
  IF h.ok THEN ArrayOf(kind, t, DecodeN(kind, h.v[Len(h.v)], h.rest, reg)) ELSE Failed
DecodeArray(kind, t, c, reg) ==
  DecodeElements(kind, t, ReadWords(c, IF t \in {"ArrObj", "ArrEnum"} THEN <<4, 4>> ELSE <<4>>), reg)

(* The primitive arrays, which only the SQL reader accepts: an array of the   *)
(* element type.                                                              *)
Primitives(t, ws) ==
  LET el == CHOOSE e \in {"Short", "Int", "Long", "Float", "Double", "Char", "Bool"} :
              Code[e] = Code[t] - 11
  IN  As(ws, Holding("Array", <<>>, [i \in DOMAIN ws.v |-> V(el, <<ws.v[i]>>)]))
DecodePrim(t, n) ==
  IF n.ok THEN Primitives(t, ReadWords(n.rest, [i \in 1 .. n.v |-> PrimWidth[t]])) ELSE Failed

(* WrappedData: length, bytes, offset.  A field keeps the whole envelope as   *)
(* it is, the SQL reader reads the value inside at the offset.                *)
Inside(r, rest) == IF r.ok THEN Read(r.v, rest) ELSE Failed
Unwrapped(kind, n, inner, off, reg) ==
  IF Bytes(inner) # n \/ ~off.ok THEN Failed ELSE
  IF kind = "field"
  THEN Read(V("PreEncoded", AsNumbers(Num(1, Code.WrappedData) \o Num(4, n)
                                      \o inner \o Num(4, off.v))), off.rest)
  ELSE IF off.v > n THEN Failed ELSE Inside(Decode("sql", Skip(inner, off.v), reg), off.rest)
DecodeWrapped(kind, n, reg) ==
  IF n.ok THEN Unwrapped(kind, n.v, First(n.rest, n.v), Take(Skip(n.rest, n.v), 4), reg)
  ELSE Failed

(* The header of a complex object, after its type code, and its body.         *)
ReadHeader(c) ==
  LET h == ReadWords(c, <<1, 2, 4, 4, 4, 4, 4>>) IN
  IF ~h.ok THEN Failed ELSE
  LET flags == h.v[2]
      len == h.v[5] - HeaderLen
      one == Flag(flags, OffsetOneByte)
      two == Flag(flags, OffsetTwoBytes)
      schema == Flag(flags, HasSchema)
      raw == Flag(flags, HasRawData)
      off == h.v[7] - HeaderLen
  IN  As([h EXCEPT !.rest = Skip(h.rest, len)],
         [type |-> h.v[3], schema |-> h.v[6], hasSchema |-> schema, hasRaw |-> raw,
          both |-> one /\ two,
          width |-> IF one /\ ~two THEN 1 ELSE IF two /\ ~one THEN 2 ELSE 4,
          len |-> len, body |-> First(h.rest, len), off |-> off,
          complete |-> Bytes(First(h.rest, len)) = len])

(* The field loop: while the position is before the end of the field data.    *)
DecodeRest(c, n, r, reg) ==
  IF r.ok THEN Join(r.v, DecodeFields(r.rest, n - (Bytes(c) - Bytes(r.rest)), reg)) ELSE Failed
DecodeFields(c, n, reg) ==
  IF n <= 0 THEN Read(<<>>, c) ELSE DecodeRest(c, n, Decode("field", c, reg), reg)

(* The footer: an id and an offset per field.                                 *)
FooterEntries(body, start, width) ==
  LET n == (Bytes(body) - start) \div (4 + width)
      cells == Skip(body, start)
  IN  [i \in 1 .. n |-> <<cells[2 * i - 1][2], cells[2 * i][2]>>]

(* read_unwrapped, the complex object.                                        *)
Decoded(sch, fields, rest) ==
  IF fields.ok THEN Read(Object(sch.ty, sch.fs, fields.v), rest) ELSE Failed
DecodeBody(h, entries, rest, reg) ==
  Decoded(IF h.hasSchema
          THEN SchemaOf(reg, h.type, h.schema, [i \in DOMAIN entries |-> entries[i][1]])
          ELSE NotFound,
          DecodeFields(h.body, IF (h.hasRaw /\ ~h.hasSchema) \/ h.off <= 0 THEN h.len ELSE h.off,
                       reg),
          rest)
DecodeObject(r, reg) ==
  IF ~r.ok \/ (~r.v.hasSchema /\ ~r.v.hasRaw) \/ r.v.both \/ ~r.v.complete THEN Failed
  ELSE DecodeBody(r.v, FooterEntries(r.v.body, IF r.v.off > 0 THEN r.v.off ELSE 0, r.v.width),
                  r.rest, reg)

(* One value with its type code.  "top" yields a ComplexObject.               *)
Scalar(t, r) == As(r, V(t, r.v))
Blob(t, r) == As(r, V(t, <<r.v>>))
Decimal(s, m) == As(m, V("Decimal", <<s.v, m.v>>))
DecodeDecimal(s) == IF s.ok THEN Decimal(s, ReadString(s.rest)) ELSE Failed
DecodeAs(kind, t, c, reg) ==
  CASE t = "ComplexObj" -> DecodeObject(ReadHeader(c), reg)
    [] t = "WrappedData" -> DecodeWrapped(kind, Take(c, 4), reg)
    [] t \in {"Map", "Collection"} -> DecodeCounted(kind, t, c, reg)
    [] t \in {"ArrObj", "ArrEnum"} \cup DOMAIN ElementOf -> DecodeArray(kind, t, c, reg)
    [] t \in DOMAIN PrimWidth \ {"ArrByte"} -> DecodePrim(t, Take(c, 4))
    [] t = "Decimal" -> DecodeDecimal(Take(c, 4))
    [] \E b \in DOMAIN BlobCode : BlobCode[b] = t ->
         Blob(CHOOSE b \in DOMAIN BlobCode : BlobCode[b] = t, ReadString(c))
    [] t = "BinaryEnum" -> Scalar("Enum", ReadWords(c, Words.Enum))
    [] OTHER -> Scalar(t, ReadWords(c, Words[t]))

Wrapped(r) == As(r, Wrapper(r.v))
DecodeOf(kind, t, c, reg) ==
  IF t \notin Arms[kind] THEN Failed
  ELSE IF kind = "top" /\ t # "ComplexObj" THEN Wrapped(DecodeAs(kind, t, c, reg))
  ELSE DecodeAs(kind, t, c, reg)
DecodeTagged(kind, h, reg) ==
  IF h.ok THEN DecodeOf(kind, TypeOf(h.v), h.rest, reg) ELSE Failed
Decode(kind, c, reg) == DecodeTagged(kind, Take(c, 1), reg)

(* T::read for the Rust type T that wrote the value: read_type! and           *)
(* read_primitive_arr! take any code but Null and read T's own layout.        *)
PrimitiveArray(code, ws) == As(ws, V("ArrPrim", <<code>> \o ws.v))
TypedPrimitives(code, n) ==
  PrimitiveArray(code, ReadWords(n.rest, [i \in 1 .. n.v |-> PrimWidth[TypeOf(code)]]))
DecodeTyped(v, c) ==
  IF v.t = "ArrPrim" THEN TypedPrimitives(v.d[1], Take(Tail(c), 4))
  ELSE IF v.t = "String" THEN Blob("String", ReadString(Tail(c)))
  ELSE Scalar(v.t, ReadWords(Tail(c), Words[v.t]))

(* LazyBinaryObject::read_from: the body, the (id, offset) pairs of the       *)
(* footer and the end of the field data.                                      *)
LazyRead(c) ==
  LET r == ReadHeader(Tail(c))
      h == r.v
      end == IF h.off > 0 THEN h.off ELSE h.len
      entries == FooterEntries(h.body, end, IF h.both THEN 4 ELSE h.width)
  IN  IF ~r.ok \/ ~h.complete THEN Failed ELSE
      As(r, [body |-> h.body, end |-> end,
             fields |-> IF h.hasSchema /\ end < h.len THEN entries ELSE <<>>])

(* field_offset, then what the getters and raw_field_cursor give access to:   *)
(* the bytes from the field's offset, the first of which is its type code.    *)
LazyField(lazy, name) ==
  LET at == SelectSeq(lazy.fields, LAMBDA e : e[1] = FieldId[name])
  IN  IF at = <<>> THEN <<>>
      ELSE Skip(lazy.body, IF at[1][2] > HeaderLen THEN at[1][2] - HeaderLen ELSE 0)

(* get_i32, get_i64, get_str and get_bytes: the value if it has that type.    *)
LazyGet(lazy, name) ==
  LET c == LazyField(lazy, name)
      t == IF c = <<>> THEN "?" ELSE TypeOf(c[1][2])
      r == IF t \in {"Int", "Long"} THEN ReadWords(Tail(c), Words[t]) ELSE
           IF t \in {"String", "ArrByte"} THEN ReadString(Tail(c)) ELSE Failed
  IN  IF ~r.ok THEN Null
      ELSE V(IF t = "ArrByte" THEN "Binary" ELSE t,
             IF t \in {"Int", "Long"} THEN r.v ELSE <<r.v>>)

(* is_null: a field that is not there is null as well.                        *)
LazyIsNull(lazy, name) ==
  LET c == LazyField(lazy, name) IN c = <<>> \/ c[1][2] = Code.Null
=============================================================================
