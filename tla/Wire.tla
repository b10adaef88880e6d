-------------------------------- MODULE Wire --------------------------------
(* The byte level of the thin-client protocol, what is read and written in    *)
(* loops: byte strings put together, sliced, and read by a layout             *)
(* (protocol/mod.rs and protocol/data_types.rs).                              *)
EXTENDS Cells

(* A sequence of byte strings, concatenated, and a sequence of numbers,       *)
(* summed; by halves, which keeps the recursion shallow.                      *)
RECURSIVE CatOf(_, _, _), TotalOf(_, _, _)
CatOf(s, from, to) ==
  IF from > to THEN <<>> ELSE IF from = to THEN s[from] ELSE
  LET mid == (from + to) \div 2 IN CatOf(s, from, mid) \o CatOf(s, mid + 1, to)
TotalOf(s, from, to) ==
  IF from > to THEN 0 ELSE IF from = to THEN s[from] ELSE
  LET mid == (from + to) \div 2 IN TotalOf(s, from, mid) + TotalOf(s, mid + 1, to)
Cat(s) == CatOf(s, 1, Len(s))
Total(s) == TotalOf(s, 1, Len(s))

(* Number of bytes of a byte string.                                          *)
Bytes(c) == Total([i \in 1 .. Len(c) |-> c[i][1]])

(* The cells that start n bytes into c (Cursor::set_position, slicing).       *)
RECURSIVE Skip(_, _)
Skip(c, n) == IF n <= 0 \/ c = <<>> THEN c ELSE Skip(Tail(c), n - c[1][1])

(* The first n bytes of c (read_exact into a buffer of n bytes).              *)
RECURSIVE First(_, _)
First(c, n) ==
  IF n <= 0 \/ c = <<>> THEN <<>> ELSE <<c[1]>> \o First(Tail(c), n - c[1][1])

(* A record read field by field in the order of its layout.  An item of a     *)
(* layout is <<"int", w>>, <<"str">>, <<"opt">> (a string that may be null),  *)
(* <<"rep", l>> (a count, then as many records of layout l) or                *)
(* <<"if", l>> (a bool, then, when it is set, a count and records of l).      *)
RECURSIVE Parse(_, _), ParseRep(_, _, _)
Join(v, s) == IF s.ok THEN Read(<<v>> \o s.v, s.rest) ELSE Failed
Repeated(layout, n) == IF n.ok THEN ParseRep(layout, n.v, n.rest) ELSE Failed
Present(r) == IF r.ok THEN Read(<<TRUE, r.v>>, r.rest) ELSE Failed
Flagged(layout, b) ==
  IF ~b.ok THEN Failed
  ELSE IF b.v = 0 THEN Read(<<FALSE, <<>>>>, b.rest)
  ELSE Present(Repeated(layout, Take(b.rest, 4)))

ParseItem(item, c) ==
  CASE item[1] = "int" -> Take(c, item[2])
    [] item[1] = "str" -> NotNull(ReadOptStr(c))
    [] item[1] = "opt" -> ReadOptStr(c)
    [] item[1] = "rep" -> Repeated(item[2], Take(c, 4))
    [] item[1] = "if"  -> Flagged(item[2], Take(c, 1))

ParseRest(layout, r) == IF r.ok THEN Join(r.v, Parse(layout, r.rest)) ELSE Failed
Parse(layout, c) ==
  IF layout = <<>> THEN Read(<<>>, c)
  ELSE ParseRest(Tail(layout), ParseItem(Head(layout), c))

ParseMore(layout, n, r) == IF r.ok THEN Join(r.v, ParseRep(layout, n, r.rest)) ELSE Failed
ParseRep(layout, n, c) ==
  IF n <= 0 THEN Read(<<>>, c) ELSE ParseMore(layout, n - 1, Parse(layout, c))
=============================================================================
