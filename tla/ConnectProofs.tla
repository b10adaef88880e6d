----------------------------- MODULE ConnectProofs -----------------------------
(* Connecting, for any configurations, any answers of the server and any      *)
(* frames: a client that gives up has been refused by every endpoint, the     *)
(* handshake negotiates what both sides mean, and every frame is read as it   *)
(* was written.  The recursive functions of Connect are reasoned about by     *)
(* induction, which rests on the least element of a set of numbers.           *)
EXTENDS Connect, WellFoundedInduction, TLAPS

----------------------------------------------------------------------------
(* Induction over the natural numbers, in terms of sets.                      *)

\* A set of natural numbers that is not empty has a least element.
LEMMA Least ==
    ASSUME NEW T, T \subseteq Nat, T # {}
    PROVE  \E x \in T : \A y \in T : x <= y
<1> DEFINE R == {p \in Nat \X Nat : p[1] < p[2]}
<1>1. R = OpToRel(<, Nat)
  BY DEF OpToRel
<1>2. IsWellFoundedOn(R, Nat)
  BY <1>1, NatLessThanWellFounded
<1>3. \E x \in T : \A y \in T : ~ (<<y, x>> \in R)
  <2> HIDE DEF R
  <2> QED BY <1>2, WFMin
<1>4. PICK x \in T : \A y \in T : ~ (<<y, x>> \in R)
  BY <1>3
<1>5. ASSUME NEW y \in T PROVE x <= y
  <2>1. ~ (y < x)
    BY <1>4, <1>5
  <2> QED BY <2>1
<1> QED BY <1>5

\* A set with 0 and with the successor of each of its numbers has all of them.
LEMMA Induct ==
    ASSUME NEW S, 0 \in S, \A n \in Nat : n \in S => n + 1 \in S
    PROVE  Nat \subseteq S
<1> SUFFICES ASSUME Nat \ S # {} PROVE FALSE
  OBVIOUS
<1>1. PICK x \in Nat \ S : \A y \in Nat \ S : x <= y
  BY Least
<1>2. x # 0 /\ x - 1 \in Nat /\ x - 1 \in S
  BY <1>1
<1> QED BY <1>1, <1>2

\* The functions that start with x and go on as F says.
Recursions(S, x, F, n) ==
  {g \in [0..n -> S] : g[0] = x /\ \A k \in 1..n : g[k] = F[<<g[k - 1], k>>]}

\* There is such a function.
LEMMA RecursionExists ==
    ASSUME NEW S, NEW x \in S, NEW F \in [S \X Nat -> S], NEW n \in Nat
    PROVE  Recursions(S, x, F, n) # {}
<1> DEFINE D(m, g) == g[0] = x /\ \A k \in 1..m : g[k] = F[<<g[k - 1], k>>]
           T == {m \in Nat : \E g \in [0..m -> S] : D(m, g)}
<1>1. 0 \in T
  <2> DEFINE g == [k \in 0..0 |-> x]
  <2>1. g \in [0..0 -> S] /\ D(0, g)
    OBVIOUS
  <2> QED BY <2>1
<1>2. ASSUME NEW m \in Nat, m \in T PROVE m + 1 \in T
  <2>1. PICK g \in [0..m -> S] : D(m, g)
    BY <1>2
  <2> DEFINE y == F[<<g[m], m + 1>>]
             h == [k \in 0..(m + 1) |-> IF k = m + 1 THEN y ELSE g[k]]
  <2>2. y \in S
    <3>1. g[m] \in S /\ m + 1 \in Nat
      BY <2>1
    <3> QED BY <3>1
  <2> HIDE DEF y
  <2>3. h \in [0..(m + 1) -> S] /\ h[0] = x
    BY <2>1, <2>2
  <2>4. ASSUME NEW k \in 1..(m + 1) PROVE h[k] = F[<<h[k - 1], k>>]
    <3>1. CASE k = m + 1
      <4>1. h[k] = y /\ h[k - 1] = g[m]
        BY <3>1
      <4> QED BY <3>1, <4>1 DEF y
    <3>2. CASE k \in 1..m
      <4>1. h[k] = g[k] /\ h[k - 1] = g[k - 1]
        BY <3>2
      <4> QED BY <2>1, <3>2, <4>1
    <3> QED BY <3>1, <3>2
  <2> HIDE DEF h
  <2>5. D(m + 1, h)
    BY <2>3, <2>4
  <2> QED BY <2>3, <2>5
<1> HIDE DEF T
<1>3. Nat \subseteq T
  BY <1>1, <1>2, Induct
<1> QED BY <1>3 DEF T, Recursions

\* An index of the list, taken round.
LEMMA Round ==
    ASSUME NEW n \in Nat \ {0}, NEW x \in 0..(2 * n - 1)
    PROVE  x % n = IF x < n THEN x ELSE x - n
OBVIOUS

----------------------------------------------------------------------------
(* Cells: what is written first is read first.                                *)

\* A number, or the bytes of a bitmap, with its width.
Content == Int \cup Seq(SUBSET Int)
Cell == Int \X Content
ByteStr == Seq(Cell)

\* The result of a reader that succeeds.
LEMMA ReadIs ==
    ASSUME NEW v, NEW rest
    PROVE  Read(v, rest).ok /\ Read(v, rest).v = v /\ Read(v, rest).rest = rest
BY DEF Read

\* The codes that the handshake and the frames write.
LEMMA Codes ==
    Code.String = 9 /\ Code.Null = 101 /\ Code.ArrByte = 12 /\ Code.Uuid = 10
BY DEF Code

\* One byte string behind another.
Then(b, c) == b \o c

LEMMA NumIs ==
    ASSUME NEW w \in Int, NEW v \in Content, NEW c \in ByteStr
    PROVE  /\ Num(w, v) \in ByteStr
           /\ Then(Num(w, v), c) \in ByteStr
           /\ Then(Num(w, v), c) # <<>>
           /\ Then(Num(w, v), c)[1] = <<w, v>>
           /\ Tail(Then(Num(w, v), c)) = c
<1>1. <<w, v>> \in Cell
  BY DEF Cell
<1> DEFINE n == <<w, v>>
<1>2. n \in Cell
  BY <1>1
<1> HIDE DEF n
<1>3. <<n>> \in Seq(Cell) /\ <<n>> \o c \in Seq(Cell) /\ (<<n>> \o c)[1] = n /\ <<n>> \o c # <<>>
  BY <1>2 DEF ByteStr
<1>4. Tail(<<n>> \o c) = c
  BY <1>2 DEF ByteStr
<1> QED BY <1>3, <1>4 DEF Num, Then, ByteStr, n

\* An integer is read with the width it was written with.
LEMMA TakeNum ==
    ASSUME NEW w \in Int, NEW v \in Content, NEW c \in ByteStr
    PROVE  Take(Then(Num(w, v), c), w) = Read(v, c)
<1>1. Then(Num(w, v), c)[1][1] = w /\ Then(Num(w, v), c)[1][2] = v
  BY NumIs
<1> QED BY NumIs, <1>1 DEF Take

LEMMA IntIsContent == Int \subseteq Content
BY DEF Content

\* The same of a byte string that is read from its first integer on.
LEMMA TakeInt ==
    ASSUME NEW w \in Int, NEW v \in Int, NEW c \in ByteStr
    PROVE  /\ Num(w, v) \in ByteStr
           /\ Then(Num(w, v), c) \in ByteStr
           /\ Then(Num(w, v), c) # <<>>
           /\ Take(Then(Num(w, v), c), w) = Read(v, c)
<1>1. v \in Content
  BY IntIsContent
<1> QED BY <1>1, NumIs, TakeNum

\* Byte strings are put together in any order.
LEMMA Assoc ==
    ASSUME NEW a \in ByteStr, NEW b \in ByteStr, NEW c \in ByteStr
    PROVE  Then(Then(a, b), c) = Then(a, Then(b, c)) /\ Then(a, b) \in ByteStr
BY DEF ByteStr, Then

\* The empty one makes no difference.
LEMMA Empty ==
    ASSUME NEW c \in ByteStr
    PROVE  <<>> \in ByteStr /\ Then(<<>>, c) = c /\ Then(c, <<>>) = c
BY DEF ByteStr, Then

\* The first integer of a longer byte string, with more behind it.
LEMMA TakeFirst ==
    ASSUME NEW w \in Int, NEW v \in Int, NEW b \in ByteStr, NEW c \in ByteStr
    PROVE  /\ Then(Num(w, v), b) \in ByteStr
           /\ Then(Then(Num(w, v), b), c) = Then(Num(w, v), Then(b, c))
           /\ Then(Then(Num(w, v), b), c) # <<>>
           /\ Then(Then(Num(w, v), b), c) \in ByteStr
           /\ Take(Then(Then(Num(w, v), b), c), w) = Read(v, Then(b, c))
<1> DEFINE n == Num(w, v)
<1>1. n \in ByteStr /\ Then(n, b) \in ByteStr
  BY TakeInt
<1>2. Then(b, c) \in ByteStr
  BY Assoc
<1>3. Then(n, Then(b, c)) \in ByteStr /\ Then(n, Then(b, c)) # <<>> /\ Take(Then(n, Then(b, c)), w) = Read(v, Then(b, c))
  BY <1>2, TakeInt
<1>4. Then(Then(n, b), c) = Then(n, Then(b, c))
  <2> HIDE DEF n
  <2> QED BY <1>1, Assoc
<1> QED BY <1>1, <1>3, <1>4

\* As many bytes are read as were written, none when there are none.
LEMMA TakeRawIs ==
    ASSUME NEW k \in Nat, NEW c \in ByteStr
    PROVE  /\ Raw(k) \in ByteStr /\ Then(Raw(k), c) \in ByteStr
           /\ TakeRaw(Then(Raw(k), c), k) = Read(k, c)
<1>1. CASE k = 0
  <2>1. Raw(k) = <<>> /\ <<>> \in ByteStr /\ Then(<<>>, c) = c
    BY <1>1, Empty DEF Raw
  <2> QED BY <1>1, <2>1 DEF TakeRaw
<1>2. CASE k # 0
  <2>1. k \in Int
    OBVIOUS
  <2> QED BY <1>2, <2>1, TakeInt DEF Raw, TakeRaw
<1> QED BY <1>1, <1>2

\* write_string and read_string.
LEMMA ReadStringIs ==
    ASSUME NEW k \in Nat, NEW c \in ByteStr
    PROVE  /\ WriteString(k) \in ByteStr /\ Then(WriteString(k), c) \in ByteStr
           /\ ReadString(Then(WriteString(k), c)) = Read(k, c)
<1>1. Raw(k) \in ByteStr /\ Then(Raw(k), c) \in ByteStr
  BY TakeRawIs
<1>2. 4 \in Int /\ k \in Int
  OBVIOUS
<1>3. WriteString(k) = Then(Num(4, k), Raw(k))
  BY DEF WriteString, Then
<1>6. /\ WriteString(k) \in ByteStr /\ Then(WriteString(k), c) \in ByteStr
      /\ Take(Then(WriteString(k), c), 4) = Read(k, Then(Raw(k), c))
  BY <1>1, <1>2, <1>3, TakeFirst
<1>4. ReadString(Then(WriteString(k), c)) = Sized(k, TakeRaw(Then(Raw(k), c), k))
  BY <1>6, ReadIs DEF ReadString, Text
<1>5. Sized(k, Read(k, c)) = Read(k, c)
  BY ReadIs DEF Sized
<1> QED BY <1>6, <1>4, <1>5, TakeRawIs

\* A text with its type code, read as one that may be null or as one that may
\* not.
LEMMA ReadStrIs ==
    ASSUME NEW k \in Nat, NEW c \in ByteStr
    PROVE  /\ Str(k) \in ByteStr /\ Then(Str(k), c) \in ByteStr
           /\ Then(Str(k), c) # <<>>
           /\ Take(Then(Str(k), c), 1) = Read(Code.String, Then(WriteString(k), c))
           /\ ReadOptStr(Then(Str(k), c)) = Read(k, c)
           /\ NotNull(ReadOptStr(Then(Str(k), c))) = Read(k, c)
<1>1. WriteString(k) \in ByteStr /\ Then(WriteString(k), c) \in ByteStr
  BY ReadStringIs
<1>2. 1 \in Int /\ 9 \in Int
  OBVIOUS
<1>3. Str(k) = Then(Num(1, 9), WriteString(k))
  BY Codes DEF Str, Then
<1>4. /\ Str(k) \in ByteStr /\ Then(Str(k), c) \in ByteStr /\ Then(Str(k), c) # <<>>
      /\ Take(Then(Str(k), c), 1) = Read(9, Then(WriteString(k), c))
  BY <1>1, <1>2, <1>3, TakeFirst
<1>5. ReadOptStr(Then(Str(k), c)) = Read(k, c)
  <2> DEFINE x == Then(WriteString(k), c)
             r == Read(9, x)
  <2>1. r.ok /\ r.v = 9 /\ r.rest = x
    <3> HIDE DEF x
    <3> QED BY ReadIs
  <2>2. ReadOptStr(Then(Str(k), c)) = TypedText(r)
    BY <1>4 DEF ReadOptStr
  <2> HIDE DEF r
  <2>3. TypedText(r) = ReadString(x)
    BY <2>1, Codes DEF TypedText
  <2> QED BY <2>2, <2>3, ReadStringIs
<1>6. NotNull(Read(k, c)) = Read(k, c)
  BY ReadIs DEF NotNull, None
<1> QED BY <1>4, <1>5, <1>6, Codes

\* An error text with its type code, or Null.
LEMMA ReadErrorIs ==
    ASSUME NEW k \in Nat \cup {None}
    PROVE  /\ OptStr(k) \in ByteStr
           /\ ReadErrorString(OptStr(k)) = Read(IF k = None THEN 0 ELSE k, <<>>)
<1>1. <<>> \in ByteStr /\ 1 \in Int /\ 101 \in Int
  BY DEF ByteStr
<1>2. CASE k = None
  <2>1. OptStr(k) = Num(1, 101)
    BY <1>2, Codes DEF OptStr
  <2>2. /\ Num(1, 101) \in ByteStr
        /\ Take(Then(Num(1, 101), <<>>), 1) = Read(101, <<>>)
    <3> DEFINE e == <<>>
    <3>1. e \in ByteStr
      BY <1>1
    <3> HIDE DEF e
    <3>2. Num(1, 101) \in ByteStr /\ Take(Then(Num(1, 101), e), 1) = Read(101, e)
      BY <1>1, <3>1, TakeInt
    <3> QED BY <3>2 DEF e
  <2>3. Then(Num(1, 101), <<>>) = Num(1, 101)
    BY <2>2, Empty
  <2> QED BY <1>2, <2>1, <2>2, <2>3, ReadIs, Codes DEF ReadErrorString
<1>3. CASE k # None
  <2>1. k \in Nat /\ OptStr(k) = Str(k)
    BY <1>3 DEF OptStr
  <2>2. /\ Str(k) \in ByteStr
        /\ Take(Then(Str(k), <<>>), 1) = Read(9, Then(WriteString(k), <<>>))
        /\ ReadString(Then(WriteString(k), <<>>)) = Read(k, <<>>)
    BY <1>1, <2>1, ReadStrIs, ReadStringIs, Codes
  <2>3. Then(Str(k), <<>>) = Str(k)
    BY <2>2, Empty
  <2>4. ReadErrorString(Str(k)) = ReadString(Then(WriteString(k), <<>>))
    BY <2>2, <2>3, ReadIs, Codes DEF ReadErrorString
  <2> QED BY <1>3, <2>1, <2>2, <2>4
<1> QED BY <1>2, <1>3

----------------------------------------------------------------------------
(* Frames.                                                                    *)

\* One more integer is read behind the ones before it.
LEMMA IntOfIs ==
    ASSUME NEW v, NEW w \in Int, NEW x \in Int, NEW c \in ByteStr
    PROVE  IntOf(Read(v, Then(Num(w, x), c)), w) = Read(Append(v, x), c)
<1> DEFINE b == Then(Num(w, x), c)
           r == Read(v, b)
           t == Read(x, c)
<1>1. Take(b, w) = t
  BY TakeInt
<1>2. t.ok /\ t.v = x /\ t.rest = c
  BY ReadIs
<1> HIDE DEF b
<1>3. r.ok /\ r.v = v /\ r.rest = b
  BY ReadIs
<1> HIDE DEF r, t
<1>4. IntOf(r, w) = Read(Append(v, x), c)
  BY <1>1, <1>2, <1>3 DEF IntOf, Pushed
<1> QED BY <1>4 DEF r, b

\* An optional integer that is not there counts as 0.
LEMMA MoreIs ==
    ASSUME NEW v, NEW w \in Int, NEW x \in Int, NEW c \in ByteStr
    PROVE  /\ More(Read(v, Then(Num(w, x), c)), TRUE, w) = Read(Append(v, x), c)
           /\ More(Read(v, c), FALSE, w) = Read(Append(v, 0), c)
<1>1. More(Read(v, Then(Num(w, x), c)), TRUE, w) = Read(Append(v, x), c)
  BY IntOfIs DEF More
<1> DEFINE r == Read(v, c)
           t == Read(0, c)
<1>2. r.ok /\ r.v = v /\ r.rest = c /\ t.ok /\ t.v = 0 /\ t.rest = c
  BY ReadIs
<1>3. More(r, FALSE, w) = Pushed(r, t)
  BY <1>2 DEF More
<1> HIDE DEF r, t
<1>4. Pushed(r, t) = Read(Append(v, 0), c)
  BY <1>2 DEF Pushed
<1> QED BY <1>1, <1>3, <1>4 DEF r

\* The flags of a frame say which of its parts follow.
LEMMA Flags ==
    ASSUME NEW f \in Frames
    PROVE  /\ FlagBits(f) \in Int
           /\ HasFlag(FlagBits(f), 1) = (f.status # 0)
           /\ HasFlag(FlagBits(f), 2) = (f.version # 0)
           /\ HasFlag(FlagBits(f), 4) = (f.opcode # 0)
BY DEF FlagBits, HasFlag

\* The fields of a frame.
LEMMA FrameFields ==
    ASSUME NEW f \in Frames
    PROVE  /\ f.id \in Int /\ f.version \in Int /\ f.opcode \in Int /\ f.status \in Int
           /\ f.text \in Nat \cup {None} /\ f.payload \in ByteStr
           /\ f.status = 0 => f.text = 0
           /\ f.status # 0 => f.payload = <<>>
<1>1. /\ f.id \in Int /\ f.version \in Int /\ f.opcode \in Int /\ f.status \in Int
      /\ f.text \in Nat \cup {None} /\ f.payload \in Seq(Nat \X Int)
      /\ f.status = 0 => f.text = 0
      /\ f.status # 0 => f.payload = <<>>
  BY FramesAssumption
<1>2. Nat \X Int \subseteq Cell
  BY DEF Cell, Content
<1>3. f.payload \in ByteStr
  <2>1. ASSUME NEW A, NEW B, A \subseteq B, NEW s \in Seq(A) PROVE s \in Seq(B)
    BY <2>1
  <2> QED BY <1>1, <1>2, <2>1 DEF ByteStr
<1> QED BY <1>1, <1>3

\* A frame, with a null text read as an empty one.
LEMMA FrameIs ==
    ASSUME NEW f \in Frames, NEW x
    PROVE  [f EXCEPT !.text = x]
             = [id |-> f.id, version |-> f.version, opcode |-> f.opcode,
                status |-> f.status, text |-> x, payload |-> f.payload]
BY FramesAssumption

\* Six integers, read one after the other.
LEMMA SixIntegers ==
    ASSUME NEW a, NEW g, NEW t, NEW z, NEW o, NEW s
    PROVE  LET v == Append(Append(Append(Append(Append(Append(<<>>, a), g), t), z), o), s)
           IN /\ v[1] = a /\ v[2] = g /\ v[3] = t /\ v[5] = o /\ v[6] = s
              /\ Append(Append(<<>>, a), g)[2] = g
OBVIOUS

\* Five byte strings, one after the other.
LEMMA FiveParts ==
    ASSUME NEW p \in ByteStr, NEW q \in ByteStr, NEW x \in ByteStr,
           NEW y \in ByteStr, NEW z \in ByteStr
    PROVE  /\ Then(Then(Then(Then(p, q), x), y), z) = Then(p, Then(q, Then(x, Then(y, z))))
           /\ Then(x, Then(y, z)) \in ByteStr
<1> DEFINE pq == Then(p, q)
           yz == Then(y, z)
           xyz == Then(x, yz)
<1>1. pq \in ByteStr /\ yz \in ByteStr
  BY Assoc
<1>2. Then(pq, x) \in ByteStr /\ xyz \in ByteStr
  <2> HIDE DEF pq, yz
  <2> QED BY <1>1, Assoc
<1>3. Then(Then(Then(pq, x), y), z) = Then(Then(pq, x), yz)
  <2> HIDE DEF pq
  <2> QED BY <1>2, Assoc
<1>4. Then(Then(pq, x), yz) = Then(pq, xyz)
  <2> HIDE DEF pq, yz
  <2> QED BY <1>1, Assoc
<1>5. Then(pq, xyz) = Then(p, Then(q, xyz))
  <2> HIDE DEF xyz
  <2> QED BY <1>2, Assoc
<1> QED BY <1>2, <1>3, <1>4, <1>5

LEMMA Widths == 0 \in Int /\ 1 \in Int /\ 2 \in Int /\ 4 \in Int /\ 8 \in Int
OBVIOUS

\* The opcode of a notification: one integer, or none.
LEMMA OptionalOpcode ==
    ASSUME NEW v, NEW x \in Int, NEW c \in ByteStr,
           NEW b, b = (x # 0), NEW part, part = IF x = 0 THEN <<>> ELSE Num(2, x)
    PROVE  /\ part \in ByteStr
           /\ More(Read(v, Then(part, c)), b, 2) = Read(Append(v, x), c)
<1>0. <<>> \in ByteStr /\ Then(<<>>, c) = c
  BY Empty
<1>1. Num(2, x) \in ByteStr
  BY Widths, TakeInt
<1>2. CASE x = 0
  <2>1. More(Read(v, c), FALSE, 2) = Read(Append(v, x), c)
    BY <1>2, Widths, MoreIs, ZenonT(30)
  <2> QED BY <1>0, <1>2, <2>1
<1>3. CASE x # 0
  <2>1. More(Read(v, Then(Num(2, x), c)), TRUE, 2) = Read(Append(v, x), c)
    BY Widths, IntOfIs DEF More
  <2> QED BY <1>1, <1>3, <2>1
<1> QED BY <1>2, <1>3

\* The topology version: two integers, or none.
LEMMA OptionalVersion ==
    ASSUME NEW v, NEW x \in Int, NEW c \in ByteStr,
           NEW b, b = (x # 0), NEW part, part = IF x = 0 THEN <<>> ELSE Then(Num(8, x), Num(4, 0))
    PROVE  /\ part \in ByteStr
           /\ More(More(Read(v, Then(part, c)), b, 8), b, 4) = Read(Append(Append(v, x), 0), c)
<1> DEFINE n == Num(8, x)
           k == Num(4, 0)
           y == Append(v, x)
<1>1. n \in ByteStr /\ k \in ByteStr /\ Then(n, k) \in ByteStr /\ Then(k, c) \in ByteStr
  BY Widths, TakeInt
<1>2. CASE x = 0
  <2>1. More(Read(v, c), FALSE, 8) = Read(y, c)
    BY <1>2, Widths, MoreIs, ZenonT(30)
  <2>2. More(Read(y, c), FALSE, 4) = Read(Append(y, 0), c)
    <3> HIDE DEF y
    <3> QED BY Widths, MoreIs, ZenonT(30)
  <2>3. <<>> \in ByteStr /\ Then(<<>>, c) = c
    BY Empty
  <2> QED BY <1>2, <2>1, <2>2, <2>3
<1>3. CASE x # 0
  <2>1. More(Read(v, Then(n, Then(k, c))), TRUE, 8) = Read(y, Then(k, c))
    <3> DEFINE z == Then(k, c)
    <3>1. z \in ByteStr
      BY <1>1
    <3> HIDE DEF z
    <3>2. More(Read(v, Then(n, z)), TRUE, 8) = Read(y, z)
      BY <3>1, Widths, IntOfIs DEF More
    <3> QED BY <3>2 DEF z
  <2>2. More(Read(y, Then(k, c)), TRUE, 4) = Read(Append(y, 0), c)
    <3> HIDE DEF y
    <3> QED BY Widths, MoreIs, ZenonT(30)
  <2>3. Then(Then(n, k), c) = Then(n, Then(k, c))
    <3> HIDE DEF n, k
    <3> QED BY <1>1, Assoc
  <2> QED BY <1>1, <1>3, <2>1, <2>2, <2>3
<1> QED BY <1>2, <1>3

\* The end of a frame: its payload, or a status and a text.
LEMMA StatusOrPayload ==
    ASSUME NEW v, NEW s \in Int, NEW x \in ByteStr, NEW q \in ByteStr,
           NEW b, b = (s # 0), NEW part, part = IF s = 0 THEN q ELSE Then(Num(4, s), x)
    PROVE  /\ part \in ByteStr
           /\ More(Read(v, part), b, 4) = Read(Append(v, s), IF s = 0 THEN q ELSE x)
<1>1. Then(Num(4, s), x) \in ByteStr
  BY Widths, TakeInt
<1>2. More(Read(v, Then(Num(4, s), x)), TRUE, 4) = Read(Append(v, s), x)
  BY Widths, IntOfIs DEF More
<1>5. More(Read(v, q), FALSE, 4) = Read(Append(v, 0), q)
  BY Widths, MoreIs, ZenonT(30)
<1>3. CASE s = 0
  BY <1>5, <1>3
<1>4. CASE s # 0
  BY <1>1, <1>2, <1>4
<1> QED BY <1>3, <1>4

\* A frame is read as it was written.
LEMMA FrameRead ==
    ASSUME NEW f \in Frames
    PROVE  ReadFrame(WriteFrame(f)) = [f EXCEPT !.text = IF @ = None THEN 0 ELSE @]
<1> DEFINE g == FlagBits(f)
           text == IF f.text = None THEN 0 ELSE f.text
           last == IF f.status = 0 THEN f.payload ELSE OptStr(f.text)
           body == IF f.status = 0 THEN f.payload ELSE Then(Num(4, f.status), OptStr(f.text))
           op == IF f.opcode = 0 THEN <<>> ELSE Num(2, f.opcode)
           top == IF f.version = 0 THEN <<>> ELSE Then(Num(8, f.version), Num(4, 0))
           a == f.id   s == f.status   t == f.version   o == f.opcode
<1>0. /\ g \in Int /\ HasFlag(g, 1) = (s # 0) /\ HasFlag(g, 2) = (t # 0) /\ HasFlag(g, 4) = (o # 0)
      /\ a \in Int /\ s \in Int /\ t \in Int /\ o \in Int /\ f.text \in Nat \cup {None}
      /\ f.payload \in ByteStr /\ (s = 0 => f.text = 0) /\ (s # 0 => f.payload = <<>>)
  BY Flags, FrameFields
<1>1. OptStr(f.text) \in ByteStr /\ ReadErrorString(OptStr(f.text)) = Read(text, <<>>)
  <2>1. f.text \in Nat \cup {None}
    BY <1>0
  <2> QED BY <2>1, ReadErrorIs
<1> DEFINE v1 == Append(<<>>, a)
           v2 == Append(v1, g)
           v3 == Append(v2, t)
           v4 == Append(v3, 0)
           v5 == Append(v4, o)
           v6 == Append(v5, s)
           c3 == Then(top, Then(op, body))
<1>2. body \in ByteStr /\ More(Read(v5, body), HasFlag(g, 1), 4) = Read(v6, last)
  <2> DEFINE x == OptStr(f.text)  q == f.payload
  <2> HIDE DEF v5, x, q
  <2>1. body = (IF s = 0 THEN q ELSE Then(Num(4, s), x)) /\ last = (IF s = 0 THEN q ELSE x)
    BY DEF x, q
  <2>2. x \in ByteStr /\ q \in ByteStr
    BY <1>0, <1>1 DEF x, q
  <2> DEFINE h == HasFlag(g, 1)
  <2>3. s \in Int /\ h = (s # 0)
    BY <1>0
  <2> HIDE DEF body, last, h, s
  <2>4. body \in ByteStr /\ More(Read(v5, body), h, 4) = Read(Append(v5, s), IF s = 0 THEN q ELSE x)
    BY <2>1, <2>2, <2>3, StatusOrPayload
  <2> QED BY <2>1, <2>4 DEF h
<1> HIDE DEF body
<1>3. op \in ByteStr /\ More(Read(v4, Then(op, body)), HasFlag(g, 4), 2) = Read(v5, body)
  <2>1. op = IF o = 0 THEN <<>> ELSE Num(2, o)
    OBVIOUS
  <2> DEFINE h == HasFlag(g, 4)
  <2>2. o \in Int /\ h = (o # 0) /\ 2 \in Int
    BY <1>0
  <2>3. body \in ByteStr
    BY <1>2
  <2> HIDE DEF v4, op, h, o
  <2>4. op \in ByteStr
    BY <2>1, <2>2, <2>3, OptionalOpcode
  <2>5. More(Read(v4, Then(op, body)), h, 2) = Read(Append(v4, o), body)
    BY <2>1, <2>2, <2>3, OptionalOpcode
  <2> QED BY <2>4, <2>5 DEF h
<1> HIDE DEF op
<1>4. Then(op, body) \in ByteStr
  BY <1>2, <1>3, Assoc
<1>5. top \in ByteStr /\ More(More(Read(v2, c3), HasFlag(g, 2), 8), HasFlag(g, 2), 4) = Read(v4, Then(op, body))
  <2> DEFINE y == Then(op, body)
  <2> HIDE DEF v2, y
  <2>1. y \in ByteStr
    BY <1>4 DEF y
  <2>3. top = IF t = 0 THEN <<>> ELSE Then(Num(8, t), Num(4, 0))
    OBVIOUS
  <2> HIDE DEF top
  <2>2. top \in ByteStr /\ More(More(Read(v2, Then(top, y)), HasFlag(g, 2), 8), HasFlag(g, 2), 4) = Read(v4, y)
    BY <1>0, <2>1, <2>3, OptionalVersion
  <2> QED BY <2>2 DEF y
<1> HIDE DEF top
<1>6. /\ WriteFrame(f) = Then(Num(8, a), Then(Num(2, g), c3))
      /\ c3 \in ByteStr
  <2>1. WriteFrame(f) = Then(Then(Then(Then(Num(8, a), Num(2, g)), top), op), body)
    BY DEF WriteFrame, Then, top, op, body
  <2>2. Num(8, a) \in ByteStr /\ Num(2, g) \in ByteStr
    BY <1>0, <1>2, Widths, TakeInt
  <2> DEFINE m == Num(8, a)  n == Num(2, g)
  <2> HIDE DEF m, n
  <2>3. m \in ByteStr /\ n \in ByteStr
    BY <2>2 DEF m, n
  <2>4. Then(Then(Then(Then(m, n), top), op), body) = Then(m, Then(n, c3)) /\ c3 \in ByteStr
    BY <1>2, <1>3, <1>5, <2>3, FiveParts
  <2> QED BY <2>1, <2>4 DEF m, n
<1> HIDE DEF c3
<1>7. IntOf(IntOf(Read(<<>>, WriteFrame(f)), 8), 2) = Read(v2, c3)
  <2> HIDE DEF g
  <2> DEFINE y == Then(Num(2, g), c3)
  <2>1. y \in ByteStr
    BY <1>0, <1>6, Widths, TakeInt
  <2>2. IntOf(Read(<<>>, Then(Num(8, a), y)), 8) = Read(v1, y)
    <3> DEFINE e == <<>>
    <3> HIDE DEF y, e
    <3>1. IntOf(Read(e, Then(Num(8, a), y)), 8) = Read(Append(e, a), y)
      BY <1>0, <2>1, Widths, IntOfIs
    <3> QED BY <3>1 DEF e
  <2>3. IntOf(Read(v1, Then(Num(2, g), c3)), 2) = Read(v2, c3)
    <3> HIDE DEF v1
    <3> QED BY <1>0, <1>6, Widths, IntOfIs
  <2> QED BY <1>6, <2>2, <2>3
<1> DEFINE r2 == Read(v2, c3)
           r6 == Read(v6, last)
<1>8. v2[2] = g /\ v6[1] = a /\ v6[2] = g /\ v6[3] = t /\ v6[5] = o /\ v6[6] = s
  <2> HIDE DEF g, a, t, o, s
  <2> QED BY SixIntegers
<1> HIDE DEF v2, v4, v5, v6, g, last
<1>9. r2.v = v2 /\ r6.ok /\ r6.v = v6 /\ r6.rest = last
  BY ReadIs
<1>10. ReadFrame(WriteFrame(f)) = FrameText(r6)
  <2>1. ReadFrame(WriteFrame(f)) = FrameParts(r2)
    BY <1>7 DEF ReadFrame
  <2> HIDE DEF r6
  <2>2. r2.v[2] = g
    BY <1>8, <1>9
  <2>3. FrameParts(r2) = FrameText(More(More(More(More(r2, HasFlag(g, 2), 8), HasFlag(g, 2), 4), HasFlag(g, 4), 2), HasFlag(g, 1), 4))
    BY <1>0, <2>2 DEF FrameParts
  <2> QED BY <1>2, <1>3, <1>5, <2>1, <2>3 DEF r6
<1>11. FrameText(r6) = [id |-> a, version |-> t, opcode |-> o, status |-> s, text |-> text, payload |-> f.payload]
  <2> DEFINE e == ReadErrorString(r6.rest)
  <2>1. FrameText(r6) = FrameOf(r6, e)
    BY <1>9 DEF FrameText
  <2>2. s # 0 => e.v = text
    <3>1. s # 0 => r6.rest = OptStr(f.text)
      BY <1>9 DEF last
    <3> QED BY <1>1, <3>1, ReadIs
  <2>3. s = 0 => text = 0 /\ last = f.payload
    BY <1>0 DEF None, last
  <2> HIDE DEF e, r6, text
  <2> QED BY <1>0, <1>8, <1>9, <2>1, <2>2, <2>3 DEF FrameOf
<1> QED BY <1>10, <1>11, FrameIs

----------------------------------------------------------------------------
(* Addresses.                                                                 *)

\* The equations of Normalized.
LEMMA NormalizedEquations ==
    ASSUME NEW S, NEW p \in Seq(Seq(S))
    PROVE  \E u : /\ Normalized(p) = u[Len(p)]
                  /\ u[0] = <<>>
                  /\ \A k \in 1..Len(p) : u[k] = Then(u[k - 1], p[k])
<1> DEFINE N == Len(p)
           D(g) == g = [k \in 0..N |-> IF k = 0 THEN <<>> ELSE Then(g[k - 1], p[k])]
           u == CHOOSE g : D(g)
           F == [q \in Seq(S) \X Nat |-> IF q[2] \in 1..N THEN Then(q[1], p[q[2]]) ELSE q[1]]
<1>1. Normalized(p) = u[N]
  BY DEF Normalized, Then
<1>2. N \in Nat /\ <<>> \in Seq(S) /\ F \in [Seq(S) \X Nat -> Seq(S)]
  <2>1. ASSUME NEW q \in Seq(S) \X Nat PROVE F[q] \in Seq(S)
    BY DEF Then
  <2> QED BY <2>1
<1>3. \E g : D(g)
  <2> HIDE DEF F
  <2>1. PICK g \in [0..N -> Seq(S)] : g[0] = <<>> /\ \A k \in 1..N : g[k] = F[<<g[k - 1], k>>]
    <3> DEFINE Q == Seq(S)
               e == <<>>
    <3>1. N \in Nat /\ e \in Q /\ F \in [Q \X Nat -> Q]
      BY <1>2
    <3> HIDE DEF Q, N, e
    <3>2. Recursions(Q, e, F, N) # {}
      BY <3>1, RecursionExists
    <3> QED BY <3>2 DEF Recursions, Q, e
  <2>2. ASSUME NEW k \in 1..N PROVE g[k] = Then(g[k - 1], p[k])
    <3>1. g[k - 1] \in Seq(S) /\ k \in Nat /\ k \in 1..N
      <4>1. N \in Nat /\ k - 1 \in 0..N /\ k \in Nat
        BY <1>2
      <4> HIDE DEF N
      <4> QED BY <2>1, <4>1
    <3>2. F[<<g[k - 1], k>>] = Then(g[k - 1], p[k])
      <4> DEFINE y == g[k - 1]
      <4>1. y \in Seq(S)
        BY <3>1
      <4> HIDE DEF y
      <4>2. F[<<y, k>>] = Then(y, p[k])
        BY <3>1, <4>1 DEF F
      <4> QED BY <4>2 DEF y
    <3> QED BY <2>1, <3>2
  <2>3. D(g)
    BY <1>2, <2>1, <2>2
  <2> QED BY <2>3
<1>4. D(u)
  BY <1>3
<1> HIDE DEF u
<1>5. u[0] = <<>> /\ \A k \in 1..N : u[k] = Then(u[k - 1], p[k])
  BY <1>2, <1>4
<1> QED BY <1>1, <1>5

\* Normalized holds the elements of its lists, and nothing else.
LEMMA NormalizedIs ==
    ASSUME NEW S, NEW p \in Seq(Seq(S))
    PROVE  /\ Normalized(p) \in Seq(S)
           /\ \A i \in DOMAIN p : \A j \in DOMAIN p[i] :
                \E k \in DOMAIN Normalized(p) : Normalized(p)[k] = p[i][j]
<1> DEFINE N == Len(p)
<1>1. PICK u : /\ Normalized(p) = u[N]
               /\ u[0] = <<>>
               /\ \A k \in 1..N : u[k] = Then(u[k - 1], p[k])
  BY NormalizedEquations
<1>2. N \in Nat /\ DOMAIN p = 1..N /\ \A i \in 1..N : p[i] \in Seq(S)
  OBVIOUS
<1> DEFINE Has(n, i) == \A j \in DOMAIN p[i] : \E k \in DOMAIN u[n] : u[n][k] = p[i][j]
           Good(n) == u[n] \in Seq(S) /\ \A i \in 1..n : Has(n, i)
           T == {n \in Nat : n <= N => Good(n)}
<1>3. 0 \in T
  <2>1. u[0] \in Seq(S)
    BY <1>1
  <2>2. 1..0 = {}
    OBVIOUS
  <2> QED BY <2>1, <2>2
<1>4. ASSUME NEW n \in Nat, n \in T PROVE n + 1 \in T
  <2>1. SUFFICES ASSUME n + 1 <= N PROVE Good(n + 1)
    OBVIOUS
  <2>2. Good(n) /\ n + 1 \in 1..N
    BY <1>2, <1>4, <2>1
  <2>3. u[n + 1] = Then(u[n], p[n + 1])
    <3>1. u[n + 1] = Then(u[n + 1 - 1], p[n + 1])
      BY <1>1, <2>2
    <3>2. n + 1 - 1 = n
      OBVIOUS
    <3> QED BY <3>1, <3>2
  <2>4. p[n + 1] \in Seq(S)
    BY <1>2, <2>2
  <2>5. /\ u[n + 1] \in Seq(S)
        /\ \A j \in DOMAIN u[n] : j \in DOMAIN u[n + 1] /\ u[n + 1][j] = u[n][j]
        /\ \A j \in DOMAIN p[n + 1] :
             Len(u[n]) + j \in DOMAIN u[n + 1] /\ u[n + 1][Len(u[n]) + j] = p[n + 1][j]
    <3> DEFINE a == u[n]  b == p[n + 1]  c == u[n + 1]
    <3>1. a \in Seq(S) /\ b \in Seq(S) /\ c = a \o b
      BY <2>2, <2>3, <2>4 DEF Then
    <3> HIDE DEF a, b, c
    <3>2. /\ c \in Seq(S)
          /\ \A j \in DOMAIN a : j \in DOMAIN c /\ c[j] = a[j]
          /\ \A j \in DOMAIN b : Len(a) + j \in DOMAIN c /\ c[Len(a) + j] = b[j]
      BY <3>1
    <3> QED BY <3>2 DEF a, b, c
  <2>6. ASSUME NEW i \in 1..(n + 1) PROVE Has(n + 1, i)
    <3>1. CASE i = n + 1
      BY <2>5, <3>1
    <3>2. CASE i \in 1..n
      BY <2>2, <2>5, <3>2
    <3> QED BY <3>1, <3>2
  <2> QED BY <2>5, <2>6
<1> HIDE DEF T
<1>5. Nat \subseteq T
  BY <1>3, <1>4, Induct
<1>6. Good(N)
  BY <1>2, <1>5 DEF T
<1> QED BY <1>1, <1>2, <1>6

\* The ports of a specification.
LEMMA PortsAre ==
    ASSUME NEW k \in DOMAIN Ports
    PROVE  Ports[k][1] \in Int /\ Ports[k][2] \in Int
BY DEF Ports

\* The port specification of an address is one of them.
LEMMA SplitPort ==
    ASSUME NEW s
    PROVE  SplitHostAndPort(s).port \in DOMAIN Ports
<1>1. "default" \in DOMAIN Ports
  BY DEF Ports
<1>2. Bad.port \in DOMAIN Ports
  BY <1>1 DEF Bad
<1>3. ASSUME NEW host, NEW tail PROVE Tailed(host, tail).port \in DOMAIN Ports
  <2>1. ASSUME NEW x PROVE Split(host, x).port = x
    BY DEF Split
  <2> QED BY <1>1, <1>2, <2>1 DEF Tailed
<1>4. Split(s, "default").port \in DOMAIN Ports
  BY <1>1 DEF Split
<1> QED BY <1>2, <1>3, <1>4 DEF SplitHostAndPort

\* An address that is accepted is read as the endpoints it stands for.
LEMMA ParsedAddress ==
    ASSUME NEW s, ParseAddressSpec(s) # <<>>
    PROVE  /\ ParseAddressSpec(s) \in Seq(EndpointsOf(s))
           /\ \A e \in EndpointsOf(s) :
                \E j \in DOMAIN ParseAddressSpec(s) : ParseAddressSpec(s)[j] = e
<1> DEFINE split == SplitHostAndPort(s)
           first == Ports[split.port][1]
           last == Ports[split.port][2]
           E(p) == FormatEndpoint(split.host, p)
<1>1. first \in Int /\ last \in Int
  BY SplitPort, PortsAre
<1>2. ParseAddressSpec(s) = [i \in 1..(last - first + 1) |-> E(first + i - 1)]
  BY DEF ParseAddressSpec
<1>3. EndpointsOf(s) = {E(p) : p \in first..last}
  BY DEF EndpointsOf, ParsePorts
<1> HIDE DEF first, last, E
<1>4. first..last # {}
  <2>1. CASE first > last
    <3>1. first..last = {}
      BY <1>1, <2>1
    <3> QED BY <3>1 DEF ParseAddressSpec, ParsePorts, first, last
  <2>2. CASE ~ (first > last)
    <3>1. first \in first..last
      BY <1>1, <2>2
    <3> QED BY <3>1
  <2> QED BY <2>1, <2>2
<1>5. last - first + 1 \in Nat
  BY <1>1, <1>4
<1>6. \A i \in 1..(last - first + 1) : first + i - 1 \in first..last
  BY <1>1
<1>7. ParseAddressSpec(s) \in Seq(EndpointsOf(s))
  <2> DEFINE n == last - first + 1
             g == [i \in 1..n |-> E(first + i - 1)]
  <2>1. n \in Nat /\ \A i \in 1..n : g[i] \in EndpointsOf(s)
    BY <1>3, <1>5, <1>6
  <2>2. g \in [1..n -> EndpointsOf(s)]
    BY <2>1
  <2> HIDE DEF g, n
  <2>3. g \in Seq(EndpointsOf(s))
    BY <2>1, <2>2
  <2> QED BY <1>2, <2>3 DEF g, n
<1>8. ASSUME NEW e \in EndpointsOf(s)
      PROVE  \E j \in DOMAIN ParseAddressSpec(s) : ParseAddressSpec(s)[j] = e
  <2>1. PICK p \in first..last : e = E(p)
    BY <1>3
  <2>2. p - first + 1 \in 1..(last - first + 1) /\ first + (p - first + 1) - 1 = p
    BY <1>1, <2>1
  <2>3. ParseAddressSpec(s)[p - first + 1] = E(p)
    BY <1>2, <2>2
  <2> QED BY <1>2, <2>1, <2>2, <2>3
<1> QED BY <1>7, <1>8

\* The endpoints of a configuration.
Wanted(c) == UNION {EndpointsOf(c.addresses[i]) : i \in DOMAIN c.addresses}
Parsed(c) == [i \in DOMAIN c.addresses |-> ParseAddressSpec(c.addresses[i])]

\* A configuration whose addresses are all accepted is normalized to the
\* endpoints they stand for.
LEMMA NormalizedConf ==
    ASSUME NEW c \in Confs, \A i \in DOMAIN Parsed(c) : Parsed(c)[i] # <<>>
    PROVE  /\ Normalized(Parsed(c)) \in Seq(Wanted(c))
           /\ {Normalized(Parsed(c))[i] : i \in DOMAIN Normalized(Parsed(c))} = Wanted(c)
<1> DEFINE p == Parsed(c)
           N == Len(c.addresses)
           all == Normalized(p)
<1>1. N \in Nat /\ DOMAIN c.addresses = 1..N
  <2>1. c.addresses \in Seq(Seq(STRING))
    BY ConfsAssumption
  <2> QED BY <2>1
<1>2. ASSUME NEW i \in 1..N
      PROVE  /\ p[i] = ParseAddressSpec(c.addresses[i]) /\ p[i] # <<>>
             /\ p[i] \in Seq(Wanted(c))
  <2>1. p[i] = ParseAddressSpec(c.addresses[i]) /\ p[i] # <<>>
    BY <1>1 DEF Parsed
  <2>2. p[i] \in Seq(EndpointsOf(c.addresses[i]))
    BY <2>1, ParsedAddress
  <2>3. EndpointsOf(c.addresses[i]) \subseteq Wanted(c)
    BY <1>1 DEF Wanted
  <2>4. ASSUME NEW A, NEW B, A \subseteq B, NEW s \in Seq(A) PROVE s \in Seq(B)
    BY <2>4
  <2> QED BY <2>1, <2>2, <2>3, <2>4
<1>3. p \in Seq(Seq(Wanted(c))) /\ DOMAIN p = 1..N
  <2> DEFINE Q == Seq(Wanted(c))
  <2>1. p \in [1..N -> Q]
    BY <1>1, <1>2 DEF Parsed
  <2> HIDE DEF Q, p, N
  <2>2. p \in Seq(Q) /\ DOMAIN p = 1..N
    BY <1>1, <2>1
  <2> QED BY <2>2 DEF Q
<1>4. all \in Seq(Wanted(c))
  <2> HIDE DEF p
  <2> QED BY <1>3, NormalizedIs
<1>5. \A i \in DOMAIN p : \A j \in DOMAIN p[i] : \E k \in DOMAIN all : all[k] = p[i][j]
  <2> HIDE DEF p
  <2> QED BY <1>3, NormalizedIs
<1>6. ASSUME NEW e \in Wanted(c) PROVE e \in {all[k] : k \in DOMAIN all}
  <2>1. PICK i \in 1..N : e \in EndpointsOf(c.addresses[i])
    BY <1>1 DEF Wanted
  <2>2. PICK j \in DOMAIN p[i] : p[i][j] = e
    BY <1>2, <2>1, ParsedAddress
  <2>3. PICK k \in DOMAIN all : all[k] = p[i][j]
    BY <1>3, <1>5, <2>1, <2>2
  <2> QED BY <2>2, <2>3
<1>7. ASSUME NEW k \in DOMAIN all PROVE all[k] \in Wanted(c)
  <2> HIDE DEF all
  <2> QED BY <1>4, <1>7
<1> QED BY <1>4, <1>6, <1>7

----------------------------------------------------------------------------
(* The connection attempts.                                                   *)

\* Whether endpoint i of n was tried in a round that began with endpoint
\* start + 1 and has made that many steps.
Tried(start, step, n, i) ==
  IF i - 1 >= start THEN i - 1 - start < step ELSE i - 1 - start + n < step

\* A dial: how far the round is, and one refusal of each endpoint for each
\* round before and for this one when the endpoint was tried in it.
DialOf(d, n) ==
  /\ d \in [start : 0..(n - 1), step : 0..n, round : 0..MaxRetries, refused : [1..n -> Nat]]
  /\ \A i \in 1..n : d.refused[i] = d.round + (IF Tried(d.start, d.step, n, i) THEN 1 ELSE 0)

\* A list of the endpoints of a configuration.
Listed(c, list) ==
  /\ list \in Seq(Wanted(c)) /\ Len(list) \in Nat \ {0}
  /\ {list[i] : i \in DOMAIN list} = Wanted(c)

DialInv ==
  stage \in {"dial", "asked", "answered", "failed"} =>
    /\ Listed(conf, endpoints)
    /\ DialOf(dial, Len(endpoints))
    /\ stage \in {"asked", "answered"} => dial.step < Len(endpoints)
    /\ stage = "failed" => dial.step = Len(endpoints) /\ dial.round = MaxRetries

\* The features of a request of configuration c.
Claimed(c) ==
  (IF c.attributes # <<>> THEN {0} ELSE {}) \cup 1..19 \cup (IF c.dataCenter THEN {22, 23} ELSE {})

\* What a server that takes it answers.
AnswerTo(c, reply) ==
  IF reply.accept THEN Welcome(Claimed(c) \cap reply.bits) ELSE Refusal(reply.text, reply.status)

\* The features that a client of configuration c has from a server with bits.
Granted(c, bits) ==
  {f \in DOMAIN Feature : Feature[f] \in bits /\ (Feature[f] \in {22, 23} => c.dataCenter)}

ShakeInv ==
  /\ stage \notin {"idle", "invalid"} => conf \in Confs
  /\ stage = "asked" => wire = HandshakeRequest(conf)
  /\ stage = "answered" => peer.shake \in Replies /\ wire = AnswerTo(conf, peer.shake)
  /\ stage = "up" => link.shake.granted = Granted(conf, peer.shake.bits)

FrameInv ==
  /\ peer = [shake |-> peer.shake, frame |-> peer.frame]
  /\ link = [shake |-> link.shake, frame |-> link.frame]
  /\ stage = "frame" => peer.frame \in Frames /\ wire = WriteFrame(peer.frame)
  /\ FrameReadAsSent

\* One more step tries one more endpoint.
LEMMA TriedNext ==
    ASSUME NEW n \in Nat \ {0}, NEW start \in 0..(n - 1), NEW step \in 0..(n - 1), NEW i \in 1..n,
           NEW x, x = (IF start + step < n THEN start + step ELSE start + step - n) + 1
    PROVE  /\ i = x => ~ Tried(start, step, n, i) /\ Tried(start, step + 1, n, i)
           /\ i # x => Tried(start, step, n, i) = Tried(start, step + 1, n, i)
BY DEF Tried

\* A refusal is counted for the endpoint that was tried, and for no other.
LEMMA OneRefusal ==
    ASSUME NEW n \in Nat \ {0}, NEW d, DialOf(d, n), d.step < n,
           NEW e, e = [d EXCEPT !.step = @ + 1, !.refused[Index(d)] = @ + 1]
    PROVE  DialOf(e, n)
<1> DEFINE x == Index(d)
           y == d.start + d.step
           r == [d.refused EXCEPT ![x] = @ + 1]
<1>1. /\ d \in [start : 0..(n - 1), step : 0..n, round : 0..MaxRetries, refused : [1..n -> Nat]]
      /\ d.start \in 0..(n - 1) /\ d.step \in 0..(n - 1) /\ d.round \in 0..MaxRetries
      /\ d.refused \in [1..n -> Nat]
      /\ \A i \in 1..n : d.refused[i] = d.round + (IF Tried(d.start, d.step, n, i) THEN 1 ELSE 0)
  BY DEF DialOf
<1>2. Len(d.refused) = n
  BY <1>1
<1>3. x = (IF y < n THEN y ELSE y - n) + 1
  <2>1. d.start + d.step \in 0..(2 * n - 1)
    BY <1>1
  <2>2. x = (y % n) + 1
    BY <1>2 DEF Index
  <2>3. y % n = IF y < n THEN y ELSE y - n
    <3>1. y \in 0..(2 * n - 1)
      BY <2>1
    <3> HIDE DEF y
    <3> QED BY <3>1, Round
  <2> HIDE DEF x, y
  <2> QED BY <2>2, <2>3
<1>4. x \in 1..n
  BY <1>1, <1>3
<1> HIDE DEF x
<1>5. /\ e.start = d.start /\ e.step = d.step + 1 /\ e.round = d.round /\ e.refused = r
      /\ e \in [start : 0..(n - 1), step : 0..n, round : 0..MaxRetries, refused : [1..n -> Nat]]
  <2>1. r \in [1..n -> Nat] /\ d.step + 1 \in 0..n
    BY <1>1, <1>4
  <2>2. e = [d EXCEPT !.step = @ + 1, !.refused = r]
    BY DEF x
  <2> HIDE DEF r
  <2> QED BY <1>1, <2>1, <2>2
<1>7. ASSUME NEW i \in 1..n
      PROVE  /\ i = x => ~ Tried(d.start, d.step, n, i) /\ Tried(e.start, e.step, n, i)
             /\ i # x => Tried(d.start, d.step, n, i) = Tried(e.start, e.step, n, i)
  <2> DEFINE a == d.start  b == d.step
  <2>1. /\ a \in 0..(n - 1) /\ b \in 0..(n - 1) /\ e.start = a /\ e.step = b + 1
        /\ x = (IF a + b < n THEN a + b ELSE a + b - n) + 1
    BY <1>1, <1>3, <1>5
  <2> HIDE DEF a, b
  <2>2. /\ i = x => ~ Tried(a, b, n, i) /\ Tried(a, b + 1, n, i)
        /\ i # x => Tried(a, b, n, i) = Tried(a, b + 1, n, i)
    BY <2>1, TriedNext
  <2> QED BY <2>1, <2>2 DEF a, b
<1>6. ASSUME NEW i \in 1..n PROVE e.refused[i] = e.round + (IF Tried(e.start, e.step, n, i) THEN 1 ELSE 0)
  <2>1. CASE i = x
    <3>1. ~ Tried(d.start, d.step, n, i) /\ Tried(e.start, e.step, n, i)
      BY <1>7, <2>1
    <3>2. r[i] = d.refused[i] + 1
      BY <1>1, <2>1
    <3> QED BY <1>1, <1>5, <3>1, <3>2
  <2>2. CASE i # x
    <3>1. Tried(d.start, d.step, n, i) = Tried(e.start, e.step, n, i)
      BY <1>7, <2>2
    <3>2. r[i] = d.refused[i]
      BY <1>1, <2>2
    <3> QED BY <1>1, <1>5, <3>1, <3>2
  <2> QED BY <2>1, <2>2
<1> QED BY <1>5, <1>6 DEF DialOf

\* A round that has come to its end has tried every endpoint.
LEMMA RoundOver ==
    ASSUME NEW n \in Nat \ {0}, NEW d, DialOf(d, n), d.step = n
    PROVE  \A i \in 1..n : d.refused[i] = d.round + 1
<1>1. ASSUME NEW i \in 1..n PROVE Tried(d.start, d.step, n, i)
  BY DEF DialOf, Tried
<1> QED BY <1>1 DEF DialOf

\* The next round starts with every endpoint untried.
LEMMA RoundNext ==
    ASSUME NEW n \in Nat \ {0}, NEW d, DialOf(d, n), d.step = n, d.round < MaxRetries,
           NEW e, e = [d EXCEPT !.step = 0, !.round = @ + 1]
    PROVE  DialOf(e, n)
<1>1. /\ d \in [start : 0..(n - 1), step : 0..n, round : 0..MaxRetries, refused : [1..n -> Nat]]
      /\ d.start \in 0..(n - 1) /\ d.round \in 0..MaxRetries /\ d.round + 1 \in 0..MaxRetries
      /\ d.refused \in [1..n -> Nat]
  BY RetriesAssumption DEF DialOf
<1>2. /\ e.start = d.start /\ e.step = 0 /\ e.round = d.round + 1 /\ e.refused = d.refused
      /\ e \in [start : 0..(n - 1), step : 0..n, round : 0..MaxRetries, refused : [1..n -> Nat]]
  <2>1. 0 \in 0..n
    OBVIOUS
  <2> QED BY <1>1, <2>1
<1>3. ASSUME NEW i \in 1..n PROVE ~ Tried(e.start, e.step, n, i)
  BY <1>1, <1>2 DEF Tried
<1>4. \A i \in 1..n : e.refused[i] = e.round
  BY <1>2, RoundOver
<1> QED BY <1>1, <1>2, <1>3, <1>4 DEF DialOf

\* The first round starts with no refusal.
LEMMA RoundFirst ==
    ASSUME NEW n \in Nat \ {0}, NEW first \in 0..(n - 1), NEW d,
           d = [start |-> first, step |-> 0, round |-> 0, refused |-> [i \in 1..n |-> 0]]
    PROVE  DialOf(d, n)
<1>1. /\ d.start = first /\ d.step = 0 /\ d.round = 0 /\ d.refused = [i \in 1..n |-> 0]
      /\ d \in [start : 0..(n - 1), step : 0..n, round : 0..MaxRetries, refused : [1..n -> Nat]]
  BY RetriesAssumption
<1>2. ASSUME NEW i \in 1..n PROVE ~ Tried(d.start, d.step, n, i)
  BY <1>1 DEF Tried
<1> QED BY <1>1, <1>2 DEF DialOf

\* A start index is an index of the list.
LEMMA StartInside ==
    ASSUME NEW S, NEW list \in Seq(S), list # <<>>, NEW first \in InitialStartIndices(list)
    PROVE  Len(list) \in Nat \ {0} /\ DOMAIN list = 1..Len(list) /\ first \in 0..(Len(list) - 1)
<1>1. Len(list) \in Nat \ {0} /\ DOMAIN list = 1..Len(list)
  OBVIOUS
<1>2. LowestPortIndices(list) \subseteq 1..Len(list)
  BY <1>1 DEF LowestPortIndices
<1> HIDE DEF LowestPortIndices
<1> QED BY <1>1, <1>2 DEF InitialStartIndices

\* Configuring keeps the counts: the dial starts within the list.
LEMMA DialConfigure ==
    ASSUME NEW c \in Confs, Configure(c)
    PROVE  DialInv'
<1> DEFINE parsed == [i \in DOMAIN c.addresses |-> ParseAddressSpec(c.addresses[i])]
           all == Normalized(parsed)
<1>1. SUFFICES ASSUME stage' = "dial"
               PROVE  Listed(c, endpoints') /\ DialOf(dial', Len(endpoints'))
  <2>1. conf' = c /\ stage' \in {"dial", "invalid"}
    BY DEF Configure
  <2> QED BY <1>1, <2>1 DEF DialInv
<1>2. /\ \A i \in DOMAIN parsed : parsed[i] # <<>>
      /\ all # <<>>
      /\ \E first \in InitialStartIndices(all) :
           /\ endpoints' = all
           /\ dial' = [start |-> first, step |-> 0, round |-> 0, refused |-> [i \in DOMAIN all |-> 0]]
  BY <1>1 DEF Configure
<1>3. all \in Seq(Wanted(c)) /\ {all[i] : i \in DOMAIN all} = Wanted(c)
  BY <1>2, NormalizedConf, ZenonT(30) DEF Parsed
<1> HIDE DEF all
<1>4. PICK first \in InitialStartIndices(all) :
        /\ endpoints' = all
        /\ dial' = [start |-> first, step |-> 0, round |-> 0, refused |-> [i \in DOMAIN all |-> 0]]
  BY <1>2
<1>5. Len(all) \in Nat \ {0} /\ DOMAIN all = 1..Len(all) /\ first \in 0..(Len(all) - 1)
  BY <1>2, <1>3, StartInside
<1>6. DialOf(dial', Len(all))
  <2> DEFINE n == Len(all)
             d == [start |-> first, step |-> 0, round |-> 0, refused |-> [i \in 1..n |-> 0]]
  <2>1. dial' = d
    BY <1>4, <1>5
  <2>2. n \in Nat \ {0} /\ first \in 0..(n - 1)
    BY <1>5
  <2> HIDE DEF n
  <2>3. DialOf(d, n)
    BY <2>2, RoundFirst
  <2> QED BY <2>1, <2>3 DEF n
<1> QED BY <1>3, <1>4, <1>5, <1>6 DEF Listed

\* A refusal on the way.
LEMMA DialRefused ==
    ASSUME DialInv, stage \in {"dial", "asked", "answered"}, dial.step < Len(endpoints),
           Refused, stage' = "dial", UNCHANGED <<conf, endpoints>>
    PROVE  DialInv'
<1>1. Listed(conf, endpoints) /\ DialOf(dial, Len(endpoints))
  BY DEF DialInv
<1>2. Len(endpoints) \in Nat \ {0}
  BY <1>1 DEF Listed
<1>3. DialOf(dial', Len(endpoints))
  <2> DEFINE n == Len(endpoints)
  <2>1. n \in Nat \ {0} /\ DialOf(dial, n) /\ dial.step < n
    BY <1>1, <1>2
  <2>2. dial' = [dial EXCEPT !.step = @ + 1, !.refused[Index(dial)] = @ + 1]
    BY DEF Refused
  <2> HIDE DEF n
  <2>3. DialOf(dial', n)
    BY <2>1, <2>2, OneRefusal
  <2> QED BY <2>3 DEF n
<1> QED BY <1>1, <1>3 DEF DialInv

\* Every step keeps the counts.
LEMMA DialStep ==
    ASSUME DialInv, [CnNext]_cnVars
    PROVE  DialInv'
<1>1. CASE UNCHANGED cnVars
  BY <1>1 DEF DialInv, cnVars
<1>2. ASSUME NEW c \in Confs, Configure(c) PROVE DialInv'
  BY <1>2, DialConfigure
<1>3. CASE ConnectFails
  BY <1>3, DialRefused DEF ConnectFails
<1>4. CASE SendHandshake
  BY <1>4 DEF SendHandshake, DialInv
<1>5. ASSUME NEW reply \in Replies, AnswerHandshake(reply) PROVE DialInv'
  BY <1>5 DEF AnswerHandshake, DialInv
<1>6. CASE HandshakeFails
  <2>1. stage \in {"asked", "answered"} /\ Refused /\ stage' = "dial" /\ UNCHANGED <<conf, endpoints>>
    BY <1>6 DEF HandshakeFails
  <2>2. dial.step < Len(endpoints)
    BY <2>1 DEF DialInv
  <2> QED BY <2>1, <2>2, DialRefused
<1>7. CASE TakeWelcome
  <2>1. CASE stage' = "up"
    BY <2>1 DEF DialInv
  <2>2. CASE stage' # "up"
    <3>1. stage = "answered" /\ Refused /\ stage' = "dial" /\ UNCHANGED <<conf, endpoints>>
      BY <1>7, <2>2 DEF TakeWelcome
    <3>2. dial.step < Len(endpoints)
      BY <3>1 DEF DialInv
    <3> QED BY <3>1, <3>2, DialRefused
  <2> QED BY <2>1, <2>2
<1>8. CASE EndRound
  <2>1. /\ stage = "dial" /\ dial.step = Len(endpoints) /\ UNCHANGED <<conf, endpoints>>
        /\ Listed(conf, endpoints) /\ DialOf(dial, Len(endpoints))
    BY <1>8 DEF EndRound, DialInv
  <2>2. Len(endpoints) \in Nat \ {0} /\ dial.round \in 0..MaxRetries
    BY <2>1 DEF Listed, DialOf
  <2>3. CASE dial.round < MaxRetries
    <3>1. stage' = "dial" /\ dial' = [dial EXCEPT !.step = 0, !.round = @ + 1]
      BY <1>8, <2>1, <2>3 DEF EndRound
    <3>2. DialOf(dial', Len(endpoints))
      <4> DEFINE n == Len(endpoints)
      <4>1. n \in Nat \ {0} /\ DialOf(dial, n) /\ dial.step = n
        BY <2>1, <2>2
      <4> HIDE DEF n
      <4>2. DialOf(dial', n)
        BY <2>3, <3>1, <4>1, RoundNext
      <4> QED BY <4>2 DEF n
    <3> QED BY <2>1, <3>1, <3>2 DEF DialInv
  <2>4. CASE ~ (dial.round < MaxRetries)
    <3>1. stage' = "failed" /\ dial' = dial
      BY <1>8, <2>4 DEF EndRound
    <3>2. dial.round = MaxRetries
      BY <2>2, <2>4, RetriesAssumption
    <3> QED BY <2>1, <3>1, <3>2 DEF DialInv
  <2> QED BY <2>3, <2>4
<1>9. ASSUME NEW f \in Frames, SendFrame(f) PROVE DialInv'
  BY <1>9 DEF SendFrame, DialInv
<1>10. CASE TakeFrame
  BY <1>10 DEF TakeFrame, DialInv
<1> QED BY <1>1, <1>2, <1>3, <1>4, <1>5, <1>6, <1>7, <1>8, <1>9, <1>10 DEF CnNext

\* A client that gives up has been refused by every endpoint that its
\* addresses stand for, and by no other, once in each round, for any list of
\* addresses, any start index and any retry limit (connect_any_initial).
THEOREM GivesUpAfterEveryEndpoint == CnSpec => []GivesUpAfterAll
<1>1. CnInit => DialInv
  BY DEF CnInit, DialInv
<1>2. DialInv /\ [CnNext]_cnVars => DialInv'
  BY DialStep
<1>3. DialInv => GivesUpAfterAll
  <2>1. SUFFICES ASSUME DialInv, stage = "failed" PROVE GivesUpAfterAll
    BY DEF GivesUpAfterAll
  <2> DEFINE n == Len(endpoints)
  <2>2. /\ Listed(conf, endpoints) /\ DialOf(dial, n) /\ dial.step = n /\ dial.round = MaxRetries
    BY <2>1 DEF DialInv
  <2>3. n \in Nat \ {0} /\ DOMAIN endpoints = 1..n /\ {endpoints[i] : i \in DOMAIN endpoints} = Wanted(conf)
    BY <2>2 DEF Listed
  <2>4. \A i \in 1..n : dial.refused[i] = MaxRetries + 1
    <3> HIDE DEF n
    <3> QED BY <2>2, <2>3, RoundOver
  <2>5. DOMAIN dial.refused = 1..n
    BY <2>2 DEF DialOf
  <2> HIDE DEF n
  <2> QED BY <2>3, <2>4, <2>5 DEF GivesUpAfterAll, Wanted
<1> QED BY <1>1, <1>2, <1>3, PTL DEF CnSpec

----------------------------------------------------------------------------
(* Features.                                                                  *)

\* A bitmap.
Bitmap == Seq(SUBSET Int)

\* Setting a bit sets that bit and leaves the others as they are, however long
\* the array was.
LEMMA BitSet ==
    ASSUME NEW bytes \in Bitmap, NEW bit \in Nat
    PROVE  /\ SetFeatureBit(bytes, bit) \in Bitmap
           /\ \A b \in Nat : FeatureSupported(SetFeatureBit(bytes, bit), b)
                               <=> (b = bit \/ FeatureSupported(bytes, b))
<1> DEFINE at == (bit \div 8) + 1
           size == IF Len(bytes) > bit \div 8 THEN Len(bytes) ELSE (bit \div 8) + 1
           Old(i) == IF i <= Len(bytes) THEN bytes[i] ELSE {}
           New(i) == IF i = at THEN Old(i) \cup {bit % 8} ELSE Old(i)
           map == [i \in 1..size |-> New(i)]
<1>1. SetFeatureBit(bytes, bit) = map
  BY DEF SetFeatureBit
<1>2. /\ Len(bytes) \in Nat /\ DOMAIN bytes = 1..Len(bytes)
      /\ \A i \in 1..Len(bytes) : bytes[i] \in SUBSET Int
  BY DEF Bitmap
<1>3. bit \div 8 \in Nat /\ bit % 8 \in 0..7 /\ at \in Nat
  OBVIOUS
<1>4. size \in Nat /\ at \in 1..size /\ \A i \in 1..Len(bytes) : i \in 1..size
  BY <1>2, <1>3
<1>5. \A i \in 1..size : Old(i) \in SUBSET Int
  BY <1>2, <1>4
<1>6. map \in Bitmap /\ DOMAIN map = 1..size
  <2>1. \A i \in 1..size : New(i) \in SUBSET Int
    BY <1>3, <1>5
  <2>2. map \in [1..size -> SUBSET Int]
    BY <2>1
  <2> HIDE DEF map, size
  <2> QED BY <1>4, <2>2 DEF Bitmap
<1>7. ASSUME NEW b \in Nat
      PROVE  FeatureSupported(map, b) <=> (b = bit \/ FeatureSupported(bytes, b))
  <2> DEFINE i == (b \div 8) + 1
  <2>1. i \in Nat /\ i >= 1
    OBVIOUS
  <2>2. i = at /\ b % 8 = bit % 8 <=> b = bit
    OBVIOUS
  <2>3. FeatureSupported(map, b) <=> i \in 1..size /\ b % 8 \in New(i)
    BY <1>6 DEF FeatureSupported
  <2>4. FeatureSupported(bytes, b) <=> i \in 1..Len(bytes) /\ b % 8 \in bytes[i]
    BY <1>2 DEF FeatureSupported
  <2> HIDE DEF i, at, size
  <2>5. CASE i \in 1..Len(bytes)
    <3>1. i \in 1..size /\ Old(i) = bytes[i]
      BY <1>2, <1>4, <2>1, <2>5
    <3> QED BY <2>2, <2>3, <2>4, <2>5, <3>1
  <2>6. CASE i \notin 1..Len(bytes)
    <3>1. Old(i) = {}
      BY <1>2, <2>1, <2>6
    <3> QED BY <1>4, <2>2, <2>3, <2>4, <2>6, <3>1
  <2> QED BY <2>5, <2>6
<1> QED BY <1>1, <1>6, <1>7

\* The equations of SetFeatureBits.
LEMMA BitsEquations ==
    ASSUME NEW bits
    PROVE  \E u : /\ SetFeatureBits(bits) = u[32]
                  /\ u[0] = <<>>
                  /\ \A k \in 1..32 :
                       u[k] = IF k - 1 \in bits THEN SetFeatureBit(u[k - 1], k - 1) ELSE u[k - 1]
<1> DEFINE G(y, k) == IF k - 1 \in bits THEN SetFeatureBit(y, k - 1) ELSE y
           D(g) == g = [k \in 0..32 |-> IF k = 0 THEN <<>> ELSE G(g[k - 1], k)]
           u == CHOOSE g : D(g)
           F == [q \in Bitmap \X Nat |-> IF q[2] \in 1..32 THEN G(q[1], q[2]) ELSE q[1]]
           e == <<>>
<1>1. SetFeatureBits(bits) = u[32]
  BY DEF SetFeatureBits
<1>2. e \in Bitmap /\ F \in [Bitmap \X Nat -> Bitmap]
  <2>1. e \in Bitmap
    BY DEF Bitmap
  <2>2. ASSUME NEW q \in Bitmap \X Nat PROVE F[q] \in Bitmap
    <3>1. CASE q[2] \in 1..32
      <4>1. q[1] \in Bitmap /\ q[2] - 1 \in Nat
        BY <3>1
      <4> QED BY <3>1, <4>1, BitSet
    <3>2. CASE q[2] \notin 1..32
      BY <3>2
    <3> QED BY <3>1, <3>2
  <2> QED BY <2>1, <2>2
<1>3. \E g : D(g)
  <2>1. PICK g \in [0..32 -> Bitmap] : g[0] = e /\ \A k \in 1..32 : g[k] = F[<<g[k - 1], k>>]
    <3> HIDE DEF F, e
    <3>1. Recursions(Bitmap, e, F, 32) # {}
      BY <1>2, RecursionExists
    <3> QED BY <3>1 DEF Recursions
  <2>2. ASSUME NEW k \in 1..32 PROVE g[k] = G(g[k - 1], k)
    <3> DEFINE y == g[k - 1]
    <3>1. y \in Bitmap /\ k \in Nat
      <4>1. k - 1 \in 0..32 /\ k \in Nat
        OBVIOUS
      <4> HIDE DEF F
      <4> QED BY <4>1
    <3> HIDE DEF y
    <3>2. F[<<y, k>>] = G(y, k)
      BY <3>1
    <3> HIDE DEF F, G
    <3>3. g[k] = F[<<g[k - 1], k>>]
      BY <2>1, ZenonT(30)
    <3> QED BY <3>2, <3>3 DEF y
  <2> HIDE DEF G
  <2>3. D(g)
    <3>1. g = [k \in 0..32 |-> g[k]]
      OBVIOUS
    <3>2. ASSUME NEW k \in 0..32 PROVE g[k] = IF k = 0 THEN <<>> ELSE G(g[k - 1], k)
      <4>1. CASE k = 0
        BY <2>1, <4>1
      <4>2. CASE k # 0
        <5>1. k \in 1..32
          BY <4>2
        <5> QED BY <2>2, <4>2, <5>1
      <4> QED BY <4>1, <4>2
    <3> QED BY <3>1, <3>2
  <2> QED BY <2>3
<1>4. D(u)
  <2> HIDE DEF G
  <2> QED BY <1>3
<1> HIDE DEF u
<1>5. u[0] = <<>> /\ \A k \in 1..32 : u[k] = G(u[k - 1], k)
  <2> HIDE DEF G
  <2> QED BY <1>4
<1> QED BY <1>1, <1>5

\* A bitmap has exactly the bits of the set it was made of.
LEMMA BitsAre ==
    ASSUME NEW bits \in SUBSET (0..31)
    PROVE  /\ SetFeatureBits(bits) \in Bitmap
           /\ \A b \in 0..31 : FeatureSupported(SetFeatureBits(bits), b) <=> b \in bits
           /\ bits # {} => SetFeatureBits(bits) # <<>>
<1>1. PICK u : /\ SetFeatureBits(bits) = u[32]
               /\ u[0] = <<>>
               /\ \A k \in 1..32 :
                    u[k] = IF k - 1 \in bits THEN SetFeatureBit(u[k - 1], k - 1) ELSE u[k - 1]
  BY BitsEquations, ZenonT(30)
<1> DEFINE Good(n) == /\ u[n] \in Bitmap
                      /\ \A b \in Nat : FeatureSupported(u[n], b) <=> (b \in bits /\ b < n)
           T == {n \in Nat : n <= 32 => Good(n)}
<1>2. 0 \in T
  <2>1. <<>> \in Bitmap /\ DOMAIN <<>> = {}
    BY DEF Bitmap
  <2>2. \A b \in Nat : ~ FeatureSupported(<<>>, b)
    BY <2>1 DEF FeatureSupported
  <2>3. Good(0)
    <3>1. u[0] = <<>>
      BY <1>1
    <3>2. \A b \in Nat : ~ (b \in bits /\ b < 0)
      OBVIOUS
    <3> QED BY <2>1, <2>2, <3>1, <3>2
  <2> HIDE DEF Good
  <2> QED BY <2>3
<1>3. ASSUME NEW n \in Nat, n \in T PROVE n + 1 \in T
  <2>1. SUFFICES ASSUME n + 1 <= 32 PROVE Good(n + 1)
    OBVIOUS
  <2>2. Good(n) /\ n + 1 \in 1..32 /\ n + 1 - 1 = n
    BY <1>3, <2>1
  <2>3. u[n + 1] = IF n \in bits THEN SetFeatureBit(u[n], n) ELSE u[n]
    <3> DEFINE k == n + 1
    <3>1. k \in 1..32 /\ k - 1 = n
      BY <2>2
    <3> HIDE DEF k
    <3>2. u[k] = IF k - 1 \in bits THEN SetFeatureBit(u[k - 1], k - 1) ELSE u[k - 1]
      BY <1>1, <3>1
    <3> QED BY <3>1, <3>2 DEF k
  <2>4. CASE n \in bits
    <3>1. /\ u[n + 1] \in Bitmap
          /\ \A b \in Nat : FeatureSupported(u[n + 1], b) <=> (b = n \/ FeatureSupported(u[n], b))
      BY <2>2, <2>3, <2>4, BitSet
    <3> QED BY <2>2, <2>4, <3>1
  <2>5. CASE n \notin bits
    <3>1. u[n + 1] = u[n]
      BY <2>3, <2>5
    <3>2. \A b \in Nat : (b \in bits /\ b < n) <=> (b \in bits /\ b < n + 1)
      BY <2>5
    <3> QED BY <2>2, <3>1, <3>2
  <2> QED BY <2>4, <2>5
<1> HIDE DEF T
<1>4. Nat \subseteq T
  BY <1>2, <1>3, Induct
<1>5. Good(32)
  BY <1>4 DEF T
<1>6. \A b \in 0..31 : FeatureSupported(SetFeatureBits(bits), b) <=> b \in bits
  <2>1. \A b \in 0..31 : b \in Nat /\ b < 32
    OBVIOUS
  <2> QED BY <1>1, <1>5, <2>1
<1>7. ASSUME bits # {}, SetFeatureBits(bits) = <<>> PROVE FALSE
  <2>1. PICK b \in 0..31 : b \in bits
    BY <1>7
  <2>2. ~ FeatureSupported(<<>>, b)
    BY DEF FeatureSupported
  <2> QED BY <1>6, <1>7, <2>1, <2>2
<1> QED BY <1>1, <1>5, <1>6, <1>7

\* A bitmap that is not empty is read as it was written.
LEMMA TypedBytesRead ==
    ASSUME NEW x \in Bitmap, x # <<>>, NEW c \in ByteStr
    PROVE  /\ TypedBytes(x) \in ByteStr
           /\ ReadTypedBytes(Then(TypedBytes(x), c)) = Read(x, c)
<1> DEFINE n == Len(x)
           t == Num(1, 12)
           l == Num(4, n)
           b == Num(n, x)
           y == Then(b, c)
           z == Then(l, y)
<1>1. n \in Int /\ n # 0 /\ x \in Content
  BY DEF Bitmap, Content
<1>2. b \in ByteStr /\ y \in ByteStr /\ Take(y, n) = Read(x, c)
  <2> HIDE DEF n
  <2> QED BY <1>1, NumIs, TakeNum
<1>3. l \in ByteStr /\ z \in ByteStr /\ Take(z, 4) = Read(n, y)
  <2> HIDE DEF n, y
  <2> QED BY <1>1, <1>2, Widths, TakeInt
<1>4. t \in ByteStr /\ Take(Then(t, z), 1) = Read(12, z)
  <2>1. 12 \in Int
    OBVIOUS
  <2> HIDE DEF z
  <2> QED BY <1>3, <2>1, Widths, TakeInt
<1>5. TypedBytes(x) = Then(Then(t, l), b)
  BY Codes DEF TypedBytes, Then
<1>6. Then(t, l) \in ByteStr /\ Then(Then(t, l), b) \in ByteStr /\ Then(Then(Then(t, l), b), c) = Then(t, z)
  <2> HIDE DEF t, l, b, n
  <2>1. Then(t, l) \in ByteStr
    BY <1>3, <1>4, Assoc
  <2> DEFINE tl == Then(t, l)
  <2>2. tl \in ByteStr
    BY <2>1
  <2>3. Then(tl, y) = Then(t, z)
    <3> HIDE DEF y
    <3> QED BY <1>2, <1>3, <1>4, Assoc
  <2> HIDE DEF tl
  <2>4. Then(tl, b) \in ByteStr /\ Then(Then(tl, b), c) = Then(tl, y)
    BY <1>2, <2>2, Assoc
  <2> QED BY <2>2, <2>3, <2>4 DEF tl
<1> DEFINE q == Read(12, z)
           m == Read(n, y)
<1>7. q.ok /\ q.v = 12 /\ q.rest = z
  <2> HIDE DEF z
  <2> QED BY ReadIs
<1>8. m.ok /\ m.v = n /\ m.rest = y
  <2> HIDE DEF n, y
  <2> QED BY ReadIs
<1> HIDE DEF n, t, l, b, y, z, q, m
<1>9. TypedArray(q) = SizedBytes(m)
  BY <1>3, <1>7, Codes DEF TypedArray, m
<1>10. SizedBytes(m) = Take(y, n)
  BY <1>1, <1>8 DEF SizedBytes
<1>11. ReadTypedBytes(Then(t, z)) = TypedArray(q)
  BY <1>4 DEF ReadTypedBytes, q
<1> QED BY <1>2, <1>5, <1>6, <1>9, <1>10, <1>11

\* One more text is read behind the ones before it.
LEMMA TextOfIs ==
    ASSUME NEW v, NEW k \in Nat, NEW c \in ByteStr
    PROVE  TextOf(Read(v, Then(Str(k), c))) = Read(Append(v, k), c)
<1> DEFINE b == Then(Str(k), c)
           r == Read(v, b)
           t == Read(k, c)
<1>1. NotNull(ReadOptStr(b)) = t
  BY ReadStrIs
<1>2. t.ok /\ t.v = k /\ t.rest = c
  BY ReadIs
<1> HIDE DEF b
<1>3. r.ok /\ r.v = v /\ r.rest = b
  BY ReadIs
<1> HIDE DEF r, t
<1>4. TextOf(r) = Read(Append(v, k), c)
  BY <1>1, <1>2, <1>3 DEF TextOf, Pushed
<1> QED BY <1>4 DEF r, b

\* Two texts, written one after the other, are read as a pair.
Pair(k, v) == Then(Str(k), Str(v))

LEMMA PairRead ==
    ASSUME NEW k \in Nat, NEW v \in Nat, NEW c \in ByteStr
    PROVE  /\ Pair(k, v) \in ByteStr /\ Then(Pair(k, v), c) \in ByteStr
           /\ Then(Pair(k, v), c) # <<>>
           /\ TextOf(TextOf(Read(<<>>, Then(Pair(k, v), c)))) = Read(<<k, v>>, c)
<1> DEFINE a == Str(k)
           b == Str(v)
           y == Then(b, c)
           e == <<>>
<1>1. b \in ByteStr /\ y \in ByteStr
  BY ReadStrIs
<1>2. a \in ByteStr /\ Then(a, y) \in ByteStr /\ Then(a, y) # <<>>
  <2> HIDE DEF y
  <2> QED BY <1>1, ReadStrIs
<1>3. Then(a, b) \in ByteStr /\ Then(Then(a, b), c) = Then(a, y)
  <2> HIDE DEF a, b
  <2> QED BY <1>1, <1>2, Assoc
<1>4. TextOf(Read(e, Then(a, y))) = Read(Append(e, k), y)
  <2> HIDE DEF e, y
  <2> QED BY <1>1, TextOfIs
<1>5. TextOf(Read(Append(e, k), y)) = Read(Append(Append(e, k), v), c)
  <2> DEFINE f == Append(e, k)
  <2> HIDE DEF f
  <2> QED BY TextOfIs
<1>6. Append(Append(e, k), v) = <<k, v>>
  <2> DEFINE s == Append(Append(e, k), v)
  <2>1. s \in Seq(Nat) /\ Len(s) = 2 /\ s[1] = k /\ s[2] = v
    OBVIOUS
  <2> HIDE DEF s
  <2>2. s = <<k, v>>
    BY <2>1
  <2> QED BY <2>2 DEF s
<1> HIDE DEF a, b, y
<1> QED BY <1>2, <1>3, <1>4, <1>5, <1>6 DEF Pair, a, b

\* The equations of WriteUserAttributes, from the last attribute to the first.
LEMMA WriterEquations ==
    ASSUME NEW a \in Seq(Nat \X Nat), NEW N, N = Len(a)
    PROVE  \E f : /\ WriteUserAttributes(a) = Then(Num(4, N), f[1])
                  /\ f[N + 1] = <<>>
                  /\ \A n \in 1..N : f[n] = Then(Pair(a[n][1], a[n][2]), f[n + 1])
                  /\ \A n \in 1..(N + 1) : f[n] \in ByteStr
<1> DEFINE P(n) == Pair(a[n][1], a[n][2])
           D(f) == f = [n \in 1..(N + 1) |-> IF n = N + 1 THEN <<>> ELSE Then(P(n), f[n + 1])]
           u == CHOOSE f : D(f)
           e == <<>>
           F == [q \in ByteStr \X Nat |-> IF q[2] \in 1..N THEN Then(P(N + 1 - q[2]), q[1]) ELSE q[1]]
<1>0. N \in Nat /\ \A n \in 1..N : a[n][1] \in Nat /\ a[n][2] \in Nat
  <2>1. N \in Nat /\ \A n \in 1..N : a[n] \in Nat \X Nat
    OBVIOUS
  <2> QED BY <2>1
<1>1. WriteUserAttributes(a) = Then(Num(4, N), u[1])
  BY DEF WriteUserAttributes, Then, Pair
<1>2. e \in ByteStr /\ \A n \in 1..N : P(n) \in ByteStr
  <2>1. e \in ByteStr
    BY DEF ByteStr
  <2>2. ASSUME NEW n \in 1..N PROVE P(n) \in ByteStr
    <3> DEFINE k == a[n][1]
               v == a[n][2]
    <3>1. k \in Nat /\ v \in Nat
      BY <1>0
    <3> HIDE DEF k, v, e
    <3>2. Pair(k, v) \in ByteStr
      BY <2>1, <3>1, PairRead
    <3> QED BY <3>2 DEF k, v
  <2> HIDE DEF P
  <2> QED BY <2>1, <2>2
<1>3. F \in [ByteStr \X Nat -> ByteStr]
  <2>1. ASSUME NEW q \in ByteStr \X Nat PROVE F[q] \in ByteStr
    <3>1. CASE q[2] \in 1..N
      <4> DEFINE i == N + 1 - q[2]
                 y == q[1]
                 x == P(i)
      <4>1. i \in 1..N
        BY <1>0, <3>1
      <4>2. x \in ByteStr /\ y \in ByteStr
        <5> HIDE DEF i, P
        <5> QED BY <1>2, <4>1
      <4>3. F[q] = Then(x, y)
        BY <3>1
      <4> HIDE DEF x, y
      <4> QED BY <4>2, <4>3, Assoc
    <3>2. CASE q[2] \notin 1..N
      BY <3>2
    <3> QED BY <3>1, <3>2
  <2> HIDE DEF P
  <2> QED BY <2>1
<1>4. \E f : D(f)
  <2>1. PICK g \in [0..N -> ByteStr] : g[0] = e /\ \A k \in 1..N : g[k] = F[<<g[k - 1], k>>]
    <3> HIDE DEF F, e
    <3>1. Recursions(ByteStr, e, F, N) # {}
      BY <1>0, <1>2, <1>3, RecursionExists
    <3> QED BY <3>1 DEF Recursions
  <2> DEFINE f == [n \in 1..(N + 1) |-> g[N + 1 - n]]
  <2>2. ASSUME NEW n \in 1..N PROVE f[n] = Then(P(n), f[n + 1])
    <3> DEFINE k == N + 1 - n
               y == g[k - 1]
    <3>1. k \in 1..N /\ k \in Nat /\ k - 1 \in 0..N /\ N + 1 - k = n /\ N + 1 - (n + 1) = k - 1
      BY <1>0
    <3>2. f[n] = g[k] /\ f[n + 1] = y
      <4>1. n \in 1..(N + 1) /\ n + 1 \in 1..(N + 1)
        BY <1>0
      <4> HIDE DEF F, P
      <4> QED BY <3>1, <4>1
    <3> HIDE DEF k, f
    <3>3. y \in ByteStr
      <4> HIDE DEF F, P
      <4> QED BY <3>1
    <3>4. g[k] = F[<<y, k>>]
      <4> HIDE DEF F, P
      <4> QED BY <2>1, <3>1
    <3> HIDE DEF y
    <3>5. F[<<y, k>>] = Then(P(n), y)
      BY <3>1, <3>3
    <3> QED BY <3>2, <3>4, <3>5
  <2>3. f[N + 1] = <<>>
    <3>1. N + 1 \in 1..(N + 1) /\ N + 1 - (N + 1) = 0
      BY <1>0
    <3> HIDE DEF F, P
    <3> QED BY <2>1, <3>1
  <2>4. f = [n \in 1..(N + 1) |-> f[n]]
    OBVIOUS
  <2> HIDE DEF f, P
  <2>5. ASSUME NEW n \in 1..(N + 1) PROVE f[n] = IF n = N + 1 THEN <<>> ELSE Then(P(n), f[n + 1])
    <3>1. CASE n = N + 1
      BY <2>3, <3>1
    <3>2. CASE n # N + 1
      <4>1. n \in 1..N
        BY <1>0, <3>2
      <4> QED BY <2>2, <3>2, <4>1
    <3> QED BY <3>1, <3>2
  <2>6. D(f)
    BY <2>4, <2>5
  <2> QED BY <2>6
<1>5. D(u)
  <2> HIDE DEF P
  <2> QED BY <1>4
<1> HIDE DEF u, P, F
<1>6. u[N + 1] = <<>> /\ \A n \in 1..N : u[n] = Then(P(n), u[n + 1])
  <2>1. \A n \in 1..(N + 1) : u[n] = IF n = N + 1 THEN <<>> ELSE Then(P(n), u[n + 1])
    BY <1>5
  <2>2. N + 1 \in 1..(N + 1) /\ \A n \in 1..N : n \in 1..(N + 1) /\ n # N + 1
    BY <1>0
  <2> QED BY <2>1, <2>2
<1> DEFINE T == {k \in Nat : k <= N => u[N + 1 - k] \in ByteStr}
<1>7. 0 \in T
  <2>1. N + 1 - 0 = N + 1
    BY <1>0
  <2> QED BY <1>2, <1>6, <2>1
<1>8. ASSUME NEW k \in Nat, k \in T PROVE k + 1 \in T
  <2>1. SUFFICES ASSUME k + 1 <= N PROVE u[N + 1 - (k + 1)] \in ByteStr
    OBVIOUS
  <2> DEFINE n == N + 1 - (k + 1)
             y == u[n + 1]
             x == P(n)
  <2>2. n \in 1..N /\ n + 1 = N + 1 - k /\ k <= N
    BY <1>0, <2>1
  <2>3. y \in ByteStr /\ x \in ByteStr /\ u[n] = Then(x, y)
    <3> HIDE DEF n
    <3> QED BY <1>2, <1>6, <1>8, <2>2
  <2> HIDE DEF x, y
  <2> QED BY <2>3, Assoc
<1> HIDE DEF T
<1>9. Nat \subseteq T
  BY <1>7, <1>8, Induct
<1>10. ASSUME NEW n \in 1..(N + 1) PROVE u[n] \in ByteStr
  <2> DEFINE k == N + 1 - n
  <2>1. k \in Nat /\ k <= N /\ N + 1 - k = n
    BY <1>0
  <2> HIDE DEF k
  <2> QED BY <1>9, <2>1 DEF T
<1> QED BY <1>1, <1>6, <1>10 DEF P

\* The equations of ReadUserAttributes, given that the byte string holds the
\* attributes one after the other.
LEMMA AttributesReadInTurn ==
    ASSUME NEW a \in Seq(Nat \X Nat), NEW N, N = Len(a), NEW c \in ByteStr, NEW f,
           f[N + 1] = <<>>,
           \A n \in 1..N : f[n] = Then(Pair(a[n][1], a[n][2]), f[n + 1]),
           \A n \in 1..(N + 1) : f[n] \in ByteStr
    PROVE  ReadUserAttributes(Read(N, Then(f[1], c))) = Read(a, c)
<1> DEFINE r == Read(N, Then(f[1], c))
           Q(x) == TextOf(TextOf(Read(<<>>, x)))
           D(g) == g = [i \in 0..N |-> IF i = 0 THEN Read(<<>>, Then(f[1], c))
                                       ELSE Pushed(g[i - 1], Q(g[i - 1].rest))]
           u == CHOOSE g : D(g)
           Left(i) == Then(f[i + 1], c)
           G(i) == Read(SubSeq(a, 1, i), Left(i))
<1>0. N \in Nat /\ \A n \in 1..N : a[n] = <<a[n][1], a[n][2]>> /\ a[n][1] \in Nat /\ a[n][2] \in Nat
  <2>1. N \in Nat /\ \A n \in 1..N : a[n] \in Nat \X Nat
    OBVIOUS
  <2> QED BY <2>1
<1>1. ReadUserAttributes(r) = u[N]
  <2> DEFINE y == Then(f[1], c)
  <2>1. r.ok /\ r.v = N /\ r.rest = y
    BY DEF Read
  <2> HIDE DEF r, y
  <2>2. ReadUserAttributes(r) = u[N]
    BY <2>1 DEF ReadUserAttributes, y
  <2> QED BY <2>2
<1>2. ASSUME NEW i \in 1..N PROVE G(i) = Pushed(G(i - 1), Q(G(i - 1).rest))
  <2> DEFINE k == a[i][1]
             v == a[i][2]
             p == Pair(k, v)
             y == f[i + 1]
             z == Left(i)
             s == SubSeq(a, 1, i - 1)
             w == Left(i - 1)
             h == Read(s, w)
             t == Read(<<k, v>>, z)
  <2>1. k \in Nat /\ v \in Nat /\ a[i] = <<k, v>>
    BY <1>0
  <2>2. i - 1 + 1 = i /\ i + 1 \in 1..(N + 1)
    BY <1>0
  <2>3. y \in ByteStr /\ f[i] = Then(p, y)
    <3> HIDE DEF p
    <3> QED BY <2>2 DEF p
  <2>4. z \in ByteStr
    <3> HIDE DEF y
    <3>1. Then(y, c) \in ByteStr
      BY <2>3, Assoc
    <3> QED BY <3>1 DEF y
  <2>5. p \in ByteStr /\ Q(Then(p, z)) = t
    <3> HIDE DEF k, v, z
    <3> QED BY <2>1, <2>4, PairRead
  <2>6. w = Then(p, z)
    <3>1. w = Then(f[i], c)
      BY <2>2
    <3> HIDE DEF p, y
    <3>2. Then(Then(p, y), c) = Then(p, Then(y, c))
      BY <2>3, <2>5, Assoc
    <3> QED BY <2>3, <3>1, <3>2 DEF y
  <2>7. Append(s, a[i]) = SubSeq(a, 1, i)
    BY <1>0
  <2>8. h.ok /\ h.v = s /\ h.rest = w
    <3> HIDE DEF s, w
    <3> QED BY ReadIs
  <2>9. t.ok /\ t.v = <<k, v>> /\ t.rest = z
    <3> HIDE DEF k, v, z
    <3> QED BY ReadIs
  <2>10. h = G(i - 1)
    OBVIOUS
  <2>11. G(i) = Read(SubSeq(a, 1, i), z)
    OBVIOUS
  <2>12. Q(h.rest) = t
    <3> HIDE DEF h, w, t, p, z
    <3> QED BY <2>5, <2>6, <2>8
  <2> HIDE DEF h, w, t, p, z, s, Q, G
  <2>13. Pushed(h, t) = Read(Append(s, <<k, v>>), z)
    <3> HIDE DEF k, v
    <3> QED BY <2>8, <2>9 DEF Pushed
  <2>14. Pushed(h, t) = G(i)
    BY <2>1, <2>7, <2>11, <2>13
  <2> QED BY <2>10, <2>12, <2>14
<1>3. G(0) = Read(<<>>, Then(f[1], c))
  <2>1. SubSeq(a, 1, 0) = <<>> /\ 0 + 1 = 1
    OBVIOUS
  <2> QED BY <2>1
<1> HIDE DEF G, Q, Left, r
<1>4. D([i \in 0..N |-> G(i)])
  <2> DEFINE g == [i \in 0..N |-> G(i)]
  <2>1. ASSUME NEW i \in 0..N
        PROVE  G(i) = IF i = 0 THEN Read(<<>>, Then(f[1], c)) ELSE Pushed(g[i - 1], Q(g[i - 1].rest))
    <3>1. CASE i = 0
      BY <1>3, <3>1
    <3>2. CASE i # 0
      <4>1. i \in 1..N /\ i - 1 \in 0..N
        BY <1>0, <3>2
      <4>2. g[i - 1] = G(i - 1)
        BY <4>1
      <4> QED BY <1>2, <3>2, <4>1, <4>2
    <3> QED BY <3>1, <3>2
  <2> QED BY <2>1
<1>5. D(u)
  <2> DEFINE g == [i \in 0..N |-> G(i)]
  <2>1. D(g)
    BY <1>4, ZenonT(30)
  <2> HIDE DEF g
  <2> QED BY <2>1
<1> HIDE DEF u
<1> DEFINE T == {i \in Nat : i <= N => u[i] = G(i)}
<1>6. 0 \in T
  <2>1. 0 \in 0..N
    BY <1>0
  <2>2. u[0] = Read(<<>>, Then(f[1], c))
    BY <1>5, <2>1
  <2> QED BY <1>3, <2>2
<1>7. ASSUME NEW n \in Nat, n \in T PROVE n + 1 \in T
  <2>1. SUFFICES ASSUME n + 1 <= N PROVE u[n + 1] = G(n + 1)
    OBVIOUS
  <2> DEFINE i == n + 1
  <2>2. i \in 1..N /\ i \in 0..N /\ i # 0 /\ i - 1 = n /\ n <= N
    BY <1>0, <2>1
  <2> HIDE DEF i
  <2>3. u[i] = Pushed(u[i - 1], Q(u[i - 1].rest))
    BY <1>5, <2>2
  <2>4. u[i - 1] = G(i - 1)
    BY <1>7, <2>2
  <2>5. u[i] = G(i)
    BY <1>2, <2>2, <2>3, <2>4
  <2> QED BY <2>5 DEF i
<1> HIDE DEF T
<1>8. Nat \subseteq T
  BY <1>6, <1>7, Induct
<1>9. u[N] = G(N)
  BY <1>0, <1>8 DEF T
<1>10. G(N) = Read(a, c)
  <2>1. SubSeq(a, 1, N) = a
    OBVIOUS
  <2>2. Left(N) = c
    BY Empty DEF Left
  <2> QED BY <2>1, <2>2, ZenonT(30) DEF G
<1> QED BY <1>1, <1>9, <1>10 DEF r

\* The attributes are read as they were written.
LEMMA AttributesRead ==
    ASSUME NEW a \in Seq(Nat \X Nat), NEW c \in ByteStr
    PROVE  /\ WriteUserAttributes(a) \in ByteStr
           /\ ReadUserAttributes(Take(Then(WriteUserAttributes(a), c), 4)) = Read(a, c)
<1> DEFINE N == Len(a)
<1>1. PICK f : /\ WriteUserAttributes(a) = Then(Num(4, N), f[1])
               /\ f[N + 1] = <<>>
               /\ \A n \in 1..N : f[n] = Then(Pair(a[n][1], a[n][2]), f[n + 1])
               /\ \A n \in 1..(N + 1) : f[n] \in ByteStr
  BY WriterEquations
<1>2. N \in Nat /\ N \in Int /\ 1 \in 1..(N + 1)
  OBVIOUS
<1> DEFINE b == f[1]
<1>3. b \in ByteStr
  BY <1>1, <1>2
<1>4. ReadUserAttributes(Read(N, Then(b, c))) = Read(a, c)
  BY <1>1, AttributesReadInTurn, ZenonT(30)
<1> HIDE DEF N, b
<1>5. /\ Then(Num(4, N), b) \in ByteStr
      /\ Take(Then(Then(Num(4, N), b), c), 4) = Read(N, Then(b, c))
  BY <1>2, <1>3, Widths, TakeFirst
<1> QED BY <1>1, <1>4, <1>5 DEF b

----------------------------------------------------------------------------
(* The handshake.                                                             *)

\* Two bytes of each of three numbers are a version.
LEMMA VersionRead ==
    ASSUME NEW v, NEW x \in Int, NEW y \in Int, NEW z \in Int, NEW c \in ByteStr
    PROVE  /\ Then(Num(2, x), Then(Num(2, y), Then(Num(2, z), c))) \in ByteStr
           /\ Version(Read(v, Then(Num(2, x), Then(Num(2, y), Then(Num(2, z), c)))))
                = Read(Append(Append(Append(v, x), y), z), c)
<1> DEFINE c3 == Then(Num(2, z), c)
           c2 == Then(Num(2, y), c3)
           c1 == Then(Num(2, x), c2)
           v1 == Append(v, x)
           v2 == Append(v1, y)
<1>1. c3 \in ByteStr
  BY Widths, TakeInt
<1>2. c2 \in ByteStr
  <2> HIDE DEF c3
  <2> QED BY <1>1, Widths, TakeInt
<1>3. c1 \in ByteStr /\ IntOf(Read(v, c1), 2) = Read(v1, c2)
  <2> HIDE DEF c2
  <2> QED BY <1>2, Widths, TakeInt, IntOfIs
<1>4. IntOf(Read(v1, c2), 2) = Read(v2, c3)
  <2> HIDE DEF c3, v1
  <2> QED BY <1>1, Widths, IntOfIs
<1>5. IntOf(Read(v2, c3), 2) = Read(Append(v2, z), c)
  <2> HIDE DEF v2
  <2> QED BY Widths, IntOfIs
<1> QED BY <1>3, <1>4, <1>5 DEF Version

\* What stands before the features of a request.
Heading(c) == Then(Num(1, 1), Then(Num(2, 1), Then(Num(2, 7), Then(Num(2, 0), Then(Num(1, 2), c)))))

LEMMA HeadingRead ==
    ASSUME NEW c \in ByteStr
    PROVE  IntOf(Version(IntOf(Read(<<>>, Heading(c)), 1)), 1).rest = c
<1> DEFINE c2 == Then(Num(1, 2), c)
           c1 == Then(Num(2, 1), Then(Num(2, 7), Then(Num(2, 0), c2)))
           e == <<>>
           v1 == Append(e, 1)
           v2 == Append(Append(Append(v1, 1), 7), 0)
<1>0. 7 \in Int
  OBVIOUS
<1>1. c2 \in ByteStr
  BY Widths, TakeInt
<1>2. c1 \in ByteStr /\ Version(Read(v1, c1)) = Read(v2, c2)
  <2> HIDE DEF c2, v1
  <2> QED BY <1>0, <1>1, Widths, VersionRead
<1>3. IntOf(Read(e, Then(Num(1, 1), c1)), 1) = Read(v1, c1)
  <2> HIDE DEF c1, e
  <2> QED BY <1>2, Widths, IntOfIs
<1>4. IntOf(Read(v2, c2), 1) = Read(Append(v2, 2), c)
  <2> HIDE DEF v2
  <2> QED BY Widths, IntOfIs
<1>5. Heading(c) = Then(Num(1, 1), c1)
  BY DEF Heading
<1>6. Read(Append(v2, 2), c).rest = c
  <2> DEFINE v3 == Append(v2, 2)
  <2> HIDE DEF v3
  <2>1. Read(v3, c).rest = c
    BY ReadIs
  <2> QED BY <2>1 DEF v3
<1> HIDE DEF c1, c2, v1, v2
<1> QED BY <1>2, <1>3, <1>4, <1>5, <1>6

\* A request is its heading, its features, its attributes and its credentials.
LEMMA HeadingIs ==
    ASSUME NEW t \in ByteStr, NEW a \in ByteStr, NEW k \in ByteStr
    PROVE  Then(Then(Then(Then(Then(Then(Then(Num(1, 1), Num(2, 1)), Num(2, 7)), Num(2, 0)),
                                    Num(1, 2)), t), a), k)
             = Heading(Then(t, Then(a, k)))
<1> DEFINE n1 == Num(1, 1)
           n2 == Num(2, 1)
           n3 == Num(2, 7)
           n4 == Num(2, 0)
           n5 == Num(1, 2)
           x == Then(t, Then(a, k))
           q == Then(n1, n2)
           p == Then(Then(Then(q, n3), n4), n5)
           y == Then(n3, Then(n4, Then(n5, x)))
<1>1. n1 \in ByteStr /\ n2 \in ByteStr /\ n3 \in ByteStr /\ n4 \in ByteStr /\ n5 \in ByteStr
  <2> DEFINE e == <<>>
  <2>1. e \in ByteStr /\ 7 \in Int
    BY DEF ByteStr
  <2> HIDE DEF e
  <2> QED BY <2>1, Widths, TakeInt
<1>2. Then(a, k) \in ByteStr /\ x \in ByteStr
  <2> DEFINE w == Then(a, k)
  <2>1. w \in ByteStr
    BY Assoc
  <2> HIDE DEF w
  <2>2. Then(t, w) \in ByteStr
    BY <2>1, Assoc
  <2> QED BY <2>1, <2>2 DEF w
<1> HIDE DEF n1, n2, n3, n4, n5
<1>3. q \in ByteStr
  BY <1>1, Assoc
<1>4. Then(p, x) = Then(q, y) /\ y \in ByteStr
  <2> HIDE DEF x, q
  <2>1. Then(Then(Then(Then(q, n3), n4), n5), x) = Then(q, Then(n3, Then(n4, Then(n5, x))))
    BY <1>1, <1>2, <1>3, FiveParts
  <2> DEFINE z == Then(n5, x)
  <2>2. z \in ByteStr
    BY <1>1, <1>2, Assoc
  <2> HIDE DEF z
  <2> DEFINE m == Then(n4, z)
  <2>3. m \in ByteStr
    BY <1>1, <2>2, Assoc
  <2> HIDE DEF m
  <2>4. Then(n3, m) \in ByteStr
    BY <1>1, <2>3, Assoc
  <2> QED BY <2>1, <2>4 DEF m, z
<1>5. Then(q, y) = Then(n1, Then(n2, y))
  <2> HIDE DEF y
  <2> QED BY <1>1, <1>4, Assoc
<1>6. p \in ByteStr
  <2> HIDE DEF q
  <2> DEFINE r == Then(q, n3)
  <2>1. r \in ByteStr
    BY <1>1, <1>3, Assoc
  <2> HIDE DEF r
  <2> DEFINE s == Then(r, n4)
  <2>2. s \in ByteStr
    BY <1>1, <2>1, Assoc
  <2> HIDE DEF s
  <2>3. Then(s, n5) \in ByteStr
    BY <1>1, <2>2, Assoc
  <2> QED BY <2>3 DEF s, r
<1>7. Then(Then(Then(p, t), a), k) = Then(p, x)
  <2> HIDE DEF p
  <2> DEFINE r == Then(p, t)
             w == Then(a, k)
  <2>1. r \in ByteStr /\ w \in ByteStr
    BY <1>2, <1>6, Assoc
  <2>2. Then(r, w) = Then(p, Then(t, w))
    <3> HIDE DEF w
    <3> QED BY <1>6, <2>1, Assoc
  <2> HIDE DEF r
  <2>3. Then(Then(r, a), k) = Then(r, w)
    BY <2>1, Assoc
  <2> QED BY <2>2, <2>3 DEF r
<1>8. Heading(x) = Then(n1, Then(n2, y))
  BY DEF Heading, n1, n2, n3, n4, n5
<1> HIDE DEF x, y
<1>9. Then(Then(Then(p, t), a), k) = Heading(x)
  BY <1>4, <1>5, <1>7, <1>8
<1> QED BY <1>9 DEF x, n1, n2, n3, n4, n5

\* The credentials of a configuration as the server reads them, and the bytes
\* they are written in.
Credentials(c) ==
  IF c.user = None THEN <<>> ELSE <<c.user, IF c.password = None THEN 0 ELSE c.password>>
CredentialBytes(c) ==
  IF c.user = None THEN <<>> ELSE Pair(c.user, IF c.password = None THEN 0 ELSE c.password)

LEMMA CredentialsRead ==
    ASSUME NEW c \in Confs
    PROVE  /\ CredentialBytes(c) \in ByteStr
           /\ (IF CredentialBytes(c) = <<>> THEN Read(<<>>, <<>>)
               ELSE TextOf(TextOf(Read(<<>>, CredentialBytes(c))))) = Read(Credentials(c), <<>>)
<1> DEFINE u == c.user
           p == IF c.password = None THEN 0 ELSE c.password
           e == <<>>
<1>1. e \in ByteStr
  BY DEF ByteStr
<1>2. u \in Nat \cup {None} /\ p \in Nat
  BY ConfsAssumption
<1>3. CASE u = None
  BY <1>1, <1>3 DEF CredentialBytes, Credentials
<1>4. CASE u # None
  <2>1. CredentialBytes(c) = Pair(u, p) /\ Credentials(c) = <<u, p>>
    BY <1>4 DEF CredentialBytes, Credentials
  <2> DEFINE b == Pair(u, p)
  <2>2. /\ b \in ByteStr /\ Then(b, e) # <<>>
        /\ TextOf(TextOf(Read(<<>>, Then(b, e)))) = Read(<<u, p>>, e)
    <3>1. u \in Nat
      BY <1>2, <1>4
    <3> HIDE DEF e, p, u
    <3> QED BY <1>1, <1>2, <3>1, PairRead
  <2>3. Then(b, e) = b
    <3> HIDE DEF b
    <3> QED BY <2>2, Empty
  <2> HIDE DEF b
  <2>4. CredentialBytes(c) = b
    BY <2>1 DEF b
  <2> QED BY <2>1, <2>2, <2>3, <2>4
<1> QED BY <1>3, <1>4

AttributeBytes(c) == IF c.attributes = <<>> THEN <<>> ELSE WriteUserAttributes(c.attributes)

\* The attributes, which are there exactly when bit 0 is set.
LEMMA AttributesWhenClaimed ==
    ASSUME NEW c \in Confs, NEW k \in ByteStr, NEW b, b = (c.attributes # <<>>)
    PROVE  /\ AttributeBytes(c) \in ByteStr /\ Then(AttributeBytes(c), k) \in ByteStr
           /\ (IF b THEN ReadUserAttributes(Take(Then(AttributeBytes(c), k), 4))
               ELSE Read(<<>>, Then(AttributeBytes(c), k))) = Read(c.attributes, k)
<1> DEFINE a == c.attributes
<1>1. a \in Seq(Nat \X Nat)
  BY ConfsAssumption
<1>2. <<>> \in ByteStr /\ Then(<<>>, k) = k
  BY Empty
<1>3. CASE a = <<>>
  BY <1>2, <1>3 DEF AttributeBytes
<1>4. CASE a # <<>>
  <2>1. AttributeBytes(c) = WriteUserAttributes(a)
    BY <1>4 DEF AttributeBytes
  <2>2. /\ WriteUserAttributes(a) \in ByteStr
        /\ ReadUserAttributes(Take(Then(WriteUserAttributes(a), k), 4)) = Read(a, k)
    <3> HIDE DEF a
    <3> QED BY <1>1, AttributesRead
  <2> DEFINE w == WriteUserAttributes(a)
  <2>3. Then(w, k) \in ByteStr
    <3>1. w \in ByteStr
      BY <2>2
    <3> HIDE DEF w
    <3> QED BY <3>1, Assoc
  <2> QED BY <1>4, <2>1, <2>2, <2>3
<1> QED BY <1>3, <1>4

\* The features of a request: at least the ones that every client has.
LEMMA FeaturesClaimed ==
    ASSUME NEW c \in Confs
    PROVE  /\ HandshakeFeatures(c) \in Bitmap /\ HandshakeFeatures(c) # <<>>
           /\ \A b \in 0..31 : FeatureSupported(HandshakeFeatures(c), b) <=> b \in Claimed(c)
           /\ Claimed(c) \in SUBSET (0..31)
           /\ 0 \in Claimed(c) <=> c.attributes # <<>>
<1>1. HandshakeFeatures(c) = SetFeatureBits(Claimed(c))
  BY DEF HandshakeFeatures, Claimed
<1>2. Claimed(c) \in SUBSET (0..31)
  BY DEF Claimed
<1>3. Claimed(c) # {}
  <2>1. 1 \in 1..19
    OBVIOUS
  <2> QED BY <2>1 DEF Claimed
<1>4. 0 \in Claimed(c) <=> c.attributes # <<>>
  BY DEF Claimed
<1>5. /\ SetFeatureBits(Claimed(c)) \in Bitmap
      /\ \A b \in 0..31 : FeatureSupported(SetFeatureBits(Claimed(c)), b) <=> b \in Claimed(c)
      /\ Claimed(c) # {} => SetFeatureBits(Claimed(c)) # <<>>
  <2> DEFINE bits == Claimed(c)
  <2> HIDE DEF bits
  <2>1. bits \in SUBSET (0..31)
    BY <1>2 DEF bits
  <2>2. /\ SetFeatureBits(bits) \in Bitmap
        /\ \A b \in 0..31 : FeatureSupported(SetFeatureBits(bits), b) <=> b \in bits
        /\ bits # {} => SetFeatureBits(bits) # <<>>
    BY ONLY <2>1, BitsAre
  <2> QED BY <2>2 DEF bits
<1> QED BY <1>1, <1>2, <1>3, <1>4, <1>5

\* The server understands the whole of a request: the features, the attributes
\* and the credentials that the configuration has.
LEMMA RequestUnderstood ==
    ASSUME NEW c \in Confs
    PROVE  LET u == Understood(HandshakeRequest(c))
           IN /\ u.ok
              /\ u.claimed = Claimed(c)
              /\ u.attributes = c.attributes
              /\ u.credentials = Credentials(c)
<1> DEFINE h == HandshakeFeatures(c)
           t == TypedBytes(h)
           a == AttributeBytes(c)
           k == CredentialBytes(c)
           y == Then(a, k)
           x == Then(t, y)
           b == Read(h, y)
           s == Read(c.attributes, k)
           r == Read(Credentials(c), <<>>)
<1>1. k \in ByteStr /\ (IF k = <<>> THEN Read(<<>>, <<>>) ELSE TextOf(TextOf(Read(<<>>, k)))) = r
  BY CredentialsRead
<1>2. h \in Bitmap /\ h # <<>> /\ (\A i \in 0..31 : FeatureSupported(h, i) <=> i \in Claimed(c))
  BY FeaturesClaimed
<1>3. FeatureSupported(h, 0) = (c.attributes # <<>>)
  <2>1. 0 \in 0..31
    OBVIOUS
  <2>2. FeatureSupported(h, 0) <=> (c.attributes # <<>>)
    BY <1>2, <2>1, FeaturesClaimed
  <2>3. FeatureSupported(h, 0) \in BOOLEAN
    BY DEF FeatureSupported
  <2> QED BY <2>2, <2>3
<1>4. /\ a \in ByteStr /\ y \in ByteStr
      /\ (IF FeatureSupported(h, 0) THEN ReadUserAttributes(Take(y, 4)) ELSE Read(<<>>, y)) = s
  <2> DEFINE f == FeatureSupported(h, 0)
  <2> HIDE DEF f, k
  <2>1. f = (c.attributes # <<>>)
    BY <1>3 DEF f
  <2>2. /\ a \in ByteStr /\ y \in ByteStr
        /\ (IF f THEN ReadUserAttributes(Take(y, 4)) ELSE Read(<<>>, y)) = s
    BY <1>1, <2>1, AttributesWhenClaimed
  <2> QED BY <2>2 DEF f
<1>5. t \in ByteStr /\ ReadTypedBytes(x) = b
  <2> HIDE DEF h, y
  <2> QED BY <1>2, <1>4, TypedBytesRead, ZenonT(30)
<1>6. x \in ByteStr
  <2> HIDE DEF t, y
  <2> QED BY <1>4, <1>5, Assoc
<1>7. HandshakeRequest(c) = Heading(x)
  <2>1. HandshakeRequest(c)
          = Then(Then(Then(Then(Then(Then(Then(Num(1, 1), Num(2, 1)), Num(2, 7)), Num(2, 0)),
                                Num(1, 2)), t), a), k)
    BY DEF HandshakeRequest, AttributeBytes, CredentialBytes, Pair, Then
  <2> HIDE DEF t, a, k
  <2> QED BY <1>1, <1>4, <1>5, <2>1, HeadingIs
<1>8. IntOf(Version(IntOf(Read(<<>>, Heading(x)), 1)), 1).rest = x
  <2> HIDE DEF x
  <2> QED BY <1>6, HeadingRead
<1>9. b.ok /\ b.v = h /\ b.rest = y
  <2> HIDE DEF h, y
  <2> QED BY ReadIs
<1>10. s.ok /\ s.v = c.attributes /\ s.rest = k
  <2> DEFINE at == c.attributes
  <2> HIDE DEF k, at
  <2> QED BY ReadIs DEF at
<1>11. r.ok /\ r.v = Credentials(c) /\ r.rest = <<>>
  BY DEF Read
<1> HIDE DEF h, t, a, k, y, x, b, s, r
<1>12. Understood(HandshakeRequest(c)) = WithAttributes(b)
  BY <1>5, <1>7, <1>8 DEF Understood
<1>13. WithAttributes(b) = WithCredentials(b, s)
  BY <1>4, <1>9 DEF WithAttributes
<1>14. WithCredentials(b, s) = AsUnderstood(b, s, r)
  BY <1>1, <1>10 DEF WithCredentials
<1>15. {i \in 0..31 : FeatureSupported(h, i)} = Claimed(c)
  BY <1>2, FeaturesClaimed, ZenonT(30)
<1>16. LET u == AsUnderstood(b, s, r)
       IN u.ok /\ u.claimed = Claimed(c) /\ u.attributes = c.attributes /\ u.credentials = Credentials(c)
  BY <1>9, <1>10, <1>11, <1>15 DEF AsUnderstood
<1> QED BY <1>12, <1>13, <1>14, <1>16

\* The numbers of the features that the client asks about.
LEMMA FeatureNumbers == \A f \in DOMAIN Feature : Feature[f] \in 1..19 \cup {22, 23}
BY DEF Feature

\* What a client makes of an answer that grants some features.
LEMMA WelcomeRead ==
    ASSUME NEW bits \in SUBSET (0..31)
    PROVE  /\ ReadWelcome(Welcome(bits)).kind = "ok"
           /\ ReadWelcome(Welcome(bits)).granted = {f \in DOMAIN Feature : Feature[f] \in bits}
<1> DEFINE h == IF bits = {} THEN <<>> ELSE SetFeatureBits(bits)
           n == Num(1, 1)
           m == IF bits = {} THEN Num(1, 101) ELSE TypedBytes(SetFeatureBits(bits))
           i == Num(1, 10)
           w == Num(8, 0)
           ww == Then(w, w)
           y == Then(i, ww)
           x == Then(m, y)
           b == Read(h, y)
           s == Read(1, x)
<1>0. 10 \in Int /\ 101 \in Int /\ <<>> \in ByteStr
  BY DEF ByteStr
<1>1. n \in ByteStr /\ i \in ByteStr /\ w \in ByteStr /\ Num(1, 101) \in ByteStr
  <2> DEFINE e == <<>>
  <2>1. e \in ByteStr
    BY <1>0
  <2> HIDE DEF e
  <2> QED BY <1>0, <2>1, Widths, TakeInt, ZenonT(30)
<1>2. ww \in ByteStr
  <2> HIDE DEF w
  <2> QED BY <1>1, Assoc
<1>3. y \in ByteStr /\ Take(y, 1) = Read(10, ww)
  <2> HIDE DEF ww
  <2> QED BY <1>0, <1>2, Widths, TakeInt
<1>4. /\ m \in ByteStr /\ ReadTypedBytes(x) = b
      /\ \A f \in 0..31 : FeatureSupported(h, f) <=> f \in bits
  <2>1. CASE bits = {}
    <3>1. m = Num(1, 101) /\ h = <<>>
      BY <2>1
    <3>2. Take(x, 1) = Read(101, y)
      <4> HIDE DEF y
      <4>1. Take(Then(Num(1, 101), y), 1) = Read(101, y)
        BY <1>0, <1>3, Widths, TakeInt
      <4> QED BY <3>1, <4>1
    <3> DEFINE q == Read(101, y)
    <3>3. q.ok /\ q.v = 101 /\ q.rest = y
      <4> HIDE DEF y
      <4> QED BY ReadIs
    <3> HIDE DEF q, y
    <3>4. ReadTypedBytes(x) = TypedArray(q)
      BY <3>2 DEF ReadTypedBytes, q
    <3>5. TypedArray(q) = Read(<<>>, y)
      BY <3>3, Codes DEF TypedArray
    <3>6. \A f \in 0..31 : ~ FeatureSupported(<<>>, f)
      BY DEF FeatureSupported
    <3> QED BY <1>1, <2>1, <3>1, <3>4, <3>5, <3>6
  <2>2. CASE bits # {}
    <3>1. m = TypedBytes(h) /\ h = SetFeatureBits(bits)
      BY <2>2
    <3>2. h \in Bitmap /\ h # <<>> /\ \A f \in 0..31 : FeatureSupported(h, f) <=> f \in bits
      <4> HIDE DEF h
      <4> QED BY <2>2, <3>1, BitsAre
    <3> HIDE DEF h, m, y
    <3>3. TypedBytes(h) \in ByteStr /\ ReadTypedBytes(Then(TypedBytes(h), y)) = Read(h, y)
      BY <1>3, <3>2, TypedBytesRead
    <3> QED BY <3>1, <3>2, <3>3
  <2> QED BY <2>1, <2>2
<1>5. x \in ByteStr
  <2> HIDE DEF m, y
  <2> QED BY <1>3, <1>4, Assoc
<1>6. Take(Then(n, x), 1) = s
  <2> HIDE DEF x
  <2> QED BY <1>5, Widths, TakeInt
<1>7. Welcome(bits) = Then(n, x)
  <2>1. Welcome(bits) = Then(Then(Then(Then(n, m), i), w), w)
    BY Codes DEF Welcome, W, Then
  <2> HIDE DEF n, m, i, w
  <2>2. Then(Then(Then(Then(n, m), i), w), w) = Then(n, Then(m, Then(i, Then(w, w))))
    BY <1>1, <1>4, FiveParts
  <2> QED BY <2>1, <2>2
<1>8. s.ok /\ s.v = 1 /\ s.rest = x
  <2> HIDE DEF x
  <2> QED BY ReadIs
<1>9. b.ok /\ b.v = h /\ b.rest = y
  <2> HIDE DEF h, y
  <2> QED BY ReadIs
<1>10. Take(y, 1).v = 10
  <2> HIDE DEF y, ww
  <2> QED BY <1>3, ReadIs
<1> HIDE DEF h, n, m, i, w, ww, y, x, b, s
<1>11. ReadWelcome(Welcome(bits)) = Established(b)
  <2>1. ReadWelcome(Welcome(bits)) = AfterStatus(s)
    BY <1>6, <1>7 DEF ReadWelcome
  <2>2. AfterStatus(s) = Established(b)
    BY <1>4, <1>8 DEF AfterStatus
  <2> QED BY <2>1, <2>2
<1>12. Established(b)
         = [kind |-> "ok", granted |-> {f \in DOMAIN Feature : FeatureSupported(h, Feature[f])}]
  BY <1>9, <1>10, Codes DEF Established
<1>13. \A f \in DOMAIN Feature : FeatureSupported(h, Feature[f]) <=> Feature[f] \in bits
  <2>1. ASSUME NEW f \in DOMAIN Feature PROVE FeatureSupported(h, Feature[f]) <=> Feature[f] \in bits
    <3> DEFINE k == Feature[f]
    <3>1. k \in 1..19 \cup {22, 23}
      BY FeatureNumbers
    <3> HIDE DEF k
    <3>2. k \in 0..31
      BY <3>1
    <3>3. FeatureSupported(h, k) <=> k \in bits
      BY <1>4, <3>2
    <3> QED BY <3>3 DEF k
  <2> QED BY <2>1
<1> DEFINE A == {f \in DOMAIN Feature : FeatureSupported(h, Feature[f])}
           B == {f \in DOMAIN Feature : Feature[f] \in bits}
<1>14. A = B
  BY <1>13
<1> HIDE DEF A
<1>15. [kind |-> "ok", granted |-> A].kind = "ok" /\ [kind |-> "ok", granted |-> A].granted = A
  OBVIOUS
<1> QED BY <1>11, <1>12, <1>14, <1>15 DEF A

\* A refusal is never taken for a success.
LEMMA RefusalRead ==
    ASSUME NEW text \in Nat \cup {None}, NEW status \in Int
    PROVE  ReadWelcome(Refusal(text, status)).kind # "ok"
<1> DEFINE n == Num(1, 0)
           w == Num(2, 0)
           o == OptStr(text)
           s == IF status = 0 THEN <<>> ELSE Num(4, status)
           b2 == Then(w, w)
           b3 == Then(b2, w)
           b4 == Then(b3, o)
           b5 == Then(b4, s)
           r == Read(0, b5)
<1>1. o \in ByteStr /\ s \in ByteStr /\ w \in ByteStr
  <2> DEFINE e == <<>>
  <2>1. e \in ByteStr
    BY DEF ByteStr
  <2>2. w \in ByteStr /\ Num(4, status) \in ByteStr
    <3> HIDE DEF e
    <3> QED BY <2>1, Widths, TakeInt
  <2> QED BY <2>1, <2>2, ReadErrorIs
<1>2. Refusal(text, status) = Then(Then(Then(Then(Then(n, w), w), w), o), s)
  BY DEF Refusal, W, Then
<1> HIDE DEF w, o, s
<1>3. b2 \in ByteStr
  BY <1>1, Assoc
<1>4. b3 \in ByteStr
  <2> HIDE DEF b2
  <2> QED BY <1>1, <1>3, Assoc
<1>5. b4 \in ByteStr
  <2> HIDE DEF b3
  <2> QED BY <1>1, <1>4, Assoc
<1>6. b5 \in ByteStr
  <2> HIDE DEF b4
  <2> QED BY <1>1, <1>5, Assoc
<1>7. Then(Then(n, w), w) = Then(n, b2)
  BY <1>1, Widths, TakeFirst
<1>8. Then(Then(n, b2), w) = Then(n, b3)
  <2> HIDE DEF b2
  <2> QED BY <1>1, <1>3, Widths, TakeFirst
<1>9. Then(Then(n, b3), o) = Then(n, b4)
  <2> HIDE DEF b3
  <2> QED BY <1>1, <1>4, Widths, TakeFirst
<1>10. Then(Then(n, b4), s) = Then(n, b5)
  <2> HIDE DEF b4
  <2> QED BY <1>1, <1>5, Widths, TakeFirst
<1>11. Take(Then(n, b5), 1) = r /\ r.ok /\ r.v = 0
  <2> HIDE DEF b5
  <2> QED BY <1>6, Widths, TakeInt, ReadIs
<1> HIDE DEF n, b2, b3, b4, b5, r
<1>12. ReadWelcome(Refusal(text, status)) = AfterStatus(r)
  BY <1>2, <1>7, <1>8, <1>9, <1>10, <1>11 DEF ReadWelcome
<1>13. \A q : Rejected(q).kind # "ok"
  BY DEF Rejected, ClassifyHandshakeError
<1>14. AfterStatus(r).kind # "ok"
  BY <1>11, <1>13 DEF AfterStatus
<1> QED BY <1>12, <1>14

\* The features that both sides have.
LEMMA GrantedIs ==
    ASSUME NEW c \in Confs, NEW bits
    PROVE  {f \in DOMAIN Feature : Feature[f] \in Claimed(c) \cap bits} = Granted(c, bits)
<1>1. ASSUME NEW k \in 1..19 \cup {22, 23}
      PROVE  k \in Claimed(c) <=> (k \in {22, 23} => c.dataCenter)
  BY DEF Claimed
<1>2. \A f \in DOMAIN Feature :
        Feature[f] \in Claimed(c) \cap bits
          <=> Feature[f] \in bits /\ (Feature[f] \in {22, 23} => c.dataCenter)
  BY <1>1, FeatureNumbers
<1> QED BY <1>2 DEF Granted

\* What a client makes of the answer to its request: the features that both
\* sides have, when the server accepts it.
LEMMA AnswerRead ==
    ASSUME NEW c \in Confs, NEW reply \in Replies, ReadWelcome(AnswerTo(c, reply)).kind = "ok"
    PROVE  ReadWelcome(AnswerTo(c, reply)).granted = Granted(c, reply.bits)
<1>1. reply.text \in Nat \cup {None} /\ reply.status \in Int
  BY RepliesAssumption
<1>2. CASE reply.accept
  <2> DEFINE bits == Claimed(c) \cap reply.bits
  <2>1. bits \in SUBSET (0..31)
    BY FeaturesClaimed
  <2>2. AnswerTo(c, reply) = Welcome(bits)
    BY <1>2 DEF AnswerTo
  <2> HIDE DEF bits
  <2>3. ReadWelcome(Welcome(bits)).granted = {f \in DOMAIN Feature : Feature[f] \in bits}
    BY <2>1, WelcomeRead
  <2> QED BY <2>2, <2>3, GrantedIs DEF bits
<1>3. CASE ~ reply.accept
  <2>1. AnswerTo(c, reply) = Refusal(reply.text, reply.status)
    BY <1>3 DEF AnswerTo
  <2> DEFINE t == reply.text
             s == reply.status
  <2> HIDE DEF t, s
  <2>2. ReadWelcome(Refusal(t, s)).kind # "ok"
    BY <1>1, RefusalRead, ZenonT(30) DEF t, s
  <2> QED BY <2>1, <2>2 DEF t, s
<1> QED BY <1>2, <1>3

\* Every step keeps what the two sides know of each other.
LEMMA ShakeStep ==
    ASSUME ShakeInv, FrameInv, [CnNext]_cnVars
    PROVE  ShakeInv'
<1>1. CASE UNCHANGED cnVars
  BY <1>1 DEF ShakeInv, cnVars
<1>2. ASSUME NEW c \in Confs, Configure(c) PROVE ShakeInv'
  <2>1. conf' = c /\ stage' \in {"dial", "invalid"}
    BY <1>2 DEF Configure
  <2> QED BY <2>1 DEF ShakeInv
<1>3. CASE ConnectFails
  BY <1>3 DEF ConnectFails, ShakeInv
<1>4. CASE SendHandshake
  BY <1>4 DEF SendHandshake, ShakeInv
<1>5. ASSUME NEW reply \in Replies, AnswerHandshake(reply) PROVE ShakeInv'
  <2>1. /\ stage = "asked" /\ stage' = "answered" /\ conf' = conf
        /\ wire' = IF Understood(wire).ok /\ reply.accept
                   THEN Welcome(Understood(wire).claimed \cap reply.bits)
                   ELSE Refusal(reply.text, reply.status)
        /\ peer' = [peer EXCEPT !.shake = reply]
    BY <1>5 DEF AnswerHandshake
  <2>2. conf \in Confs /\ wire = HandshakeRequest(conf)
    BY <2>1 DEF ShakeInv
  <2>3. Understood(wire).ok /\ Understood(wire).claimed = Claimed(conf)
    BY <2>2, RequestUnderstood
  <2>4. wire' = AnswerTo(conf, reply)
    BY <2>1, <2>3 DEF AnswerTo
  <2>5. peer'.shake = reply
    BY <2>1 DEF FrameInv
  <2> QED BY <2>1, <2>2, <2>4, <2>5 DEF ShakeInv
<1>6. CASE HandshakeFails
  BY <1>6 DEF HandshakeFails, ShakeInv
<1>7. CASE TakeWelcome
  <2> DEFINE result == ReadWelcome(wire)
  <2>1. /\ stage = "answered" /\ conf' = conf /\ peer' = peer
        /\ link' = [link EXCEPT !.shake = result]
        /\ IF result.kind = "ok" THEN stage' = "up" ELSE stage' = "dial"
    BY <1>7 DEF TakeWelcome
  <2>2. conf \in Confs /\ peer.shake \in Replies /\ wire = AnswerTo(conf, peer.shake)
    BY <2>1 DEF ShakeInv
  <2>3. link'.shake = result
    <3> HIDE DEF result
    <3> QED BY <2>1 DEF FrameInv
  <2>4. result.kind = "ok" => result.granted = Granted(conf, peer.shake.bits)
    <3> DEFINE reply == peer.shake
    <3> HIDE DEF reply
    <3>1. reply \in Replies /\ wire = AnswerTo(conf, reply)
      BY <2>2 DEF reply
    <3>2. result.kind = "ok" => result.granted = Granted(conf, reply.bits)
      BY <2>2, <3>1, AnswerRead
    <3> QED BY <3>2 DEF reply
  <2> HIDE DEF result
  <2> QED BY <2>1, <2>2, <2>3, <2>4 DEF ShakeInv
<1>8. CASE EndRound
  BY <1>8 DEF EndRound, ShakeInv
<1>9. ASSUME NEW f \in Frames, SendFrame(f) PROVE ShakeInv'
  BY <1>9 DEF SendFrame, ShakeInv
<1>10. CASE TakeFrame
  BY <1>10 DEF TakeFrame, ShakeInv
<1> QED BY <1>1, <1>2, <1>3, <1>4, <1>5, <1>6, <1>7, <1>8, <1>9, <1>10 DEF CnNext

\* Every step keeps the frame that is read the one that was sent.
LEMMA FrameStep ==
    ASSUME FrameInv, [CnNext]_cnVars
    PROVE  FrameInv'
<1>1. CASE UNCHANGED cnVars
  BY <1>1 DEF FrameInv, FrameReadAsSent, cnVars
<1>2. ASSUME NEW c \in Confs, Configure(c) PROVE FrameInv'
  <2>1. stage' \in {"dial", "invalid"} /\ UNCHANGED <<wire, peer, link>>
    BY <1>2 DEF Configure
  <2> QED BY <2>1 DEF FrameInv, FrameReadAsSent
<1>3. CASE ConnectFails
  BY <1>3 DEF ConnectFails, FrameInv, FrameReadAsSent
<1>4. CASE SendHandshake
  BY <1>4 DEF SendHandshake, FrameInv, FrameReadAsSent
<1>5. ASSUME NEW reply \in Replies, AnswerHandshake(reply) PROVE FrameInv'
  <2>1. stage' = "answered" /\ peer' = [peer EXCEPT !.shake = reply] /\ link' = link
    BY <1>5 DEF AnswerHandshake
  <2> QED BY <2>1 DEF FrameInv, FrameReadAsSent
<1>6. CASE HandshakeFails
  BY <1>6 DEF HandshakeFails, FrameInv, FrameReadAsSent
<1>7. CASE TakeWelcome
  <2>1. stage' \in {"up", "dial"} /\ link' = [link EXCEPT !.shake = ReadWelcome(wire)] /\ peer' = peer
    BY <1>7 DEF TakeWelcome
  <2> QED BY <2>1 DEF FrameInv, FrameReadAsSent
<1>8. CASE EndRound
  BY <1>8 DEF EndRound, FrameInv, FrameReadAsSent
<1>9. ASSUME NEW f \in Frames, SendFrame(f) PROVE FrameInv'
  <2>1. /\ stage' = "frame" /\ wire' = WriteFrame(f) /\ link' = link
        /\ peer' = [peer EXCEPT !.frame = f]
    BY <1>9 DEF SendFrame
  <2>2. peer'.frame = f
    BY <2>1 DEF FrameInv
  <2> QED BY <2>1, <2>2 DEF FrameInv, FrameReadAsSent
<1>10. CASE TakeFrame
  <2>1. /\ stage = "frame" /\ stage' = "read" /\ peer' = peer
        /\ link' = [link EXCEPT !.frame = ReadFrame(wire)]
    BY <1>10 DEF TakeFrame
  <2>2. peer.frame \in Frames /\ wire = WriteFrame(peer.frame)
    BY <2>1 DEF FrameInv
  <2> DEFINE f == peer.frame
  <2>3. ReadFrame(wire) = [f EXCEPT !.text = IF @ = None THEN 0 ELSE @]
    <3> HIDE DEF f
    <3>1. f \in Frames /\ wire = WriteFrame(f)
      BY <2>2 DEF f
    <3> QED BY <3>1, FrameRead
  <2> DEFINE g == ReadFrame(wire)
  <2>4. g = ReadFrame(wire)
    OBVIOUS
  <2> HIDE DEF g
  <2>5. link'.frame = g /\ link' = [shake |-> link'.shake, frame |-> link'.frame]
    BY <2>1, <2>4 DEF FrameInv
  <2>6. FrameReadAsSent'
    BY <2>1, <2>3, <2>4, <2>5 DEF FrameReadAsSent
  <2> QED BY <2>1, <2>5, <2>6 DEF FrameInv
<1> QED BY <1>1, <1>2, <1>3, <1>4, <1>5, <1>6, <1>7, <1>8, <1>9, <1>10 DEF CnNext

LEMMA ShakeAndFrameInit == CnInit => ShakeInv /\ FrameInv
BY DEF CnInit, ShakeInv, FrameInv, FrameReadAsSent

\* Every frame, whichever of its optional parts it has and whatever its
\* numbers, texts and payload are, is read as the server wrote it
\* (read_incoming_frame).
THEOREM FramesReadAsSent == CnSpec => []FrameReadAsSent
<1>1. FrameInv /\ [CnNext]_cnVars => FrameInv'
  BY FrameStep
<1>2. FrameInv => FrameReadAsSent
  BY DEF FrameInv
<1> QED BY <1>1, <1>2, ShakeAndFrameInit, PTL DEF CnSpec

\* For any configuration and any answer of the server, an established
\* connection has negotiated what both sides mean: the server understood the
\* features, the attributes (any number of them) and the credentials of the
\* request, and the client has exactly the capabilities that it claimed and
\* the server granted (build_handshake_request, handshake_async).
THEOREM NegotiationAgrees == CnSpec => []NegotiatedAsSent
<1>1. ShakeInv /\ FrameInv /\ [CnNext]_cnVars => ShakeInv' /\ FrameInv'
  BY ShakeStep, FrameStep
<1>2. ShakeInv => NegotiatedAsSent
  <2>1. SUFFICES ASSUME ShakeInv, stage = "up" PROVE NegotiatedAsSent
    BY DEF NegotiatedAsSent
  <2>2. conf \in Confs /\ link.shake.granted = Granted(conf, peer.shake.bits)
    BY <2>1 DEF ShakeInv
  <2> DEFINE u == Understood(HandshakeRequest(conf))
  <2>3. u.ok /\ u.attributes = conf.attributes /\ u.credentials = Credentials(conf)
    BY <2>2, RequestUnderstood
  <2> QED BY <2>2, <2>3 DEF NegotiatedAsSent, Granted, Credentials
<1> QED BY <1>1, <1>2, ShakeAndFrameInit, PTL DEF CnSpec
=============================================================================
