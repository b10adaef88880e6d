------------------------------ MODULE MCBinary ------------------------------
EXTENDS Binary, TLC

Names == 1 .. 70

\* Every name has an id of its own, but the fields 2 and 3 share one.
MCTypeId == [n \in Names |-> 100 + n]
MCFieldId == [n \in Names |-> IF n = 3 THEN 202 ELSE 200 + n]

\* Callers are interchangeable: the run checks safety only.
TaskSymmetry == Permutations(Tasks)

I(n) == V("Int", <<n>>)
S(n) == V("String", <<n>>)
Point == Object(1, <<1, 2>>, <<I(7), S(4)>>)

\* Objects of type 1: fields 1 and 2, field 3 alone with the id of 2, and the
\* fields 4 and 1 that another client writes.
MCOwn == {Point, Object(1, <<3, 1>>, <<S(1), I(8)>>)}
MCForeign == {Object(1, <<4, 1>>, <<I(5), I(6)>>)}

Scalars ==
  {V("Byte", <<1>>), V("Short", <<2>>), I(3), V("Long", <<4>>), V("Float", <<5>>),
   V("Double", <<6>>), V("Char", <<7>>), V("Bool", <<1>>), V("Uuid", <<8, 9>>),
   V("Date", <<10>>), V("Time", <<11>>), V("Timestamp", <<12, 13>>), V("Enum", <<14, 1>>),
   Null, S(0), S(2), V("Binary", <<3>>), V("Binary", <<0>>), V("Decimal", <<2, 5>>),
   V("OpaqueMarshal", <<6>>)}
Containers(a, b) ==
  {Holding("Array", <<>>, <<a, b>>), Holding("Map", <<1>>, <<a, b>>),
   Holding("Collection", <<1>>, <<a, b>>)}
Typed == {Holding("ArrTyped", <<Code[c]>>, <<e, Null>>) :
            c \in {"ArrString"}, e \in {S(0), S(3)}}
         \cup {Holding("ArrTyped", <<Code.ArrUuid>>, <<V("Uuid", <<1, 2>>)>>),
               Holding("ArrTyped", <<Code.ArrDecimal>>, <<Null, V("Decimal", <<1, 1>>)>>)}
Prims == {V("ArrPrim", <<Code[c], 1, 0>>) : c \in DOMAIN PrimWidth \ {"ArrByte"}}
Java == {Object(JavaLong, <<1>>, <<V("Long", <<5>>)>>), Object(JavaString, <<1>>, <<S(5)>>)}

\* Objects whose second field starts at 255 and 256, at 65535 and 65536.
Edge == {Object(2, <<1, 2, 4>>, <<S(n - HeaderLen - 5), I(1), S(2)>>) :
           n \in {254, 255, 256, 257, 65535, 65536, 65537}}
        \cup {Object(2, <<1, 2>>, <<S(n - HeaderLen - 5), I(1)>>) :
           n \in {254, 255, 256, 65534, 65535, 65536}}
Fields == {Object(2, <<1, 2>>, <<v, I(1)>>) : v \in Scalars \cup Typed}
          \cup {Object(2, <<>>, <<>>), Object(2, <<1>>, <<Point>>)}
Nested ==
  LET simple == {I(1), S(3), Null, Point}
      once == UNION {Containers(a, b) : a \in simple, b \in simple}
  IN  once \cup UNION {Containers(S(1), c) : c \in once}
           \cup {Object(2, <<1, 2>>, <<c, I(1)>>) : c \in once}
Bulk == {BulkPutParams(<<PutParams(V("Long", <<1>>), Point, n, s)>>) : n \in 0 .. 2, s \in 0 .. 1}
        \cup {CacheVersion(3, <<5, 6, 7>>)}
MCSamples ==
  Scalars \cup Typed \cup Prims \cup Java \cup Edge \cup Fields \cup Nested \cup Bulk
  \cup {Holding("WrappedData", <<>>, <<v>>) : v \in {Point, S(1)}}

Infos == {CacheInfo(e, t, k) : e, t, k \in BOOLEAN}
Vals == {I(1), S(3), Point}
Lists == {<<>>, <<I(1)>>, <<S(3), Point>>}
Pairs == {<<>>, <<I(1), Point>>}
Opt == {None, 0, 3}
KeyValueFrames ==
  {KeyReq(i, v) : i \in Infos, v \in Vals} \cup {KeysReq(i, l) : i \in Infos, l \in Lists}
  \cup {KeyValueReq(i, v, w) : i \in Infos, v, w \in Vals}
  \cup {PutAllReq(i, p) : i \in Infos, p \in Pairs}
  \cup {ReplaceIfEqualsReq(i, v, S(1), w) : i \in Infos, v, w \in Vals}
  \cup {WholeCacheReq(i) : i \in Infos} \cup {GetSizeReq(i, n) : i \in Infos, n \in 0 .. 2}
  \cup {QuerySqlFieldsArgs(i, s, 4, l) : i \in Infos, s \in Opt, l \in Lists}
  \cup {PutAllConflictRequest(i, l, CacheVersion(3, <<5, 6, 7>>)) : i \in Infos, l \in Lists}
  \cup {RemoveAllConflictRequest(i, l, CacheVersion(3, <<5, 6, 7>>)) : i \in Infos, l \in Lists}
  \cup {InvokeRequest(i, v, Point, l) : i \in Infos, v \in Vals, l \in Lists}
  \cup {InvokeAllPreparedFirst(i, f, r, Point, l) :
          i \in Infos, f \in {<<>>, <<Point>>}, r \in Lists, l \in Lists}
Criteria == {<<>>, <<RangeCriterion(2, Null, I(1)), InCriterion(2, <<I(1), S(2)>>)>>,
             <<RangeCriterion(1, S(1), S(2))>>}
QueryFrames ==
  {ScanQueryRequest(i) : i \in Infos} \cup {ContinuousQueryRequest(i) : i \in Infos}
  \cup {IndexQueryRequest(i, b, 3, n, c) : i \in Infos, b \in BOOLEAN, n \in Opt, c \in Criteria}
  \cup {SqlFieldsQueryRequest(i, 2, 5, l, [batch |-> b, initiator |-> c], p, n) :
          i \in Infos, l \in Lists, b, c \in BOOLEAN, p \in Opt, n \in Opt}
  \cup {SqlQueryRequest(i, 3, 5, l) : i \in Infos, l \in Lists}
StructureFrames ==
  {AtomicLongCreateRequest(3, b, g) : b \in BOOLEAN, g \in Opt}
  \cup {AtomicLongLongRequest(3, g, n) : g \in Opt, n \in 0 .. 2}
  \cup {SetGetOrCreateRequest(3, b, g) : b \in BOOLEAN, g \in Opt}
  \cup {SetSingleKeyRequest(3, v) : v \in Vals} \cup {SetMultiKeyRequest(3, l) : l \in Lists}
  \cup {SetIteratorStartRequest(3), SetIteratorGetPageRequest, ResourceReq, EmptyReq}
Metas ==
  {MetaOf(Point), EnumMeta(2, << <<1, 0>>, <<4, 7>> >>), NameOnly(2, TRUE),
   [MetaOf(Point) EXCEPT !.aff = 1],
   [EnumMeta(2, << <<1, 0>> >>) EXCEPT !.enum = FALSE]}
ServiceFrames ==
  {BinaryTypeNameGetRequest, BinaryTypeNamePutRequest(4), BinaryTypeGetRequest}
  \cup {BinaryTypePutRequest(9, m) : m \in Metas}
  \cup {TxStartRequest(l) : l \in Opt} \cup {TxEndRequest, NodeEndpointsReq, NodeIdsRequest}
  \cup {DataCenterNodesReq(3), NameRequest(4)}
  \cup {CachePartitionsRequest(a, b, d, n) : a, b \in BOOLEAN, d \in Opt, n \in 0 .. 2}
  \cup {ClusterChangeStateRequest(b) : b \in BOOLEAN}
  \cup {ClusterWalStateRequest(3, b) : b \in BOOLEAN} \cup {NodeInfoRequest(n) : n \in 0 .. 2}
  \cup {ServiceInvokeRequest(3, n, 4, l, c, <<2, 5>>, v, f) :
          n \in 0 .. 1, l \in Lists, c, f \in BOOLEAN, v \in Lists}
  \cup {ComputeExecuteRequest(n, 4, v) : n \in 0 .. 2, v \in Vals \cup {Null}}
  \cup {StreamerStartRequest(p) : p \in Pairs} \cup {StreamerAddDataRequest(p) : p \in Pairs}
  \cup {CreateWithNameReq(3), GetOrCreateWithNameReq(0), GetConfigReq, DestroyReq}
MCFrames == KeyValueFrames \cup QueryFrames \cup StructureFrames \cup ServiceFrames

Entity(kf, fields, aliases, indexes) ==
  [key |-> 3, value |-> 4, table |-> 2, keyField |-> kf, valueField |-> 0,
   fields |-> fields, aliases |-> aliases, indexes |-> indexes]
EntityLists ==
  {<<>>, <<Entity(0, <<>>, <<>>, <<>>)>>,
   <<Entity(2, <<<<1, 2, 0, 1, 5, -1>>, <<2, 3, 1, 0, -1, 4>>>>, <<<<1, 2>>>>,
            <<<<3, 1, -1, <<<<1, 0>>, <<2, 1>>>>>>, <<4, 0, 10, <<>>>>>>),
     Entity(0, <<<<1, 2, 0, 0, 1, 1>>>>, <<>>, <<>>)>>}
MCConfigs ==
  [name : {3}, region : {None, 2}, group : {None, 0}, schema : {None, 4},
   keys : {<<>>} \cup {<<l>> : l \in {<<>>, <<<<1, 2>>, <<3, 4>>>>}},
   entities : {<<>>} \cup {<<l>> : l \in EntityLists}, expiry : BOOLEAN]
=============================================================================
