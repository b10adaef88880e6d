------------------------------ MODULE Requests ------------------------------
(* The requests of the client: what WriteableReq::write puts on the wire and  *)
(* what WriteableReq::size announces, one operator per request type.          *)
(*                                                                            *)
(* Text and numbers are abstracted as in Wire; a key, a value or an argument  *)
(* is a value of Values, a list of pairs alternates keys and values.          *)
EXTENDS Values

Req(c, n) == [cells |-> c, size |-> n]

WriteAll(vs) == Cat([i \in 1 .. Len(vs) |-> Write(vs[i])])
SizeAll(vs) == Total([i \in 1 .. Len(vs) |-> Size(vs[i])])

(* Rust's `if c { w }`, in write and in size.                                 *)
When(b, c) == IF b THEN c ELSE <<>>
SizeWhen(b, n) == IF b THEN n ELSE 0

(* n integers of w bytes.                                                     *)
Repeat(n, w) == [i \in 1 .. n |-> <<w, 0>>]

-----------------------------------------------------------------------------
(* api/key_value.rs.                                                          *)

(* CacheInfo and its builders: an expiry policy and a transaction each set    *)
(* their flag together with the bytes.                                        *)
KeepBinary == 1
Transactional == 2
HasExpiry == 4
CacheInfo(expiry, tx, keep) ==
  [flags |-> SizeWhen(keep, KeepBinary) + SizeWhen(tx, Transactional)
             + SizeWhen(expiry, HasExpiry),
   expiry |-> expiry, tx |-> tx]
WithKeepBinary(info) ==
  IF Flag(info.flags, KeepBinary) THEN info
  ELSE [info EXCEPT !.flags = @ + KeepBinary]

(* write_cache_info and cache_info_size.                                      *)
WriteInfo(info) ==
  W(4) \o Num(1, info.flags) \o When(info.expiry, Repeat(3, 8))
  \o When(info.tx, W(4))
InfoSize(info) == 4 + 1 + SizeWhen(info.expiry, 8 * 3) + SizeWhen(info.tx, 4)

(* CacheReq::write and CacheReq::size, one operator per group of match arms.  *)
KeyReq(info, k) == Req(WriteInfo(info) \o Write(k), InfoSize(info) + Size(k))
KeysReq(info, ks) ==
  Req(WriteInfo(info) \o Num(4, Len(ks)) \o WriteAll(ks),
      InfoSize(info) + 4 + SizeAll(ks))
KeyValueReq(info, k, v) ==
  Req(WriteInfo(info) \o Write(k) \o Write(v), InfoSize(info) + Size(k) + Size(v))
PutAllReq(info, ps) ==
  Req(WriteInfo(info) \o Num(4, Len(ps) \div 2) \o WriteAll(ps),
      InfoSize(info) + 4 + SizeAll(ps))
ReplaceIfEqualsReq(info, k, old, new) ==
  Req(WriteInfo(info) \o Write(k) \o Write(old) \o Write(new),
      InfoSize(info) + Size(k) + Size(old) + Size(new))
WholeCacheReq(info) == Req(WriteInfo(info), InfoSize(info))
GetSizeReq(info, modes) ==
  Req(WriteInfo(info) \o Num(4, modes) \o Repeat(modes, 1), InfoSize(info) + 4 + modes)
QuerySqlFieldsArgs(info, schema, sql, args) ==
  Req(WriteInfo(WithKeepBinary(info)) \o OptStr(schema) \o W(4) \o Num(4, -1)
      \o Str(sql) \o Num(4, Len(args)) \o WriteAll(args) \o W(1) \o Repeat(6, 1)
      \o W(8) \o W(1),
      InfoSize(WithKeepBinary(info)) + OptStrSize(schema) + 4 + 4 + StrSize(sql) + 4
      + SizeAll(args) + 1 + 6 + 8 + 1)

(* CursorGetPage, CursorClose, ResourceCloseRequest: one id.                  *)
ResourceReq == Req(W(8), 8)

(* CacheGetNamesReq and the two EmptyRequests.                                *)
EmptyReq == Req(<<>>, 0)

-----------------------------------------------------------------------------
(* The queries: query/scan.rs, index.rs, continuous.rs, sql.rs.               *)

ScanQueryRequest(info) ==
  Req(WriteInfo(WithKeepBinary(info)) \o Write(Null) \o W(4) \o W(4) \o W(1),
      InfoSize(WithKeepBinary(info)) + 1 + 4 + 4 + 1)

(* A criterion: the bounds of a range, Null for an open one, or a list.       *)
RangeCriterion(field, lower, upper) ==
  Req(W(1) \o Str(field) \o Repeat(4, 1) \o Write(lower) \o Write(upper),
      1 + StrSize(field) + 1 + 1 + 1 + 1 + Size(lower) + Size(upper))
InCriterion(field, vs) ==
  Req(W(1) \o Str(field) \o Num(4, Len(vs)) \o WriteAll(vs),
      1 + StrSize(field) + 4 + SizeAll(vs))
IndexQueryRequest(info, limit, type, index, criteria) ==
  Req(WriteInfo(WithKeepBinary(info)) \o W(4) \o W(1) \o W(4) \o When(limit, W(4))
      \o Str(type) \o OptStr(index)
      \o (IF criteria = <<>> THEN Write(Null)
          ELSE W(1) \o Num(4, Len(criteria))
               \o Cat([i \in 1 .. Len(criteria) |-> criteria[i].cells]))
      \o Write(Null),
      InfoSize(WithKeepBinary(info)) + 4 + 1 + 4 + SizeWhen(limit, 4) + StrSize(type)
      + OptStrSize(index)
      + (IF criteria = <<>> THEN 1
         ELSE 1 + 4 + Total([i \in 1 .. Len(criteria) |-> criteria[i].size]))
      + 1)

(* ContinuousQueryRequest keeps one flag and none of the optional bytes.      *)
ContinuousQueryRequest(info) ==
  Req(W(4) \o Num(1, info.flags % 2) \o W(4) \o W(8) \o W(1) \o Write(Null),
      4 + 1 + 4 + 8 + 1 + 1)

(* SqlFieldsQueryRequest: the two trailing parts only when negotiated.        *)
SqlFieldsQueryRequest(info, schema, sql, args, caps, parts, initiator) ==
  Req(WriteInfo(WithKeepBinary(info)) \o OptStr(schema) \o W(4) \o Num(4, -1)
      \o Str(sql) \o Num(4, Len(args)) \o WriteAll(args) \o W(1) \o Repeat(6, 1)
      \o W(8) \o W(1)
      \o When(caps.batch, Num(4, parts) \o Repeat(parts, 4) \o W(4))
      \o When(caps.initiator, OptStr(initiator)),
      InfoSize(WithKeepBinary(info)) + OptStrSize(schema) + 4 + 4 + StrSize(sql) + 4
      + SizeAll(args) + 1 + 6 + 8 + 1
      + SizeWhen(caps.batch, 4 + SizeWhen(parts # None, parts * 4) + 4)
      + SizeWhen(caps.initiator, OptStrSize(initiator)))
SqlQueryRequest(info, type, sql, args) ==
  Req(WriteInfo(WithKeepBinary(info)) \o Str(type) \o Str(sql) \o Num(4, Len(args))
      \o WriteAll(args) \o Repeat(3, 1) \o W(4) \o W(8),
      InfoSize(WithKeepBinary(info)) + StrSize(type) + StrSize(sql) + 4 + SizeAll(args)
      + 1 + 1 + 1 + 4 + 8)

-----------------------------------------------------------------------------
(* data_structures.rs.  group is None or a name; conf says whether there is   *)
(* a configuration at all.                                                    *)

AtomicLongCreateRequest(name, conf, group) ==
  Req(Str(name) \o W(8) \o W(1) \o When(conf, W(4) \o W(1) \o W(4) \o OptStr(group)),
      StrSize(name) + 8 + 1 + SizeWhen(conf, 4 + 1 + 4 + OptStrSize(group)))
AtomicLongIdentityRequest(name, group) ==
  Req(Str(name) \o OptStr(group), StrSize(name) + OptStrSize(group))
(* AtomicLongLongRequest and AtomicLongCompareAndSetRequest: n numbers more.  *)
AtomicLongLongRequest(name, group, n) ==
  LET id == AtomicLongIdentityRequest(name, group)
  IN  Req(id.cells \o Repeat(n, 8), id.size + 8 * n)
SetGetOrCreateRequest(name, conf, group) ==
  Req(Str(name) \o W(1)
      \o When(conf, W(1) \o W(1) \o W(4) \o OptStr(group) \o W(1)),
      StrSize(name) + 1 + SizeWhen(conf, 1 + 1 + 4 + OptStrSize(group) + 1))
SetIdentityRequest(name) == Req(Str(name) \o W(4) \o W(1), StrSize(name) + 4 + 1)
SetSingleKeyRequest(name, v) ==
  LET id == SetIdentityRequest(name)
  IN  Req(id.cells \o W(1) \o Write(v), id.size + 1 + Size(v))
SetMultiKeyRequest(name, vs) ==
  LET id == SetIdentityRequest(name)
  IN  Req(id.cells \o W(1) \o Num(4, Len(vs)) \o WriteAll(vs),
          id.size + 1 + 4 + SizeAll(vs))
SetIteratorStartRequest(name) ==
  LET id == SetIdentityRequest(name) IN Req(id.cells \o W(4), id.size + 4)
SetIteratorGetPageRequest == Req(W(8) \o W(4), 8 + 4)

-----------------------------------------------------------------------------
(* binary.rs, tx.rs, transport.rs, affinity.rs.                               *)

BinaryTypeNameGetRequest == Req(W(1) \o W(4), 1 + 4)
BinaryTypeNamePutRequest(name) == Req(W(1) \o W(4) \o Str(name), 1 + 4 + StrSize(name))
BinaryTypeGetRequest == Req(W(4), 4)

(* Faulty variant of MetaSize: enum values are counted for every type.        *)
MetaSizeWithVariants(m) ==
  4 + StrSize(m.name) + OptStrSize(m.aff) + 4
  + Total([i \in 1 .. Len(m.fields) |-> StrSize(m.fields[i].name) + 4 + 4])
  + 1 + 4 + Total([i \in 1 .. Len(m.variants) |-> StrSize(m.variants[i][1]) + 4])
  + 4 + Total([i \in 1 .. Len(m.schemas) |-> 4 + 4 + 4 * Len(m.schemas[i].ids)])

(* write_binary_metadata and binary_metadata_size: enum values are on the     *)
(* wire only for an enum.                                                     *)
MetaSize(m) ==
  4 + StrSize(m.name) + OptStrSize(m.aff) + 4
  + Total([i \in 1 .. Len(m.fields) |-> StrSize(m.fields[i].name) + 4 + 4])
  + 1
  + SizeWhen(m.enum,
             4 + Total([i \in 1 .. Len(m.variants) |-> StrSize(m.variants[i][1]) + 4]))
  + 4 + Total([i \in 1 .. Len(m.schemas) |-> 4 + 4 + 4 * Len(m.schemas[i].ids)])

WriteMeta(id, m) ==
  Num(4, id) \o Str(m.name) \o OptStr(m.aff)
  \o Num(4, Len(m.fields))
  \o Cat([i \in 1 .. Len(m.fields) |->
            Str(m.fields[i].name) \o Num(4, m.fields[i].code) \o Num(4, m.fields[i].id)])
  \o Num(1, IF m.enum THEN 1 ELSE 0)
  \o When(m.enum, Num(4, Len(m.variants))
                  \o Cat([i \in 1 .. Len(m.variants) |->
                            Str(m.variants[i][1]) \o Num(4, m.variants[i][2])]))
  \o Num(4, Len(m.schemas))
  \o Cat([i \in 1 .. Len(m.schemas) |->
            LET ids == m.schemas[i].ids
            IN  Num(4, m.schemas[i].id) \o Num(4, Len(ids))
                \o [k \in 1 .. Len(ids) |-> <<4, ids[k]>>]])

(* BinaryTypePutRequest.                                                      *)
BinaryTypePutRequest(id, m) == Req(WriteMeta(id, m), MetaSize(m))

(* read_binary_metadata, and into_registered of what it read.                 *)
MetaLayout ==
  << <<"int", 4>>, <<"str">>, <<"opt">>,
     <<"rep", << <<"str">>, <<"int", 4>>, <<"int", 4>> >> >>,
     <<"if", << <<"str">>, <<"int", 4>> >> >>,
     <<"rep", << <<"int", 4>>, <<"rep", << <<"int", 4>> >> >> >> >> >>
ReadMeta(c) ==
  LET r == Parse(MetaLayout, c)
      m == r.v
  IN  As(r, [id |-> m[1],
             meta |-> [name |-> m[2], aff |-> m[3], enum |-> m[5][1],
                       variants |-> m[5][2],
                       fields |-> [i \in 1 .. Len(m[4]) |->
                                     [name |-> m[4][i][1], code |-> m[4][i][2],
                                      id |-> m[4][i][3]]],
                       schemas |-> [i \in 1 .. Len(m[6]) |->
                                      [id |-> m[6][i][1],
                                       ids |-> [k \in 1 .. Len(m[6][i][2]) |->
                                                  m[6][i][2][k][1]]]]]])

TxStartRequest(label) ==
  Req(W(1) \o W(1) \o W(8) \o OptStr(label), 1 + 1 + 8 + OptStrSize(label))
TxEndRequest == Req(W(4) \o W(1), 4 + 1)
NodeEndpointsReq == Req(W(8) \o W(8), 16)
DataCenterNodesReq(dc) == Req(WriteString(dc), 4 + dc)

(* CachePartitionsRequest: a missing data center id is the length -1.         *)
CachePartitionsRequest(all, withDc, dc, n) ==
  Req(When(all, W(1))
      \o When(withDc, IF dc = None THEN Num(4, -1) ELSE WriteString(dc))
      \o Num(4, n) \o Repeat(n, 4),
      SizeWhen(all, 1) + SizeWhen(withDc, 4 + SizeWhen(dc # None, dc)) + 4 + n * 4)

-----------------------------------------------------------------------------
(* cluster.rs, services.rs, compute/mod.rs, streamer.rs.                      *)

(* A list of node ids: the count, then two i64 each (parse_uuid_parts).       *)
NodeIds(n) == Num(4, n) \o Repeat(2 * n, 8)

ClusterChangeStateRequest(force) == Req(W(1) \o When(force, W(1)), 1 + SizeWhen(force, 1))
ClusterWalStateRequest(cache, set) ==
  Req(WriteString(cache) \o When(set, W(1)), 4 + cache + SizeWhen(set, 1))
NodeIdsRequest == Req(W(8) \o W(4), 8 + 4)
NodeInfoRequest(n) == Req(NodeIds(n), 4 + n * 16)
NameRequest(name) == Req(WriteString(name), 4 + name)

(* write_nullable_map and nullable_map_size; the map is None or alternates    *)
(* names and values.                                                          *)
WriteNullableMap(some, names, vs) ==
  IF some THEN Num(4, Len(vs)) \o Cat([i \in 1 .. Len(vs) |-> Str(names[i]) \o Write(vs[i])])
  ELSE Num(4, -1)
NullableMapSize(some, names, vs) ==
  IF some THEN 4 + Total([i \in 1 .. Len(vs) |-> names[i] + 1 + 4 + Size(vs[i])]) ELSE 4

(* ServiceInvokeRequest: the call context goes out when there is one or when  *)
(* the server knows the feature.                                              *)
ServiceInvokeRequest(service, nodes, method, args, ctx, names, vs, feature) ==
  Req(Str(service) \o W(1) \o W(8) \o NodeIds(nodes) \o Str(method) \o Num(4, Len(args))
      \o Cat([i \in 1 .. Len(args) |-> W(4) \o Write(args[i])])
      \o When(ctx \/ feature, WriteNullableMap(ctx, names, vs)),
      StrSize(service) + 1 + 8 + 4 + nodes * 16 + StrSize(method) + 4
      + Total([i \in 1 .. Len(args) |-> 4 + Size(args[i])])
      + SizeWhen(ctx \/ feature, NullableMapSize(ctx, names, vs)))

(* ComputeExecuteRequest: no argument is the null value.                      *)
ComputeExecuteRequest(nodes, task, arg) ==
  Req(NodeIds(nodes) \o W(1) \o W(8) \o Str(task) \o Write(arg),
      4 + nodes * 16 + 1 + 8 + StrSize(task) + Size(arg))

StreamerStartRequest(ps) ==
  Req(W(4) \o W(1) \o W(4) \o W(4) \o Write(Null) \o Num(4, Len(ps) \div 2) \o WriteAll(ps),
      4 + 1 + 4 + 4 + 1 + 4 + SizeAll(ps))
StreamerAddDataRequest(ps) ==
  Req(W(8) \o W(1) \o Num(4, Len(ps) \div 2) \o WriteAll(ps), 8 + 1 + 4 + SizeAll(ps))

-----------------------------------------------------------------------------
(* replication.rs, invoke.rs.                                                 *)

(* CacheVersion::as_binary_object; ty and fs are its type and field names.    *)
CacheVersion(ty, fs) ==
  Object(ty, fs, <<V("Int", <<1>>), V("Int", <<2>>), V("Long", <<3>>)>>)

PutAllConflictRequest(info, ks, version) ==
  Req(WriteInfo(info) \o Num(4, Len(ks))
      \o Cat([i \in 1 .. Len(ks) |->
                Write(ks[i]) \o Write(ks[i]) \o Write(version) \o W(8)]),
      InfoSize(info) + 4
      + Total([i \in 1 .. Len(ks) |-> Size(ks[i]) + Size(ks[i]) + Size(version) + 8]))
RemoveAllConflictRequest(info, ks, version) ==
  Req(WriteInfo(info) \o Num(4, Len(ks))
      \o Cat([i \in 1 .. Len(ks) |-> Write(ks[i]) \o Write(version)]),
      InfoSize(info) + 4 + Total([i \in 1 .. Len(ks) |-> Size(ks[i]) + Size(version)]))

InvokeRequest(info, k, processor, args) ==
  Req(WriteInfo(info) \o Write(k) \o Write(processor) \o W(1) \o Num(4, Len(args))
      \o WriteAll(args),
      InfoSize(info) + Size(k) + Size(processor) + 1 + 4 + SizeAll(args))

(* InvokeAllPreparedFirstRequest: the first key is already encoded.           *)
InvokeAllPreparedFirst(info, first, rest, processor, args) ==
  Req(WriteInfo(info) \o Num(4, Len(first) + Len(rest)) \o WriteAll(first) \o WriteAll(rest)
      \o Write(processor) \o W(1) \o Num(4, Len(args)) \o WriteAll(args),
      InfoSize(info) + 4 + SizeAll(first) + SizeAll(rest) + Size(processor) + 1 + 4
      + SizeAll(args))
=============================================================================
