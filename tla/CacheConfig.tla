----------------------------- MODULE CacheConfig -----------------------------
(* The cache configuration on the wire: protocol/cache_config.rs and the      *)
(* requests of api/cache_config.rs.                                           *)
(*                                                                            *)
(* get_cache_configuration_bytes writes <<code, value>> properties behind     *)
(* their number; read_cache_configuration reads the server's answer, which    *)
(* has no codes, position by position.                                        *)
EXTENDS Requests

(* The width of each fixed-size property, in the order they are written; 0 is *)
(* a typed string.                                                            *)
WrittenProperties ==
  << <<"Name", 0>>, <<"CacheAtomicityMode", 4>>, <<"Backups", 4>>, <<"CacheMode", 4>>,
     <<"CopyOnRead", 1>>, <<"EagerTtl", 1>>, <<"StatisticsEnabled", 1>>,
     <<"DefaultLockTimeout", 8>>, <<"MaxConcurrentAsyncOps", 4>>,
     <<"MaxQueryIterators", 4>>, <<"IsOnheapCacheEnabled", 1>>,
     <<"PartitionLossPolicy", 4>>, <<"QueryDetailMetricsSize", 4>>,
     <<"QueryParallelism", 4>>, <<"ReadFromBackup", 1>>, <<"RebalanceBatchSize", 4>>,
     <<"RebalanceBatchesPrefetchCount", 8>>, <<"RebalanceDelay", 8>>,
     <<"RebalanceMode", 4>>, <<"RebalanceOrder", 4>>, <<"RebalanceThrottle", 8>>,
     <<"RebalanceTimeout", 8>>, <<"SqlEscapeAll", 1>>, <<"SqlIndexInlineMaxSize", 4>>,
     <<"WriteSynchronizationMode", 4>> >>
MinConfigParams == 25

(* write_cache_key_configs: <<type name, affinity key field>> pairs.          *)
WriteKeyConfigs(ks) ==
  Num(4, Len(ks)) \o Cat([i \in 1 .. Len(ks) |-> Str(ks[i][1]) \o Str(ks[i][2])])

(* write_optional_string: null for the empty string.                          *)
WriteOptional(k) == IF k = 0 THEN Write(Null) ELSE Str(k)

(* write_query_fields, write_field_aliases, write_query_indexes and           *)
(* write_query_index_fields.                                                  *)
WriteQueryFields(fs) ==
  Num(4, Len(fs))
  \o Cat([i \in 1 .. Len(fs) |->
            Str(fs[i][1]) \o Str(fs[i][2]) \o Num(1, fs[i][3]) \o Num(1, fs[i][4])
            \o Write(Null) \o Num(4, fs[i][5]) \o Num(4, fs[i][6])])
WriteAliases(as) ==
  Num(4, Len(as)) \o Cat([i \in 1 .. Len(as) |-> Str(as[i][1]) \o Str(as[i][2])])
WriteIndexFields(fs) ==
  Num(4, Len(fs)) \o Cat([i \in 1 .. Len(fs) |-> Str(fs[i][1]) \o Num(1, fs[i][2])])
WriteIndexes(is) ==
  Num(4, Len(is))
  \o Cat([i \in 1 .. Len(is) |->
            Str(is[i][1]) \o Num(1, is[i][2]) \o Num(4, is[i][3])
            \o WriteIndexFields(is[i][4])])

(* write_query_entities.                                                      *)
WriteEntities(es) ==
  Num(4, Len(es))
  \o Cat([i \in 1 .. Len(es) |->
            Str(es[i].key) \o Str(es[i].value) \o WriteOptional(es[i].table)
            \o WriteOptional(es[i].keyField) \o WriteOptional(es[i].valueField)
            \o WriteQueryFields(es[i].fields) \o WriteAliases(es[i].aliases)
            \o WriteIndexes(es[i].indexes)])

(* read_query_fields and the others, as layouts.  The reader unwraps every    *)
(* string but the two field names; read_object takes the type code of the     *)
(* null default value.                                                        *)
KeyConfigLayout == << <<"str">>, <<"str">> >>
QueryFieldLayout ==
  << <<"str">>, <<"str">>, <<"int", 1>>, <<"int", 1>>, <<"int", 1>>, <<"int", 4>>,
     <<"int", 4>> >>
AliasLayout == << <<"str">>, <<"str">> >>
IndexFieldLayout == << <<"str">>, <<"int", 1>> >>
IndexLayout == << <<"str">>, <<"int", 1>>, <<"int", 4>>, <<"rep", IndexFieldLayout>> >>
EntityLayout ==
  << <<"str">>, <<"str">>, <<"str">>, <<"opt">>, <<"opt">>, <<"rep", QueryFieldLayout>>,
     <<"rep", AliasLayout>>, <<"rep", IndexLayout>> >>

(* read_query_entities: the two optional names become empty strings, the      *)
(* default value of a field is dropped.                                       *)
ReadEntities(c) ==
  LET r == ParseItem(<<"rep", EntityLayout>>, c)
      orEmpty(k) == IF k = None THEN 0 ELSE k
  IN  As(r, [i \in 1 .. Len(r.v) |->
               [key |-> r.v[i][1], value |-> r.v[i][2], table |-> r.v[i][3],
                keyField |-> orEmpty(r.v[i][4]), valueField |-> orEmpty(r.v[i][5]),
                fields |-> [k \in 1 .. Len(r.v[i][6]) |->
                              LET f == r.v[i][6][k]
                              IN  <<f[1], f[2], f[3], f[4], f[6], f[7]>>],
                aliases |-> r.v[i][7], indexes |-> r.v[i][8]]])

(* The optional properties; keys and entities are <<>> or <<list>>.           *)
OptionalProperties(c) ==
  When(c.region # None, <<Str(c.region)>>) \o When(c.group # None, <<Str(c.group)>>)
  \o When(c.schema # None, <<Str(c.schema)>>)
  \o (IF c.keys = <<>> THEN <<>> ELSE <<WriteKeyConfigs(c.keys[1])>>)
  \o (IF c.entities = <<>> THEN <<>> ELSE <<WriteEntities(c.entities[1])>>)
  \o When(c.expiry, <<Num(1, 1) \o Repeat(3, 8)>>)

(* Faulty variant of ConfigCount: leaves out the key configurations.          *)
ConfigCountWithoutKeys(c) ==
  MinConfigParams + Len(OptionalProperties(c)) - Len(c.keys)

(* config_param_len: 25, and one more for each option that is set.            *)
ConfigCount(c) ==
  MinConfigParams + SizeWhen(c.region # None, 1) + SizeWhen(c.group # None, 1)
  + SizeWhen(c.schema # None, 1) + Len(c.keys) + Len(c.entities) + SizeWhen(c.expiry, 1)

(* get_cache_configuration_bytes; each property is behind its i16 code.       *)
ConfigProperties(c) ==
  [i \in 1 .. Len(WrittenProperties) |->
     IF WrittenProperties[i][2] = 0 THEN Str(c.name) ELSE W(WrittenProperties[i][2])]
  \o OptionalProperties(c)
ConfigBytes(c) ==
  LET ps == ConfigProperties(c)
      opts == Cat([i \in 1 .. Len(ps) |-> W(2) \o ps[i]])
  IN  Num(4, Bytes(opts)) \o Num(2, ConfigCount(c)) \o opts

(* CacheCreateWithConfigReq, CacheGetOrCreateWithConfigReq: size encodes the  *)
(* configuration a second time.                                               *)
CreateWithConfigReq(c) == Req(ConfigBytes(c), Bytes(ConfigBytes(c)))

(* CacheCreateWithNameReq, CacheGetOrCreateWithNameReq, CacheGetConfigReq,    *)
(* CacheDestroyReq.                                                           *)
CreateWithNameReq(name) == Req(Str(name), name + 5)
GetOrCreateWithNameReq(name) == Req(Str(name), name + 5)
GetConfigReq == Req(W(4) \o W(1), 5)
DestroyReq == Req(W(4), 4)
=============================================================================
