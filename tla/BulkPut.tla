------------------------------- MODULE BulkPut -------------------------------
(* The argument and the answer of the server's PutAllComputeTask:             *)
(* compute/bulk_put.rs.  Everything is built from and read back into the      *)
(* values of Values; the registry decides whether the answer can be read.     *)
EXTENDS CacheConfig

(* The frozen class and field names, as numbers.                              *)
Class == [BulkPutParams |-> 41, PutParams |-> 42, IndexContext |-> 43,
          SaveStrategy |-> 44, PutResult |-> 45, BulkPutResponseParams |-> 46]
FieldName ==
  [putParamsList |-> 51, cacheName |-> 52, key |-> 53, object |-> 54,
   forceUpdate |-> 55, indexContext |-> 56, isSecondaryIndexesExists |-> 57,
   saveStrategy |-> 58, index |-> 59, unique |-> 60, atomic |-> 61, cache |-> 62,
   putResultMap |-> 63, status |-> 64, message |-> 65]

ArrayList == 1
HashMap == 1

(* SaveStrategy::as_ignite_value.                                             *)
SaveStrategy(ordinal) == V("Enum", <<TypeId[Class.SaveStrategy], ordinal>>)

(* map_bool_to_ignite, map_string_to_ignite over n entries.                   *)
MapToIgnite(v, n) ==
  Holding("Map", <<HashMap>>,
          [i \in 1 .. 2 * n |-> IF i % 2 = 1 THEN V("String", <<i>>) ELSE v])

(* IndexContext::to_binary, with n indexes.                                   *)
IndexContext(n) ==
  Object(Class.IndexContext, <<FieldName.unique, FieldName.atomic, FieldName.cache>>,
         <<MapToIgnite(V("Bool", <<1>>), n), MapToIgnite(V("Bool", <<0>>), n),
           MapToIgnite(V("String", <<9>>), n)>>)

(* encode_wrapped_binary_object.                                              *)
WrappedBinaryObject(o) ==
  LET c == Write(o) IN V("PreEncoded", AsNumbers(Num(1, Code.WrappedData)
                                                 \o Num(4, Bytes(c)) \o c \o Num(4, 0)))

(* PutParams::to_binary.                                                      *)
PutParamsFields ==
  <<FieldName.cacheName, FieldName.key, FieldName.object, FieldName.forceUpdate,
    FieldName.indexContext, FieldName.isSecondaryIndexesExists, FieldName.saveStrategy,
    FieldName.index>>
PutParams(key, object, indexes, strategy) ==
  Object(Class.PutParams, PutParamsFields,
         <<V("String", <<5>>), key, WrappedBinaryObject(object), V("Bool", <<1>>),
           IndexContext(indexes), V("Bool", <<0>>), SaveStrategy(strategy),
           V("Int", <<0>>)>>)

(* BulkPutParams::to_binary.                                                  *)
BulkPutParams(ps) ==
  Object(Class.BulkPutParams, <<FieldName.putParamsList>>,
         <<Holding("Collection", <<ArrayList>>, ps)>>)

(* all_metadata_builders: the types whose names register_types sends, in      *)
(* this order.                                                                *)
RequestTypes == <<Class.BulkPutParams, Class.PutParams, Class.IndexContext,
                  Class.SaveStrategy>>

(* prewarm_response_schemas: what building the two throwaway objects leaves   *)
(* in the registry.                                                           *)
PutResultFields == <<FieldName.status, FieldName.message, FieldName.key, FieldName.index>>
PrewarmResponse(reg) ==
  LET one == RegisterType(reg, TypeId[Class.BulkPutResponseParams],
               RegisteredTypeFromSchema(Class.BulkPutResponseParams,
                                        <<FieldName.putResultMap>>, <<Code.Map>>))
  IN  RegisterType(one, TypeId[Class.PutResult],
        RegisteredTypeFromSchema(Class.PutResult, PutResultFields,
          <<Code.Enum, Code.Null, Code.Long, Code.Int>>))

(* BinaryObject::field: the value at the position of the name, Null when the  *)
(* name or the value is not there.                                            *)
FieldOf(o, name) ==
  LET at == {i \in 1 .. Len(o.fs) : o.fs[i] = name}
      i == CHOOSE k \in at : \A j \in at : k <= j
  IN  IF at = {} \/ i > Len(o.es) THEN Null ELSE o.es[i]

(* PutResult::from_object: <<ordinal, key, index>>.                           *)
PutResult(o) ==
  LET status == FieldOf(o, FieldName.status)
      message == FieldOf(o, FieldName.message)
      index == FieldOf(o, FieldName.index)
  IN  IF /\ status.t = "Enum" /\ status.d[2] \in 0 .. 4
         /\ message.t \in {"String", "Null"}
         /\ index.t = "Int"
      THEN Read(<<status.d[2], FieldOf(o, FieldName.key), index.d[1]>>, <<>>)
      ELSE Failed

(* BulkPutResponseParams::from_object: a set of <<index, result>>.            *)
BulkPutResponse(o) ==
  LET m == FieldOf(o, FieldName.putResultMap)
      entries == {<<m.es[2 * i - 1], m.es[2 * i]>> : i \in 1 .. Len(m.es) \div 2}
      good(e) == e[1].t = "Int" /\ e[2].t = "Object" /\ PutResult(e[2]).ok
  IN  IF FieldName.putResultMap \in {o.fs[i] : i \in 1 .. Len(o.fs)} /\ m.t = "Null"
      THEN Read({}, <<>>) ELSE
      IF m.t # "Map" \/ \E e \in entries : ~good(e) THEN Failed
      ELSE Read({<<e[1].d[1], PutResult(e[2]).v>> : e \in entries}, <<>>)
=============================================================================
