------------------------------ MODULE Registry ------------------------------
(* The process-wide registry of binary types (binary_registry.rs): what each  *)
(* entry holds, how two descriptions of one type are merged, and how the      *)
(* decoder finds the names of the fields of an object it has read.            *)
(*                                                                            *)
(* A name is a number, the length of its text; 0 is the empty name.  TypeId   *)
(* and FieldId stand for string_to_java_hashcode of the lower-cased name:     *)
(* two names may share an id.                                                 *)
EXTENDS Cells, FiniteSets

CONSTANTS TypeId,      \* id of each type name
          FieldId      \* id of each field name

(* A name is a number, an id is an i32.                                       *)
ASSUME NamesAssumption == \A n \in DOMAIN FieldId : n \in Nat /\ FieldId[n] \in Int

(* RegisteredBinaryType without any content, as the name-only registrations   *)
(* of binary.rs insert it.                                                    *)
NameOnly(name, isEnum) ==
  [name |-> name, aff |-> None, fields |-> <<>>, enum |-> isEnum,
   variants |-> <<>>, schemas |-> <<>>]

(* get_schema_id: FNV-1 over the field ids, taken to be free of collisions,   *)
(* so that the list of ids stands for its own hash.                           *)
SchemaId(ids) == ids

Ids(fs) == [i \in 1 .. Len(fs) |-> FieldId[fs[i]]]

(* registered_type_from_schema: fs are the field names of a                   *)
(* ComplexObjectSchema and cs their type codes (ignite_type_id).              *)
RegisteredTypeFromSchema(ty, fs, cs) ==
  [NameOnly(ty, FALSE) EXCEPT
     !.fields = [i \in 1 .. Len(fs) |->
                   [name |-> fs[i], code |-> cs[i], id |-> FieldId[fs[i]]]],
     !.schemas = << [id |-> SchemaId(Ids(fs)), ids |-> Ids(fs)] >>]

(* The elements of new that old does not have yet, appended one by one; the   *)
(* components in key tell elements apart.                                     *)
AddMissing(old, new, key) ==
  LET f[i \in 0 .. Len(new)] ==
        IF i = 0 THEN old ELSE
        LET p == f[i - 1]
        IN  IF \E k \in 1 .. Len(p) : \A c \in key : p[k][c] = new[i][c] THEN p
            ELSE Append(p, new[i])
  IN  f[Len(new)]

(* Faulty variant of Merge: the newest description replaces the older one.    *)
MergeReplacing(old, new) == new

(* merge_registered_type: the first name and affinity key stay; fields are    *)
(* told apart by name, enum values by name and ordinal, schemas by id.        *)
Merge(old, new) ==
  [name     |-> IF old.name = 0 THEN new.name ELSE old.name,
   aff      |-> IF old.aff = None THEN new.aff ELSE old.aff,
   enum     |-> old.enum \/ new.enum,
   fields   |-> AddMissing(old.fields, new.fields, {"name"}),
   variants |-> AddMissing(old.variants, new.variants, {1, 2}),
   schemas  |-> AddMissing(old.schemas, new.schemas, {"id"})]

(* register_type.  reg is a function on the ids registered so far.            *)
RegisterType(reg, id, meta) ==
  [i \in DOMAIN reg \cup {id} |->
     IF i # id THEN reg[i] ELSE
     IF id \in DOMAIN reg THEN Merge(reg[id], meta) ELSE meta]

(* The map from field id to name that both lookups build: the last field      *)
(* inserted under an id wins.  0 stands for an id that is not there.          *)
NameOf(meta, id) ==
  LET at == {i \in 1 .. Len(meta.fields) : meta.fields[i].id = id}
  IN  IF at = {} THEN 0
      ELSE meta.fields[CHOOSE i \in at : \A j \in at : j <= i].name

Named(meta, ids) ==
  LET upTo[n \in 0 .. Len(ids)] ==
        IF n = 0 THEN <<>>
        ELSE IF NameOf(meta, ids[n]) = 0 THEN upTo[n - 1]
        ELSE Append(upTo[n - 1], NameOf(meta, ids[n]))
  IN  upTo[Len(ids)]

NotFound == [ok |-> FALSE, ty |-> 0, fs |-> <<>>]
Found(ty, fs) == [ok |-> TRUE, ty |-> ty, fs |-> fs]

(* The ids of a set in the order in which a BTreeMap has them.                *)
Ascending(ids) ==
  [i \in 1 .. Cardinality(ids) |->
     CHOOSE x \in ids : Cardinality({y \in ids : y < x}) = i - 1]

(* schema_for: the order of the schema with that id, else every field of the  *)
(* type in the order of the ids (BTreeMap).                                   *)
SchemaFor(reg, type, schema) ==
  IF type \notin DOMAIN reg THEN NotFound ELSE
  LET meta == reg[type]
      known == SelectSeq(meta.schemas, LAMBDA s : s.id = schema)
      ids == {meta.fields[i].id : i \in 1 .. Len(meta.fields)}
  IN  Found(meta.name, Named(meta, IF known # <<>> THEN known[1].ids
                                   ELSE Ascending(ids)))

(* schema_for_ordered: the names of the footer's ids, in the footer's order;  *)
(* ids the registry does not know are left out.                               *)
SchemaForOrdered(reg, type, footer) ==
  IF footer = <<>> \/ type \notin DOMAIN reg THEN NotFound ELSE
  LET fs == Named(reg[type], footer)
  IN  IF fs = <<>> THEN NotFound ELSE Found(reg[type].name, fs)

(* Faulty variant of SchemaOf: the footer is not consulted and the schema id  *)
(* is not passed on, so that the fields come in the order of their ids.       *)
SchemaBySchemaIdOnly(reg, type, schema, footer) == SchemaFor(reg, type, <<>>)

(* What read_unwrapped does with the two: the first one that answers, else    *)
(* the empty schema it started with.                                          *)
SchemaOf(reg, type, schema, footer) ==
  LET ordered == SchemaForOrdered(reg, type, footer)
  IN  IF ordered.ok THEN ordered ELSE SchemaFor(reg, type, schema)
=============================================================================
