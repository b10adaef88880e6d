------------------------------- MODULE Binary -------------------------------
(* Binary types at run time: binary.rs, the registry it shares with the codec *)
(* and the bulk-put task.  Several tasks of one process talk to the server    *)
(* about types while objects are encoded and decoded; an answer is registered *)
(* only when it arrives, so that the registry may have changed since the      *)
(* question was asked.                                                        *)
EXTENDS BulkPut

Ext == INSTANCE SequencesExt

CONSTANTS Tasks,          \* callers of the Binary API
          MaxCalls,       \* bound on the calls they make
          Types,          \* type names they ask about
          OwnShapes,      \* objects this process builds
          ForeignShapes,  \* objects another client writes
          EnumTypes,      \* type names used as enums
          Samples,        \* values that are put and read back
          Frames,         \* requests that are sent
          Configs         \* cache configurations that are sent

VARIABLES reg,      \* the registry of this process
          srv,      \* binary metadata on the server, by type id
          store,    \* objects in the cache: [o |-> object, own |-> BOOLEAN]
          call,     \* what each task is doing
          calls,    \* calls made so far
          ready,    \* BulkPutParams::register_types has returned
          sent,     \* the value last put, or Null
          frame,    \* the request last sent
          config    \* the configuration it carries, <<>> or <<configuration>>

vars == <<reg, srv, store, call, calls, ready, sent, frame, config>>

NoMeta == NameOnly(0, FALSE)
Idle == [op |-> "idle", id |-> 0, meta |-> NoMeta, served |-> FALSE, ok |-> FALSE,
         bulk |-> FALSE, left |-> <<>>]
NoFrame == Req(<<>>, 0)

Init ==
  /\ reg = [i \in {} |-> NoMeta]
  /\ srv = [i \in {} |-> NoMeta]
  /\ store = {}
  /\ call = [t \in Tasks |-> Idle]
  /\ calls = 0
  /\ ready = FALSE
  /\ sent = Null
  /\ frame = NoFrame
  /\ config = <<>>

(* The runs that exercise the codec stop after one value or one request.      *)
Quiet == sent = Null /\ frame = NoFrame

Begin(t, c) ==
  /\ Quiet
  /\ call[t] = Idle
  /\ calls < MaxCalls
  /\ calls' = calls + 1
  /\ call' = [call EXCEPT ![t] = c]
  /\ UNCHANGED <<reg, srv, store, ready, sent, frame, config>>

MetaOf(o) ==
  RegisteredTypeFromSchema(o.ty, o.fs, [i \in 1 .. Len(o.es) |-> FieldCode(o.es[i])])

-----------------------------------------------------------------------------
(* BinaryObjectBuilder::build, then ComplexObject::write when it is put.      *)
Build(o) ==
  /\ Quiet
  /\ reg' = RegisterType(reg, TypeId[o.ty], MetaOf(o))
  /\ store' = store \cup {[o |-> o, own |-> TRUE]}
  /\ UNCHANGED <<srv, call, ready, sent, frame, config, calls>>

(* Another client puts an object and publishes its metadata.                  *)
ForeignWrite(o) ==
  /\ Quiet
  /\ srv' = RegisterType(srv, TypeId[o.ty], MetaOf(o))
  /\ store' = store \cup {[o |-> o, own |-> FALSE]}
  /\ UNCHANGED <<reg, call, ready, sent, frame, config, calls>>

(* build_enum: a name-only enum entry.                                        *)
BuildEnum(name) ==
  /\ Quiet
  /\ reg' = RegisterType(reg, TypeId[name], NameOnly(name, TRUE))
  /\ UNCHANGED <<srv, store, call, ready, sent, frame, config, calls>>

(* register_enum: the variants, numbered from a first ordinal, and a schema   *)
(* of the ids of their names.                                                 *)
EnumMeta(name, variants) ==
  [NameOnly(name, TRUE) EXCEPT
     !.variants = variants,
     !.schemas = << [id |-> SchemaId(Ids([i \in 1 .. Len(variants) |-> variants[i][1]])),
                     ids |-> Ids([i \in 1 .. Len(variants) |-> variants[i][1]])] >>]
RegisterEnum(t, name, variants) ==
  Begin(t, [Idle EXCEPT !.op = "put", !.id = TypeId[name],
                        !.meta = EnumMeta(name, variants)])

(* put_type, and register_object_type with the metadata of an object.         *)
PutType(t, o) ==
  Begin(t, [Idle EXCEPT !.op = "put", !.id = TypeId[o.ty], !.meta = MetaOf(o)])

(* get_type and get_type_name ask the server only about types the registry    *)
(* does not know.                                                             *)
GetType(t, id) ==
  /\ id \notin DOMAIN reg
  /\ Begin(t, [Idle EXCEPT !.op = "get", !.id = id])
GetTypeName(t, id) ==
  /\ id \notin DOMAIN reg
  /\ Begin(t, [Idle EXCEPT !.op = "name", !.id = id])

(* register_type_name.                                                        *)
RegisterTypeName(t, name) ==
  Begin(t, [Idle EXCEPT !.op = "putname", !.id = TypeId[name],
                        !.meta = NameOnly(name, FALSE)])

(* BulkPutParams::register_types: the first of its type names; the others     *)
(* follow one by one.                                                         *)
RegisterTypes(t) ==
  Begin(t, [Idle EXCEPT !.op = "putname", !.id = TypeId[RequestTypes[1]],
                        !.meta = NameOnly(RequestTypes[1], FALSE),
                        !.bulk = TRUE, !.left = Tail(RequestTypes)])

(* The server handles the request of t.  It answers a get with its metadata   *)
(* as write_binary_metadata lays it out, and refuses a name for an id that    *)
(* already has another one.                                                   *)
Serve(t) ==
  LET c == call[t]
      known == c.id \in DOMAIN srv
      ok == CASE c.op = "put" -> TRUE
              [] c.op \in {"get", "name"} -> known
              [] c.op = "putname" -> ~known \/ srv[c.id].name = c.meta.name
  IN  /\ c.op # "idle" /\ ~c.served
      /\ srv' = IF c.op \in {"put", "putname"} /\ ok
                THEN RegisterType(srv, c.id, c.meta) ELSE srv
      /\ call' = [call EXCEPT ![t].served = TRUE, ![t].ok = ok,
                    ![t].meta = CASE c.op = "get" /\ ok ->
                                       ReadMeta(WriteMeta(c.id, srv[c.id])).v.meta
                                  [] c.op = "name" /\ ok ->
                                       NameOnly(srv[c.id].name, FALSE)
                                  [] OTHER -> @]
      /\ UNCHANGED <<reg, store, ready, sent, frame, config, calls>>

(* The reply reaches the task.  What it brings is merged into the registry;   *)
(* register_types goes on with the next name, and after the last one warms    *)
(* the response schemas.                                                      *)
Return(t) ==
  LET c == call[t]
      next == IF c.left = <<>> THEN Idle
              ELSE [Idle EXCEPT !.op = "putname", !.id = TypeId[Head(c.left)],
                                !.meta = NameOnly(Head(c.left), FALSE),
                                !.bulk = TRUE, !.left = Tail(c.left)]
      last == c.bulk /\ c.left = <<>>
      r == IF c.ok THEN RegisterType(reg, c.id, c.meta) ELSE reg
  IN  /\ c.served
      /\ reg' = IF last THEN PrewarmResponse(r) ELSE r
      /\ ready' = (ready \/ last)
      /\ call' = [call EXCEPT ![t] = next]
      /\ UNCHANGED <<srv, store, sent, frame, config, calls>>

(* The request fails or the caller's future is dropped: nothing is            *)
(* registered, whatever the server did.                                       *)
Fail(t) ==
  /\ call[t] # Idle
  /\ call' = [call EXCEPT ![t] = Idle]
  /\ UNCHANGED <<reg, srv, store, ready, sent, frame, config, calls>>

-----------------------------------------------------------------------------
(* Putting a value: ComplexObject::write registers the schema of every object *)
(* it encodes.                                                                *)
RECURSIVE Encoded(_, _)
Encoded(r, v) ==
  LET f[i \in 0 .. Len(v.es)] == IF i = 0 THEN r ELSE Encoded(f[i - 1], v.es[i])
      inner == f[Len(v.es)]
  IN  IF v.t # "Object" \/ IsWrapper(v) \/ v.ty \in {JavaLong, JavaString} THEN inner
      ELSE RegisterType(inner, TypeId[v.ty], MetaOf(v))

AtRest == Quiet /\ store = {} /\ srv = <<>> /\ reg = <<>> /\ \A t \in Tasks : call[t] = Idle

Put(v) ==
  /\ AtRest
  /\ sent' = v
  /\ reg' = Encoded(reg, v)
  /\ UNCHANGED <<srv, store, call, ready, frame, config, calls>>

Send(f) ==
  /\ AtRest
  /\ frame' = f
  /\ UNCHANGED <<reg, srv, store, call, ready, sent, config, calls>>

(* IgniteApi::create_cache_with_config.                                       *)
Create(c) ==
  /\ AtRest
  /\ config' = <<c>>
  /\ frame' = CreateWithConfigReq(c)
  /\ UNCHANGED <<reg, srv, store, call, ready, sent, calls>>

Variants == {<< <<1, 0>>, <<4, 1>> >>, << <<4, 0>>, <<1, 5>> >>}

Next ==
  \/ \E o \in OwnShapes : Build(o)
  \/ \E o \in ForeignShapes : ForeignWrite(o)
  \/ \E n \in EnumTypes : BuildEnum(n)
  \/ \E v \in Samples : Put(v)
  \/ \E f \in Frames : Send(f)
  \/ \E c \in Configs : Create(c)
  \/ \E t \in Tasks :
       \/ \E n \in EnumTypes, vs \in Variants : RegisterEnum(t, n, vs)
       \/ \E o \in OwnShapes : PutType(t, o)
       \/ \E n \in Types : GetType(t, TypeId[n]) \/ GetTypeName(t, TypeId[n])
       \/ \E n \in Types : RegisterTypeName(t, n)
       \/ RegisterTypes(t)
       \/ Serve(t)
       \/ Return(t)
       \/ Fail(t)

Spec == Init /\ [][Next]_vars

-----------------------------------------------------------------------------
(* What the readers make of a value.                                          *)
RECURSIVE Meant(_), SqlView(_)

(* A value as the eager reader gives it back: a java.lang.Long or String      *)
(* object is the value it holds.                                              *)
Meant(v) ==
  IF v.t = "Object" /\ v.ty \in {JavaLong, JavaString} THEN v.es[Len(v.es)]
  ELSE [v EXCEPT !.es = [i \in 1 .. Len(v.es) |-> Meant(v.es[i])]]

(* As the SQL reader does: arrays lose their type, maps and collections their *)
(* subtype; objects are read eagerly.                                         *)
SqlView(v) ==
  LET es == [i \in 1 .. Len(v.es) |-> SqlView(v.es[i])]
  IN  CASE v.t = "Object" -> Meant(v)
        [] v.t \in {"Map", "Collection"} -> Holding(v.t, <<>>, es)
        [] v.t \in {"Array", "ArrTyped"} -> Holding("Array", <<>>, es)
        [] v.t = "WrappedData" -> es[1]
        [] v.t = "ArrPrim" ->
             Holding("Array", <<>>, [i \in 1 .. Len(v.d) - 1 |->
               V(CHOOSE e \in DOMAIN Words : Code[e] = v.d[1] - 11, <<v.d[i + 1]>>)])
        [] OTHER -> v

Whole(r, v) == r.ok /\ r.v = v /\ r.rest = <<>>
ReadBy(kind) == Decode(kind, Write(sent), reg)

(* Every value that was put is read back: by the eager reader, by the SQL     *)
(* reader, by the reader of its Rust type, and, for the fields of an object,  *)
(* by LazyBinaryObject.  Nothing is left unread, and the size() that reserved *)
(* the buffer is the number of bytes written, also where the offsets of an    *)
(* object outgrow one and two bytes.                                          *)
ReadersAgree ==
  LET arm == CASE sent.t \in DOMAIN BlobCode -> BlobCode[sent.t]
               [] sent.t \in {"ArrPrim", "ArrTyped"} -> TypeOf(sent.d[1])
               [] sent.t = "Array" -> "ArrObj"
               [] sent.t = "Object" -> "ComplexObj"
               [] OTHER -> sent.t
  IN  /\ sent.t # "WrappedData" => Size(sent) = Bytes(Write(sent))
      /\ arm \in Arms.top =>
           /\ ReadBy("top").ok /\ ReadBy("top").rest = <<>>
           /\ Flatten(ReadBy("top").v) = Meant(sent)
      /\ arm \in Arms.sql \ {"ArrByte"} => Whole(ReadBy("sql"), SqlView(sent))
      /\ sent.t \in DOMAIN Words \cup {"ArrPrim", "String"} =>
           Whole(DecodeTyped(sent, Write(sent)), sent)
      /\ sent.t = "Object" /\ sent.ty \notin {JavaLong, JavaString} =>
           LET lazy == LazyRead(Write(sent)) IN
           /\ lazy.ok
           /\ \A i \in 1 .. Len(sent.fs) :
                /\ LazyIsNull(lazy.v, sent.fs[i]) <=> sent.es[i] = Null
                /\ sent.es[i].t \in {"Int", "Long", "String", "Binary"} =>
                     LazyGet(lazy.v, sent.fs[i]) = sent.es[i]

(* Every request announces exactly the bytes it writes: size() is the length  *)
(* of what write() produces, whichever optional parts it has.                 *)
FramesAreExact == Bytes(frame.cells) = frame.size

(* The configuration of a new cache describes itself: the length and the      *)
(* number of properties in its header are those of the properties that        *)
(* follow, and the key configurations and query entities are read back as     *)
(* they were written.                                                         *)
ConfigDescribesItself ==
  config # <<>> =>
    LET c == config[1]
        read(layout, list, cells) == Whole(ParseItem(<<"rep", layout>>, cells), list)
    IN  /\ frame.cells[1][2] = frame.size - 4 - 2
        /\ frame.cells[2][2] = Len(ConfigProperties(c))
        /\ c.keys # <<>> =>
             read(KeyConfigLayout, c.keys[1], WriteKeyConfigs(c.keys[1]))
        /\ c.entities # <<>> =>
             Whole(ReadEntities(WriteEntities(c.entities[1])), c.entities[1])

(* An object that this process encoded always decodes with its fields in the  *)
(* order of its values, whatever other tasks, the server and other clients    *)
(* registered for the type since, and in whatever order their answers came.   *)
OwnFieldsNamed ==
  \A s \in store : s.own =>
    LET d == Decode("top", Write(s.o), reg)
    IN  d.ok /\ d.v.es = s.o.es /\ Ids(d.v.fs) = Ids(s.o.fs)

(* Once register_types has returned, the answer of the bulk-put task is       *)
(* understood, in whatever order the server writes the fields of a result.    *)
BulkAnswerReadable ==
  ready =>
    \A p \in {PutResultFields, Ext!Reverse(PutResultFields)} :
      LET val(n) == CASE n = FieldName.status -> V("Enum", <<7, 4>>)
                      [] n = FieldName.message -> Null
                      [] n = FieldName.key -> V("Long", <<9>>)
                      [] n = FieldName.index -> V("Int", <<3>>)
          result == Object(Class.PutResult, p, [i \in 1 .. Len(p) |-> val(p[i])])
          answer == Object(Class.BulkPutResponseParams, <<FieldName.putResultMap>>,
                      <<Holding("Map", <<HashMap>>, <<V("Int", <<3>>), result>>)>>)
          d == Decode("top", Write(answer), reg)
      IN  d.ok /\ Whole(BulkPutResponse(d.v), {<<3, <<4, V("Long", <<9>>), 3>>>>})

(* "Read footer field_ids to determine field order (matches values order)":   *)
(* a field that is found by name has the value it was written with.           *)
FieldsMatchValues ==
  \A s \in store :
    LET d == Decode("top", Write(s.o), reg)
    IN  d.ok => \A i \in 1 .. Len(d.v.fs) :
                  \E k \in 1 .. Len(s.o.fs) :
                    /\ FieldId[s.o.fs[k]] = FieldId[d.v.fs[i]]
                    /\ FieldOf(d.v, d.v.fs[i]) = s.o.es[k]
=============================================================================
