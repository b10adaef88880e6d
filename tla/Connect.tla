------------------------------- MODULE Connect -------------------------------
(* From an address to a connection (lib.rs, connection_async.rs and           *)
(* connect_any_initial of transport.rs): the addresses of a configuration are *)
(* expanded to endpoints, these are tried in turn, the handshake negotiates   *)
(* features, and the frames that follow are read.                             *)
(*                                                                            *)
(* An address is a sequence of tokens: "[", "]", ":", "h" for text, and       *)
(* port specifications.  A byte is the set of its bits; a text is its length  *)
(* as in Cells.                                                               *)
EXTENDS Cells, FiniteSets

CONSTANTS Confs,          \* configurations: addresses, user, password, attributes, ...
          Replies,        \* how a server takes a handshake: bits, accept, text, status
          MaxRetries,     \* conf.retry_limit
          Frames          \* frames a server may send

(* A text and a password may be absent; an attribute is a key and a value.    *)
ASSUME ConfsAssumption ==
  \A c \in Confs : /\ c.addresses \in Seq(Seq(STRING))
                    /\ c.user \in Nat \cup {None} /\ c.password \in Nat \cup {None}
                    /\ c.attributes \in Seq(Nat \X Nat) /\ c.dataCenter \in BOOLEAN
ASSUME RepliesAssumption ==
  \A r \in Replies : r.accept \in BOOLEAN /\ r.text \in Nat \cup {None} /\ r.status \in Int
ASSUME RetriesAssumption == MaxRetries \in Nat

(* A response or notification has a payload, or a status and a text.          *)
ASSUME FramesAssumption ==
  \A f \in Frames :
    /\ f \in [id : Int, version : Int, opcode : Int, status : Int,
              text : Nat \cup {None}, payload : Seq(Nat \X Int)]
    /\ IF f.status = 0 THEN f.text = 0 ELSE f.payload = <<>>

-----------------------------------------------------------------------------
(* Addresses.                                                                 *)

(* parse_port and the range: first and last port of a specification; 10800 to *)
(* 10900 are 1 and 2.                                                         *)
Ports == [default |-> <<1, 2>>, one |-> <<1, 1>>, two |-> <<2, 2>>, three |-> <<3, 3>>,
          two_three |-> <<2, 3>>, three_two |-> <<3, 2>>]
PortOf == <<"one", "two", "three">>

Positions(token, s) == {i \in DOMAIN s : s[i] = token}
FirstOf(S) == CHOOSE i \in S : \A j \in S : i <= j
LastOf(S) == CHOOSE i \in S : \A j \in S : i >= j

Bad == [ok |-> FALSE, host |-> <<>>, port |-> "default"]
Split(host, port) == [ok |-> TRUE, host |-> host, port |-> port]

(* What follows the host: nothing, or a colon and a port specification.  The  *)
(* specification is one token; anything else is no number.                    *)
Tailed(host, tail) ==
  IF tail = <<>> THEN Split(host, "default")
  ELSE IF tail[1] = ":" /\ Len(tail) = 2 /\ tail[2] \in DOMAIN Ports \ {"default"}
       THEN Split(host, tail[2]) ELSE Bad

(* split_host_and_port_spec.                                                  *)
SplitHostAndPort(s) ==
  LET colons == Positions(":", s)
      closing == Positions("]", s)
  IN IF s[1] = "["
     THEN IF closing = {} THEN Bad
          ELSE Tailed(SubSeq(s, 2, FirstOf(closing) - 1),
                      SubSeq(s, FirstOf(closing) + 1, Len(s)))
     ELSE IF colons = {} THEN Split(s, "default")
     ELSE IF Cardinality(colons) > 1 \/ s[1] = ":" THEN Bad
     ELSE Tailed(SubSeq(s, 1, FirstOf(colons) - 1), SubSeq(s, FirstOf(colons), Len(s)))

(* parse_ports: the ports of a specification, none when it is refused.        *)
ParsePorts(port) == Ports[port][1] .. Ports[port][2]

(* format_endpoint.                                                           *)
FormatEndpoint(host, port) ==
  IF Positions(":", host) # {} THEN <<"[">> \o host \o <<"]", ":", PortOf[port]>>
  ELSE host \o <<":", PortOf[port]>>

(* parse_address_spec: the endpoints in order of their ports; none when the   *)
(* address is refused, which an empty one is.                                 *)
ParseAddressSpec(s) ==
  LET split == SplitHostAndPort(s)
      first == Ports[split.port][1]
      last == Ports[split.port][2]
  IN IF s = <<>> \/ ~split.ok \/ ParsePorts(split.port) = {} THEN <<>>
     ELSE [i \in 1..(last - first + 1) |-> FormatEndpoint(split.host, first + i - 1)]

(* normalized_addresses: the endpoints of each address in turn.               *)
Normalized(parsed) ==
  LET upTo[n \in 0..Len(parsed)] == IF n = 0 THEN <<>> ELSE upTo[n - 1] \o parsed[n]
  IN upTo[Len(parsed)]

(* endpoint_port: none, or the port, of an endpoint that starts with a        *)
(* bracket only when one closes it.                                           *)
EndpointPort(e) ==
  LET closing == Positions("]", e)
      tail == IF e[1] # "[" THEN SubSeq(e, LastOf(Positions(":", e)), Len(e))
              ELSE IF closing = {} THEN <<>> ELSE SubSeq(e, FirstOf(closing) + 1, Len(e))
  IN {p \in DOMAIN PortOf : tail = <<":", PortOf[p]>>}

(* lowest_port_indices.                                                       *)
LowestPortIndices(list) ==
  {i \in DOMAIN list : EndpointPort(list[i]) # {}
     /\ \A j \in DOMAIN list : \A p \in EndpointPort(list[i]), q \in EndpointPort(list[j]) : p <= q}

(* initial_start_index, counted from 0: the cursor shared by all clients may  *)
(* point at any of them.                                                      *)
InitialStartIndices(list) ==
  IF LowestPortIndices(list) = {} THEN {0} ELSE {i - 1 : i \in LowestPortIndices(list)}

-----------------------------------------------------------------------------
(* Features: bit numbers of the capabilities, and the bitmap.                 *)
Feature ==
  [execute_task_by_name |-> 1, cluster_states |-> 2, node_endpoints |-> 3,
   cluster_groups |-> 4, service_invoke |-> 5, query_partitions_batch_size |-> 7,
   binary_configuration |-> 8, get_service_descriptors |-> 9, service_invoke_callctx |-> 10,
   heartbeat |-> 11, data_replication_operations |-> 12, all_affinity_mappings |-> 13,
   index_query |-> 14, index_query_limit |-> 15, cache_invoke |-> 17,
   force_deactivation_flag |-> 19, dc_aware |-> 22, query_initiator_id |-> 23]

(* set_feature_bit: the array grows to the byte of the bit.                   *)
SetFeatureBit(bytes, bit) ==
  LET size == IF Len(bytes) > bit \div 8 THEN Len(bytes) ELSE (bit \div 8) + 1
      old(i) == IF i <= Len(bytes) THEN bytes[i] ELSE {}
  IN [i \in 1..size |-> IF i = (bit \div 8) + 1 THEN old(i) \cup {bit % 8} ELSE old(i)]

(* The bits of a set, the lowest first.                                       *)
SetFeatureBits(bits) ==
  LET below[n \in 0..32] ==
        IF n = 0 THEN <<>>
        ELSE IF n - 1 \in bits THEN SetFeatureBit(below[n - 1], n - 1) ELSE below[n - 1]
  IN below[32]

(* Faulty variant of FeatureSupported: the first byte is byte 1.              *)
FeatureSupportedShifted(bytes, bit) ==
  bit \div 8 \in DOMAIN bytes /\ bit % 8 \in bytes[bit \div 8]

(* feature_supported: a bit past the end of the array is not set.             *)
FeatureSupported(bytes, bit) ==
  (bit \div 8) + 1 \in DOMAIN bytes /\ bit % 8 \in bytes[(bit \div 8) + 1]

(* handshake_features: user attributes claim bit 0, the data center attribute *)
(* bits 22 and 23.                                                            *)
HandshakeFeatures(conf) ==
  SetFeatureBits((IF conf.attributes # <<>> THEN {0} ELSE {}) \cup 1..19
                 \cup (IF conf.dataCenter THEN {22, 23} ELSE {}))

TypedBytes(bytes) == Num(1, Code.ArrByte) \o Num(4, Len(bytes)) \o Num(Len(bytes), bytes)

(* read_typed_byte_array: Null is empty, a negative length is an error.       *)
SizedBytes(n) ==
  IF ~n.ok THEN Failed ELSE IF n.v = 0 THEN Read(<<>>, n.rest) ELSE Take(n.rest, n.v)
TypedArray(t) ==
  IF t.ok /\ t.v = Code.Null THEN Read(<<>>, t.rest)
  ELSE IF t.ok /\ t.v = Code.ArrByte THEN SizedBytes(Take(t.rest, 4)) ELSE Failed
ReadTypedBytes(c) == TypedArray(Take(c, 1))

(* write_user_attributes: the number of attributes, then each of them.        *)
WriteUserAttributes(attributes) ==
  LET from[n \in 1..(Len(attributes) + 1)] ==
        IF n = Len(attributes) + 1 THEN <<>>
        ELSE (Str(attributes[n][1]) \o Str(attributes[n][2])) \o from[n + 1]
  IN Num(4, Len(attributes)) \o from[1]

(* build_handshake_request: version, client code, features, then attributes   *)
(* and credentials when there are any.                                        *)
HandshakeRequest(conf) ==
  Num(1, 1) \o Num(2, 1) \o Num(2, 7) \o Num(2, 0) \o Num(1, 2)
  \o TypedBytes(HandshakeFeatures(conf))
  \o (IF conf.attributes = <<>> THEN <<>> ELSE WriteUserAttributes(conf.attributes))
  \o (IF conf.user = None THEN <<>>
      ELSE Str(conf.user) \o Str(IF conf.password = None THEN 0 ELSE conf.password))

(* One more integer, or one more text that is not null.                       *)
Pushed(r, t) == IF r.ok /\ t.ok THEN Read(Append(r.v, t.v), t.rest) ELSE Failed
IntOf(r, w) == Pushed(r, Take(r.rest, w))
TextOf(r) == Pushed(r, NotNull(ReadOptStr(r.rest)))
Version(r) == IntOf(IntOf(IntOf(r, 2), 2), 2)

(* The server's side of it: the attributes are read when bit 0 is set, and    *)
(* credentials when something is left.                                        *)
AsUnderstood(bits, attrs, creds) ==
  [ok |-> bits.ok /\ attrs.ok /\ creds.ok /\ creds.rest = <<>>,
   claimed |-> {b \in 0..31 : FeatureSupported(bits.v, b)},
   attributes |-> attrs.v, credentials |-> creds.v]
WithCredentials(bits, attrs) ==
  AsUnderstood(bits, attrs, IF attrs.rest = <<>> THEN Read(<<>>, <<>>)
                            ELSE TextOf(TextOf(Read(<<>>, attrs.rest))))
ReadUserAttributes(n) ==
  LET upTo[i \in 0..n.v] ==
        IF i = 0 THEN Read(<<>>, n.rest)
        ELSE LET kv == TextOf(TextOf(Read(<<>>, upTo[i - 1].rest)))
             IN Pushed(upTo[i - 1], kv)
  IN IF n.ok THEN upTo[n.v] ELSE Failed
WithAttributes(bits) ==
  WithCredentials(bits, IF FeatureSupported(bits.v, 0) THEN ReadUserAttributes(Take(bits.rest, 4))
                        ELSE Read(<<>>, bits.rest))
Understood(c) ==
  WithAttributes(ReadTypedBytes(IntOf(Version(IntOf(Read(<<>>, c), 1)), 1).rest))

(* Its answers: success with the features both have, as many bytes as they    *)
(* need, and its id; or a refusal with a text and perhaps a status.           *)
Welcome(bits) ==
  Num(1, 1) \o (IF bits = {} THEN Num(1, Code.Null) ELSE TypedBytes(SetFeatureBits(bits)))
  \o Num(1, Code.Uuid) \o W(8) \o W(8)
Refusal(text, status) ==
  Num(1, 0) \o W(2) \o W(2) \o W(2) \o OptStr(text) \o (IF status = 0 THEN <<>> ELSE Num(4, status))

(* Texts by their length: one that says "auth" or "credential", one that says *)
(* "user", and another.                                                       *)
AuthText == 4
UserText == 5

(* classify_handshake_error.                                                  *)
ClassifyHandshakeError(text, status) ==
  IF status \in {1012, 2000} \/ text = AuthText \/ (status = 1 /\ text = UserText)
  THEN "authentication" ELSE "handshake"

(* The rest of handshake_async: the capabilities, or the kind of error.       *)
Established(bits) ==
  IF bits.ok /\ Take(bits.rest, 1).v = Code.Uuid
  THEN [kind |-> "ok", granted |-> {f \in DOMAIN Feature : FeatureSupported(bits.v, Feature[f])}]
  ELSE [kind |-> "other", granted |-> {}]
Rejected(r) ==
  [kind |-> IF r.ok THEN ClassifyHandshakeError(
                           r.v, IF r.rest = <<>> THEN 0 ELSE Take(r.rest, 4).v)
            ELSE "other",
   granted |-> {}]
AfterStatus(r) ==
  IF r.ok /\ r.v = 1 THEN Established(ReadTypedBytes(r.rest))
  ELSE Rejected(ReadOptStr(Version(Read(<<>>, r.rest)).rest))
ReadWelcome(c) == AfterStatus(Take(c, 1))

-----------------------------------------------------------------------------
(* Frames.  A frame: its id, the topology version it announces (0: none), the *)
(* opcode of a notification (0: a response), and either the cells of its      *)
(* payload or a status (not 0) with its text.                                 *)
Silent == [id |-> 0, version |-> 0, opcode |-> 0, status |-> 0, text |-> 0, payload |-> <<>>]
FlagBits(f) ==
  (IF f.status # 0 THEN 1 ELSE 0) + (IF f.version # 0 THEN 2 ELSE 0)
  + (IF f.opcode # 0 THEN 4 ELSE 0)
HasFlag(flags, bit) == (flags \div bit) % 2 = 1

(* What the server writes.                                                    *)
WriteFrame(f) ==
  Num(8, f.id) \o Num(2, FlagBits(f))
  \o (IF f.version = 0 THEN <<>> ELSE Num(8, f.version) \o Num(4, 0))
  \o (IF f.opcode = 0 THEN <<>> ELSE Num(2, f.opcode))
  \o (IF f.status = 0 THEN f.payload ELSE Num(4, f.status) \o OptStr(f.text))

(* Faulty variant of ReadErrorString: the text has no type code.              *)
ReadErrorStringBare(c) == ReadString(c)

(* read_response_error_string: text with its type code, Null, or bare text.   *)
ReadErrorString(c) ==
  LET t == Take(c, 1)
  IN IF t.ok /\ t.v = Code.Null THEN Read(0, t.rest)
     ELSE IF t.ok /\ t.v = Code.String THEN ReadString(t.rest) ELSE ReadString(c)

(* One more integer of a frame, 0 where its flag is not set.                  *)
More(r, present, w) == IF present THEN IntOf(r, w) ELSE Pushed(r, Read(0, r.rest))

(* read_incoming_frame of a connection with partition awareness, which this   *)
(* version of the protocol always has: id and flags, the topology version,    *)
(* the opcode, the status; then the text of an error, or the payload.         *)
FrameOf(r, text) ==
  [id |-> r.v[1], version |-> r.v[3], opcode |-> r.v[5], status |-> r.v[6],
   text |-> IF HasFlag(r.v[2], 1) THEN text.v ELSE 0,
   payload |-> IF HasFlag(r.v[2], 1) THEN <<>> ELSE r.rest]
FrameText(r) == IF r.ok THEN FrameOf(r, ReadErrorString(r.rest)) ELSE [Silent EXCEPT !.id = -1]
FrameParts(r) ==
  FrameText(More(More(More(More(r, HasFlag(r.v[2], 2), 8), HasFlag(r.v[2], 2), 4),
                      HasFlag(r.v[2], 4), 2), HasFlag(r.v[2], 1), 4))
ReadFrame(c) == FrameParts(IntOf(IntOf(Read(<<>>, c), 8), 2))

-----------------------------------------------------------------------------
VARIABLES stage,     \* where the client is
          conf,      \* its configuration
          endpoints, \* normalized addresses
          dial,      \* start index, step, round, and refusals per endpoint
          wire,      \* the bytes last written to the connection
          peer,      \* how the server takes the handshake, or the frame it sent
          link       \* what the client made of the bytes
cnVars == <<stage, conf, endpoints, dial, wire, peer, link>>

NoConf == [addresses |-> <<>>, user |-> None, password |-> None, attributes |-> <<>>,
           dataCenter |-> FALSE]
NoDial == [start |-> 0, step |-> 0, round |-> 0, refused |-> <<>>]
NoPeer == [bits |-> {}, accept |-> TRUE, text |-> 0, status |-> 0]
NoLink == [kind |-> "none", granted |-> {}]

CnInit ==
  /\ stage = "idle"
  /\ conf = NoConf
  /\ endpoints = <<>>
  /\ dial = NoDial
  /\ wire = <<>>
  /\ peer = [shake |-> NoPeer, frame |-> Silent]
  /\ link = [shake |-> NoLink, frame |-> Silent]

(* validate and normalized_addresses: every address must be accepted, and a   *)
(* password needs a user name.                                                *)
Configure(c) ==
  LET parsed == [i \in DOMAIN c.addresses |-> ParseAddressSpec(c.addresses[i])]
      all == Normalized(parsed)
      accepted == /\ c.user = None => c.password = None
                  /\ \A i \in DOMAIN parsed : parsed[i] # <<>>
                  /\ all # <<>>
  IN /\ stage = "idle"
     /\ conf' = c
     /\ IF accepted
        THEN \E first \in InitialStartIndices(all) :
               /\ stage' = "dial"
               /\ endpoints' = all
               /\ dial' = [start |-> first, step |-> 0, round |-> 0,
                           refused |-> [i \in DOMAIN all |-> 0]]
        ELSE stage' = "invalid" /\ UNCHANGED <<endpoints, dial>>
     /\ UNCHANGED <<wire, peer, link>>

(* Faulty variant of Index: the list is not taken round.                      *)
IndexClamped(d) ==
  LET i == d.start + d.step + 1 IN IF i <= Len(d.refused) THEN i ELSE Len(d.refused)

(* The endpoint of a step of connect_any_initial_once.                        *)
Index(d) == ((d.start + d.step) % Len(d.refused)) + 1

Refused ==
  dial' = [dial EXCEPT !.step = @ + 1, !.refused[Index(dial)] = @ + 1]

(* connect: the socket or the TLS session fails, or its timeout expires.      *)
ConnectFails ==
  /\ stage = "dial"
  /\ dial.step < Len(endpoints)
  /\ Refused
  /\ UNCHANGED <<stage, conf, endpoints, wire, peer, link>>

(* connect gets as far as the request of handshake_async.                     *)
SendHandshake ==
  /\ stage = "dial"
  /\ dial.step < Len(endpoints)
  /\ stage' = "asked"
  /\ wire' = HandshakeRequest(conf)
  /\ UNCHANGED <<conf, endpoints, dial, peer, link>>

(* The server.                                                                *)
AnswerHandshake(reply) ==
  /\ stage = "asked"
  /\ stage' = "answered"
  /\ wire' = IF Understood(wire).ok /\ reply.accept
             THEN Welcome(Understood(wire).claimed \cap reply.bits)
             ELSE Refusal(reply.text, reply.status)
  /\ peer' = [peer EXCEPT !.shake = reply]
  /\ UNCHANGED <<conf, endpoints, dial, link>>

(* with_timeout_ignite around handshake_async expires, or the stream ends.    *)
HandshakeFails ==
  /\ stage \in {"asked", "answered"}
  /\ stage' = "dial"
  /\ Refused
  /\ wire' = <<>>
  /\ UNCHANGED <<conf, endpoints, peer, link>>

(* handshake_async reads the answer; any error counts as a refusal.           *)
TakeWelcome ==
  LET result == ReadWelcome(wire)
  IN /\ stage = "answered"
     /\ link' = [link EXCEPT !.shake = result]
     /\ IF result.kind = "ok" THEN stage' = "up" /\ dial' = NoDial
        ELSE stage' = "dial" /\ Refused
     /\ wire' = <<>>
     /\ UNCHANGED <<conf, endpoints, peer>>

(* connect_any_initial: another round, up to the limit.                       *)
EndRound ==
  /\ stage = "dial"
  /\ dial.step = Len(endpoints)
  /\ IF dial.round < MaxRetries
     THEN dial' = [dial EXCEPT !.step = 0, !.round = @ + 1] /\ UNCHANGED stage
     ELSE stage' = "failed" /\ UNCHANGED dial
  /\ UNCHANGED <<conf, endpoints, wire, peer, link>>

SendFrame(f) ==
  /\ stage = "up"
  /\ stage' = "frame"
  /\ wire' = WriteFrame(f)
  /\ peer' = [peer EXCEPT !.frame = f]
  /\ UNCHANGED <<conf, endpoints, dial, link>>

TakeFrame ==
  /\ stage = "frame"
  /\ stage' = "read"
  /\ link' = [link EXCEPT !.frame = ReadFrame(wire)]
  /\ UNCHANGED <<conf, endpoints, dial, wire, peer>>

CnNext ==
  \/ \E c \in Confs : Configure(c)
  \/ ConnectFails
  \/ SendHandshake
  \/ \E reply \in Replies : AnswerHandshake(reply)
  \/ HandshakeFails
  \/ TakeWelcome
  \/ EndRound
  \/ \E f \in Frames : SendFrame(f)
  \/ TakeFrame

CnSpec == CnInit /\ [][CnNext]_cnVars

-----------------------------------------------------------------------------
(* The endpoints that an address of a configuration stands for.               *)
EndpointsOf(address) ==
  {FormatEndpoint(SplitHostAndPort(address).host, p) : p \in ParsePorts(SplitHostAndPort(address).port)}

(* A client that gives up has been refused by every endpoint of every         *)
(* configured address in each of its rounds, wherever in the list it started  *)
(* (connect_any_initial); the ports a range or the default stands for are all *)
(* among them, and nothing else is.                                           *)
GivesUpAfterAll ==
  stage = "failed" =>
    /\ {endpoints[i] : i \in DOMAIN endpoints}
         = UNION {EndpointsOf(conf.addresses[i]) : i \in DOMAIN conf.addresses}
    /\ DOMAIN dial.refused = DOMAIN endpoints
    /\ \A i \in DOMAIN endpoints : dial.refused[i] = MaxRetries + 1

(* On an established connection the server has understood the whole of the    *)
(* handshake request (the attributes exactly when bit 0 announces them, the   *)
(* credentials after them), and the client believes in exactly the            *)
(* capabilities that it claimed and the server granted, however long the      *)
(* server's bitmap is (handshake_async).                                      *)
NegotiatedAsSent ==
  stage = "up" =>
    LET u == Understood(HandshakeRequest(conf))
    IN /\ u.ok
       /\ u.attributes = conf.attributes
       /\ u.credentials = IF conf.user = None THEN <<>>
                          ELSE <<conf.user, IF conf.password = None THEN 0 ELSE conf.password>>
       /\ link.shake.granted =
            {f \in DOMAIN Feature : Feature[f] \in peer.shake.bits
               /\ (Feature[f] \in {22, 23} => conf.dataCenter)}

(* A frame is read as it was sent, whichever of its optional parts are        *)
(* present: the version for the topology, the opcode for the listeners, the   *)
(* status and text for the caller, and the payload from where it begins       *)
(* (read_incoming_frame).                                                     *)
FrameReadAsSent ==
  stage = "read" =>
    link.frame = [peer.frame EXCEPT !.text = IF @ = None THEN 0 ELSE @]
=============================================================================
