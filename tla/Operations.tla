----------------------------- MODULE Operations -----------------------------
(* The operations of CacheCore (cache.rs): what each of them checks before it *)
(* sends its request, where it sends it, and what a failure does to the       *)
(* transaction the cache handle belongs to.                                   *)
(*                                                                            *)
(* One task runs one operation, one step per await.  Meanwhile the            *)
(* transaction may be ended or lost by another task, the default channel may  *)
(* move to another node and partitions may move.                              *)
EXTENDS Integers, FiniteSets

CONSTANTS Node,        \* server nodes
          TxNode       \* the node the transaction was started on

(* An operation: its opcode, whether its route comes from a key ("key"), a    *)
(* partition ("part"), the transaction alone ("tx") or nowhere ("none"),      *)
(* whether it asks for the primary, the feature it needs, which check it      *)
(* makes first, whether its result passes through map_tx_err and whether its  *)
(* request has a CacheInfo.                                                   *)
Op(code, by, primary) ==
  [code |-> code, by |-> by, primary |-> primary, gate |-> "", check |-> "ops",
   mapped |-> TRUE, info |-> TRUE]
Gated(op, feature) == [op EXCEPT !.gate = feature]
Clearing(op) == [op EXCEPT !.check = "clear", !.mapped = FALSE]

Get == Op("CacheGet", "key", FALSE)
GetAll == Op("CacheGetAll", "tx", FALSE)
Put == Op("CachePut", "key", TRUE)
PutAll == Op("CachePutAll", "tx", FALSE)
ContainsKey == Op("CacheContainsKey", "key", FALSE)
ContainsKeys == Op("CacheContainsKeys", "tx", FALSE)
GetAndPut == Op("CacheGetAndPut", "key", TRUE)
GetAndReplace == Op("CacheGetAndReplace", "key", TRUE)
GetAndRemove == Op("CacheGetAndRemove", "key", TRUE)
PutIfAbsent == Op("CachePutIfAbsent", "key", TRUE)
GetAndPutIfAbsent == Op("CacheGetAndPutIfAbsent", "key", TRUE)
Replace == Op("CacheReplace", "key", TRUE)
ReplaceIfEquals == Op("CacheReplaceIfEquals", "key", TRUE)
Clear == Clearing(Op("CacheClear", "none", FALSE))
ClearKey == Clearing(Op("CacheClearKey", "key", TRUE))
ClearKeys == Clearing(Op("CacheClearKeys", "none", FALSE))
RemoveKey == Op("CacheRemoveKey", "key", TRUE)
RemoveIfEquals == Op("CacheRemoveIfEquals", "key", TRUE)
GetSize == Op("CacheGetSize", "tx", FALSE)
GetSizePeekMode == Op("CacheGetSize", "tx", FALSE)
GetSizePeekModes == Op("CacheGetSize", "tx", FALSE)
RemoveKeys == Op("CacheRemoveKeys", "tx", FALSE)
RemoveAll == Op("CacheRemoveAll", "tx", FALSE)
ScanQuery == Op("QueryScan", "part", FALSE)
IndexQuery == Gated(Op("QueryIndex", "part", FALSE), "INDEX_QUERY")
ContinuousQuery == Op("QueryContinuous", "tx", FALSE)
SqlQuery == Op("QuerySql", "tx", FALSE)
SqlFields == Op("QuerySqlFields", "tx", FALSE)
QueryClose == [Op("ResourceClose", "tx", FALSE) EXCEPT !.check = "", !.info = FALSE]
PutAllConflict == Gated(Op("CachePutAllConflict", "tx", FALSE), "DATA_REPLICATION")
RemoveAllConflict == Gated(Op("CacheRemoveAllConflict", "tx", FALSE), "DATA_REPLICATION")
InvokeBinary == Gated(Op("CacheInvoke", "key", TRUE), "CACHE_INVOKE")
InvokeAllBinary == Gated(Op("CacheInvokeAll", "key", TRUE), "CACHE_INVOKE")

Operation ==
  {Get, GetAll, Put, PutAll, ContainsKey, ContainsKeys, GetAndPut, GetAndReplace,
   GetAndRemove, PutIfAbsent, GetAndPutIfAbsent, Replace, ReplaceIfEquals, Clear,
   ClearKey, ClearKeys, RemoveKey, RemoveIfEquals, GetSize, GetSizePeekMode,
   GetSizePeekModes, RemoveKeys, RemoveAll, ScanQuery, IndexQuery, ContinuousQuery,
   SqlQuery, SqlFields, QueryClose, PutAllConflict, RemoveAllConflict, InvokeBinary,
   InvokeAllBinary}

(* is_read_only_op, the opcodes among these.                                  *)
ReadOnlyOp(code) ==
  code \in {"CacheGet", "CacheContainsKey", "CacheContainsKeys", "CacheGetSize",
            "CacheGetAll", "QueryScan", "QueryContinuous"}

(* What the server does for an opcode: whether it changes the cache.          *)
Modifies(code) ==
  code \notin {"CacheGet", "CacheGetAll", "CacheContainsKey", "CacheContainsKeys",
               "CacheGetSize", "QueryScan", "QueryIndex", "QueryContinuous", "QuerySql",
               "QuerySqlFields", "ResourceClose"}

VARIABLES op,       \* the operation that runs
          inTx,     \* its cache handle belongs to the transaction
          at,       \* the await it has reached
          route,    \* RequestRoute: default, pinned or preferred, and the node
          target,   \* nodes the request was sent to, and whether with the tx id
          tx,       \* TransactionState
          primary,  \* node the client's mapping names as owner of the key
          active,   \* node of the default channel
          features  \* features each node supports

opVars == <<op, inTx, at, route, target, tx, primary, active, features>>

NoRoute == [to |-> TxNode, kind |-> "default"]

OpInit ==
  /\ op = Get /\ inTx = FALSE /\ at = "idle"
  /\ route = NoRoute
  /\ target = {}
  /\ tx = "active"
  /\ primary \in Node /\ active \in Node
  /\ features \in [Node -> {{}, {"INDEX_QUERY", "DATA_REPLICATION", "CACHE_INVOKE"}}]

OpStart(o, t) ==
  /\ at = "idle"
  /\ op' = o /\ inTx' = t /\ at' = "check"
  /\ UNCHANGED <<route, target, tx, primary, active, features>>

(* ensure_tx_cache_ops_allowed and ensure_clear_allowed; query_close makes no *)
(* check of its own.                                                          *)
OpCheck ==
  /\ at = "check"
  /\ at' = IF inTx /\ op.check # "" /\ (tx # "active" \/ op.check = "clear")
           THEN "refused" ELSE "gate"
  /\ UNCHANGED <<op, inTx, route, target, tx, primary, active, features>>

(* The supports_* test, made on the default channel.                          *)
OpGate ==
  /\ at = "gate"
  /\ at' = IF op.gate = "" \/ op.gate \in features[active] THEN "route" ELSE "refused"
  /\ UNCHANGED <<op, inTx, route, target, tx, primary, active, features>>

(* Faulty variant of OpRoute: the transaction is looked at only when there is *)
(* no key.                                                                    *)
OpRouteByKey ==
  /\ at = "route"
  /\ IF inTx /\ op.by = "tx"
     THEN /\ at' = IF tx = "active" THEN "send" ELSE "refused"
          /\ route' = [to |-> TxNode, kind |-> "pinned"]
     ELSE /\ at' = "send"
          /\ \/ route' = NoRoute
             \/ /\ op.by \in {"key", "part"}
                /\ \E n \in IF op.primary THEN {primary} ELSE Node :
                     route' = [to |-> n, kind |-> "preferred"]
  /\ UNCHANGED <<op, inTx, target, tx, primary, active, features>>

(* tx_route, prepare_key_route and route_for_partition.  route() of the       *)
(* transaction checks its state once more; without one a key or a partition   *)
(* may have an affinity node.                                                 *)
OpRoute ==
  /\ at = "route"
  /\ IF inTx /\ op.by # "none"
     THEN /\ at' = IF tx = "active" THEN "send" ELSE "refused"
          /\ route' = [to |-> TxNode, kind |-> "pinned"]
     ELSE /\ at' = "send"
          /\ \/ route' = NoRoute
             \/ /\ op.by \in {"key", "part"}
                /\ \E n \in IF op.primary THEN {primary} ELSE Node :
                     route' = [to |-> n, kind |-> "preferred"]
  /\ UNCHANGED <<op, inTx, target, tx, primary, active, features>>

(* cache_info, then the request goes out.  A preferred node without a channel *)
(* is the default channel instead; a pinned one is an error whose text        *)
(* is_connection_related takes for a connection error.                        *)
OpSend ==
  /\ at = "send"
  /\ \/ /\ at' = "sent"
        /\ \E n \in CASE route.kind = "default" -> {active}
                      [] route.kind = "pinned" -> {route.to}
                      [] route.kind = "preferred" -> {route.to, active} :
             target' = target \cup {[to |-> n, tx |-> inTx /\ op.info]}
     \/ route.kind = "pinned" /\ at' = "broken" /\ UNCHANGED target
  /\ UNCHANGED <<op, inTx, route, tx, primary, active, features>>

(* The answer, or a connection error; after an error on a preferred channel   *)
(* the request goes to the default one.                                       *)
OpAnswer ==
  /\ at = "sent"
  /\ \/ at' = "done" /\ UNCHANGED <<route, target>>
     \/ /\ route.kind = "preferred"
        /\ at' = "sent"
        /\ route' = NoRoute
        /\ target' = target \cup {[to |-> active, tx |-> inTx /\ op.info]}
     \/ at' = "broken" /\ UNCHANGED <<route, target>>
  /\ UNCHANGED <<op, inTx, tx, primary, active, features>>

(* map_tx_err on a connection error: mark_lost, whatever the state is by now. *)
OpMapError ==
  /\ at = "broken"
  /\ at' = "error"
  /\ tx' = IF inTx /\ op.mapped THEN "lost" ELSE tx
  /\ UNCHANGED <<op, inTx, route, target, primary, active, features>>

(* Other tasks and the cluster.                                               *)
OpEnvironment ==
  /\ at \notin {"idle", "refused", "error", "done"}
  /\ \/ tx = "active" /\ tx' \in {"closed", "lost"} /\ UNCHANGED <<primary, active>>
     \/ active' \in Node \ {active} /\ UNCHANGED <<tx, primary>>
     \/ primary' \in Node \ {primary} /\ UNCHANGED <<tx, active>>
  /\ UNCHANGED <<op, inTx, at, route, target, features>>

OpNext ==
  \/ \E o \in Operation, t \in BOOLEAN : OpStart(o, t)
  \/ OpCheck \/ OpGate \/ OpRoute \/ OpSend \/ OpAnswer \/ OpMapError
  \/ OpEnvironment

OpSpec == OpInit /\ [][OpNext]_opVars

(* What a transactional cache handle does stays inside the transaction: its   *)
(* requests carry the transaction id to the node that has the transaction,    *)
(* clear is never sent, a failed connection leaves the transaction lost       *)
(* before the caller sees the error, and outside a transaction an operation   *)
(* that may be repeated as read-only changes nothing while one that changes a *)
(* key asks for its primary.                                                  *)
OperationsStayInside ==
  /\ inTx => \A s \in target : s.to = TxNode /\ (op.info => s.tx)
  /\ inTx /\ op.check = "clear" => target = {}
  /\ inTx /\ at = "error" => tx # "active"
  /\ ReadOnlyOp(op.code) => ~Modifies(op.code)
  /\ Modifies(op.code) /\ op.by = "key" => op.primary
=============================================================================
