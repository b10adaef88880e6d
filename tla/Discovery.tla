----------------------------- MODULE Discovery ------------------------------
(***************************************************************************)
(* How ChannelManager (transport.rs) keeps its view of the cluster while   *)
(* requests run: the refresh of the topology from a connection, the        *)
(* connections primed to discovered nodes and pruned with removed ones,    *)
(* the affinity mappings that choose a node for a key, and the reconnect   *)
(* that follows the view.  Composes Topology and Affinity.  A task is one  *)
(* call of the public API, in the caller's own future; the cluster and     *)
(* its answers are external.  A connection is a number in the order they   *)
(* were made.                                                              *)
(***************************************************************************)
EXTENDS Topology, Affinity

CONSTANTS
    Task,        \* concurrent calls
    Node,        \* node ids, numbers (the client keeps them in a BTreeMap)
    Home,        \* Home[n]: the endpoint of node n; a restarted node gets a new id
    Capable,     \* nodes whose connections have the NODE_ENDPOINTS feature
    First,       \* the nodes of the first topology
    Seeds,       \* seed endpoints, in order
    Reseeds,     \* the lists the address resolver may return later
    Cache, Key,
    Mapped,      \* the caches the server answers with a mapping
    MaxVersion,  \* bound: topology versions
    MaxConn,     \* bound: connections made
    MaxDown,     \* bound: connections down at a time for a broken link to add one
    Jobs,        \* what tasks do: "change", "lookup", "reconnect"
    None

Addr == Range(Home)
Conn == 1..MaxConn

ASSUME DiscoveryAssumption ==
    /\ Node \subseteq Nat /\ First \subseteq Node /\ Capable \subseteq Node
    /\ {MaxVersion, MaxConn, MaxDown} \subseteq Nat \ {0}
    /\ Mapped \subseteq Cache
    /\ Jobs \subseteq {"change", "lookup", "reconnect"}
    /\ None \notin Task

VARIABLES
    hist,     \* the cluster: hist[v] is the set of nodes of topology version v
    chan,     \* chan[c]: address and server_node_id of connection c
    up,       \* connections that are available
    pool,     \* the channels map, and its index by address
    cands,    \* default_candidates
    byNode,   \* node_channels
    active,
    topo,     \* TopologyCache
    aff,      \* AffinityCache.state
    flag,     \* AffinityCache.single_node_cached
    rguard, dguard, cguard, \* holders of reconnect_, discovery_refresh_ and channel_connect_guard
    stk,      \* stk[t]: what t has left to do, its program counter first
    l         \* l[t]: t's locals

linkVars == <<chan, up, pool, cands, byNode, active>>
affVars  == <<aff, flag>>
guards   == <<rguard, dguard, cguard>>
vars     == <<hist, linkVars, topo, affVars, guards, stk, l>>

Cluster == hist[Len(hist)]

\* conn, via: the connection made and the one refreshed from; todo, prime: endpoints left
\* to try by connect_any or channel_for_node_id, and by prime_discovered_channels;
\* start, ans: the version asked from and the answer; edit, map, list: the next affinity
\* snapshot, node_channels and default_candidates, computed and not stored yet; doomed:
\* connections taken out of the pool and not closed yet.
Blank == [conn |-> 1, via |-> 1, todo |-> <<>>, prime |-> <<>>, start |-> Unknown,
          ans |-> None, edit |-> None, map |-> <<>>, list |-> {}, doomed |-> {},
          cache |-> None, key |-> None, node |-> 0, seeds |-> {}, last |-> 1]

TypeOK ==
    /\ hist \in Seq(SUBSET Node) /\ Len(hist) \in 1..MaxVersion
    /\ Len(chan) \in Conn
    /\ \A c \in DOMAIN chan : chan[c] \in [addr : Addr, node : Node]
    /\ up \subseteq DOMAIN chan /\ pool \subseteq DOMAIN chan /\ cands \subseteq DOMAIN chan
    /\ active \in DOMAIN chan
    /\ DOMAIN byNode \subseteq Node /\ Range(byNode) \subseteq DOMAIN chan
    /\ Range(topo.seeds) \subseteq Addr /\ DOMAIN topo.nodes \subseteq Node
    /\ topo.version \in {Unknown} \cup DOMAIN hist
    /\ aff.version \in {-1} \cup DOMAIN hist
    /\ DOMAIN aff.caches \subseteq Cache /\ flag \in BOOLEAN
    /\ {rguard, dguard, cguard} \subseteq Task \cup {None}

\* new_with_event_bus: connected to the node of the first seed that answered, whose
\* identity is recorded.  The first refresh is left to the tasks.
Init ==
    /\ hist = <<First>>
    /\ \E n \in First :
         /\ Home[n] \in Range(Seeds)
         /\ chan = <<[addr |-> Home[n], node |-> n]>>
         /\ byNode = [m \in {n} |-> 1]
         /\ topo = RecordNodeEndpoint(NewTopology(Seeds), n, Home[n])
    /\ up = {1} /\ pool = {1} /\ cands = {1} /\ active = 1
    /\ aff = EmptyAffinity /\ flag = FALSE
    /\ rguard = None /\ dguard = None /\ cguard = None
    /\ stk = [t \in Task |-> <<"idle">>]
    /\ l = [t \in Task |-> Blank]

----------------------------------------------------------------------------
\* The cluster.  A node joins at a free endpoint or leaves; connections break.
Change ==
    /\ Len(hist) < MaxVersion
    /\ \E n \in Node :
         \/ n \in Cluster /\ hist' = Append(hist, Cluster \ {n})
         \/ /\ n \notin UNION Range(hist) /\ Home[n] \notin {Home[m] : m \in Cluster}
            /\ hist' = Append(hist, Cluster \cup {n})
    /\ UNCHANGED <<linkVars, topo, affVars, guards, stk, l>>

Break ==
    /\ Cardinality(DOMAIN chan \ up) < MaxDown
    /\ \E c \in up : up' = up \ {c}
    /\ UNCHANGED <<hist, chan, pool, cands, byNode, active, topo, affVars, guards, stk, l>>

\* The answer to CLUSTER_GROUP_GET_NODE_ENDPOINTS for start..latest.
NodeEndpoints(start) ==
    LET before == IF start = Unknown THEN {} ELSE hist[start]
    IN  [version |-> Len(hist),
         added   |-> [n \in Cluster \ before |-> <<Home[n]>>],
         removed |-> before \ Cluster]

\* The answer to CACHE_PARTITIONS: keys are spread over the cluster.
CachePartitions(c) ==
    [version |-> Len(hist),
     caches  |-> [d \in {c} |->
        IF c \notin Mapped \/ Cluster = {} THEN NotApplicable
        ELSE [k \in Key |-> IF k = CHOOSE j \in Key : TRUE
                            THEN CHOOSE n \in Cluster : \A m \in Cluster : n <= m
                            ELSE CHOOSE n \in Cluster : \A m \in Cluster : n >= m]]]

----------------------------------------------------------------------------
At(t, label)  == stk[t] # <<>> /\ Head(stk[t]) = label
Then(t, rest) == stk' = [stk EXCEPT ![t] = rest \o Tail(@)]
Set(t, f, v)  == l' = [l EXCEPT ![t][f] = v]
Skip(t)       == Then(t, <<>>)

UpAt(e)   == {c \in pool \cap up : chan[c].addr = e}
InView(p, tp) == {c \in p : chan[c].addr \in Range(tp.endpoints)}
\* The channels RwLock: refresh_default_candidates holds it for reading up to its store.
NoReader  == \A t \in Task : ~At(t, "candStore")

\* A call begins: the response to some request carries a new topology version, a key is
\* looked up, or a request failed on a connection that is closed.
ObserveChange(t) ==
    /\ At(t, "idle") /\ "change" \in Jobs
    /\ Set(t, "start", Len(hist))
    /\ Then(t, <<"invalidate", "change">>)
    /\ UNCHANGED <<hist, linkVars, topo, affVars, guards>>

Lookup(t) ==
    /\ At(t, "idle") /\ "lookup" \in Jobs
    /\ \E c \in Cache, k \in Key :
         LET owner == ResolveNodeForKey(aff, c, k)
         IN  /\ l' = [l EXCEPT ![t].cache = c, ![t].key = k,
                               ![t].node = IF owner = {} THEN 0 ELSE CHOOSE n \in owner : TRUE]
             /\ Then(t, IF flag THEN <<>>
                        ELSE IF owner # {} THEN <<"route">>
                        ELSE IF NeedsRefresh(aff, c) THEN <<"fetch">> ELSE <<>>)
    /\ UNCHANGED <<hist, linkVars, topo, affVars, guards>>

Reconnect(t) ==
    /\ At(t, "idle") /\ "reconnect" \in Jobs
    /\ \E c \in pool \ up : Set(t, "last", c)
    /\ Then(t, <<"reconnect">>)
    /\ UNCHANGED <<hist, linkVars, topo, affVars, guards>>

Return(t) ==
    /\ stk[t] = <<>>
    /\ stk' = [stk EXCEPT ![t] = <<"done">>]
    /\ rguard' = IF rguard = t THEN None ELSE rguard
    /\ l' = [l EXCEPT ![t] = Blank]
    /\ UNCHANGED <<hist, linkVars, topo, affVars, dguard, cguard>>

----------------------------------------------------------------------------
\* AffinityCache: load and build the next snapshot, store the flag, store the snapshot.
Invalidate(t) ==
    /\ At(t, "invalidate")
    /\ Set(t, "edit", Invalidated(aff))
    /\ Then(t, <<"flag", "snapshot">>)
    /\ UNCHANGED <<hist, linkVars, topo, affVars, guards>>

Apply(t) ==
    /\ At(t, "apply")
    /\ Set(t, "edit", Applied(aff, l[t].ans.version, l[t].ans.caches))
    /\ Then(t, <<"flag", "snapshot", "resolve">>)
    /\ UNCHANGED <<hist, linkVars, topo, affVars, guards>>

StoreFlag(t) ==
    /\ At(t, "flag")
    /\ flag' = l[t].edit.single
    /\ Skip(t)
    /\ UNCHANGED <<hist, linkVars, topo, aff, guards, l>>

StoreSnapshot(t) ==
    /\ At(t, "snapshot")
    /\ aff' = l[t].edit
    /\ Set(t, "edit", None)
    /\ Skip(t)
    /\ UNCHANGED <<hist, linkVars, topo, flag, guards>>

\* ensure_affinity_mapping: the request, answered or failed.
FetchAnswered(t) ==
    /\ At(t, "fetch")
    /\ Set(t, "ans", CachePartitions(l[t].cache))
    /\ Then(t, <<"apply">>)
    /\ UNCHANGED <<hist, linkVars, topo, affVars, guards>>

FetchFails(t) ==
    /\ At(t, "fetch")
    /\ Set(t, "edit", CacheInvalidated(aff, l[t].cache))
    /\ Then(t, <<"flag", "snapshot">>)
    /\ UNCHANGED <<hist, linkVars, topo, affVars, guards>>

\* node_for_marshaled_key after the refresh; it does not look at the version.
Resolve(t) ==
    /\ At(t, "resolve")
    /\ LET c == l[t].cache
           owned == c \in DOMAIN aff.caches /\ aff.caches[c] # NotApplicable
       IN  /\ l' = [l EXCEPT ![t].node = IF owned THEN aff.caches[c][l[t].key] ELSE 0,
                             ![t].ans = None, ![t].cache = None, ![t].key = None]
           /\ Then(t, IF owned THEN <<"route">> ELSE <<>>)
    /\ UNCHANGED <<hist, linkVars, topo, affVars, guards>>

----------------------------------------------------------------------------
\* Faulty variant of HandleChange: the version is recorded before the refresh.
HandleChangeEagerly(t) ==
    /\ At(t, "change")
    /\ topo' = [topo EXCEPT !.version = l[t].start]
    /\ l' = [l EXCEPT ![t].via = active, ![t].start = Unknown]
    /\ Then(t, <<"refresh">>)
    /\ UNCHANGED <<hist, linkVars, affVars, guards>>

\* handle_topology_change, after the invalidation.
HandleChange(t) ==
    /\ At(t, "change")
    /\ IF chan[active].node \in Capable
       THEN /\ l' = [l EXCEPT ![t].via = active, ![t].start = Unknown]
            /\ Then(t, <<"refresh">>) /\ UNCHANGED topo
       ELSE /\ topo' = [topo EXCEPT !.version = l[t].start]
            /\ Skip(t) /\ UNCHANGED l
    /\ UNCHANGED <<hist, linkVars, affVars, guards>>

\* refresh_topology_from_channel: the guard is held from here to Release.
Refresh(t) ==
    /\ At(t, "refresh") /\ dguard = None
    /\ dguard' = t
    /\ Set(t, "start", topo.version)
    /\ Then(t, <<"asked">>)
    /\ UNCHANGED <<hist, linkVars, topo, affVars, rguard, cguard>>

RefreshAnswered(t) ==
    /\ At(t, "asked") /\ l[t].via \in up
    /\ Set(t, "ans", NodeEndpoints(l[t].start))
    /\ Then(t, <<"update">>)
    /\ UNCHANGED <<hist, linkVars, topo, affVars, guards>>

\* The request or the decoding of its answer fails.  on_channel_connected then primes
\* what is known already; handle_topology_change gives up.
RefreshFails(t) ==
    /\ At(t, "asked")
    /\ dguard' = None
    /\ l' = [l EXCEPT ![t].start = Unknown, ![t].ans = None]
    /\ IF Tail(stk[t]) # <<>> /\ stk[t][2] = "connected"
       THEN stk' = [stk EXCEPT ![t] = <<"primeList">> \o Tail(Tail(@))]
       ELSE Skip(t)
    /\ UNCHANGED <<hist, linkVars, topo, affVars, rguard, cguard>>

Update(t) ==
    /\ At(t, "update")
    /\ topo' = ApplyDiscoveryUpdate(topo, l[t].ans.version, l[t].ans.added, l[t].ans.removed)
    /\ Then(t, IF l[t].ans.removed = {} THEN <<"candLoad", "release">>
               ELSE <<"pruneNodes", "prunePool", "close", "candLoad", "release">>)
    /\ UNCHANGED <<hist, linkVars, affVars, guards, l>>

\* prune_removed_node_channels: node_channels is stored only when it lost an entry.
PruneNodes(t) ==
    /\ At(t, "pruneNodes")
    /\ LET kept == Restrict(byNode, DOMAIN byNode \ l[t].ans.removed)
       IN  IF kept = byNode THEN Skip(t) /\ UNCHANGED l
           ELSE Set(t, "map", kept) /\ Then(t, <<"byNode">>)
    /\ UNCHANGED <<hist, linkVars, topo, affVars, guards>>

StoreByNode(t) ==
    /\ At(t, "byNode")
    /\ byNode' = l[t].map
    /\ Set(t, "map", <<>>)
    /\ Skip(t)
    /\ UNCHANGED <<hist, chan, up, pool, cands, active, topo, affVars, guards>>

\* Faulty variant of PrunePool: the pool is pruned without the channels lock.
PrunePoolUnlocked(t) ==
    /\ At(t, "prunePool")
    /\ LET gone == {c \in pool : chan[c].node \in l[t].ans.removed}
       IN  /\ pool' = pool \ gone
           /\ cands' = InView(pool \ gone, topo)
           /\ Set(t, "doomed", gone)
    /\ Skip(t)
    /\ UNCHANGED <<hist, chan, up, byNode, active, topo, affVars, guards>>

PrunePool(t) ==
    /\ At(t, "prunePool") /\ NoReader
    /\ LET gone == {c \in pool : chan[c].node \in l[t].ans.removed}
       IN  /\ pool' = pool \ gone
           /\ cands' = InView(pool \ gone, topo)
           /\ Set(t, "doomed", gone)
    /\ Skip(t)
    /\ UNCHANGED <<hist, chan, up, byNode, active, topo, affVars, guards>>

Close(t) ==
    /\ At(t, "close")
    /\ up' = up \ l[t].doomed
    /\ Set(t, "doomed", {})
    /\ Skip(t)
    /\ UNCHANGED <<hist, chan, pool, cands, byNode, active, topo, affVars, guards>>

\* refresh_default_candidates: lock and build, store and unlock.
CandLoad(t) ==
    /\ At(t, "candLoad")
    /\ Set(t, "list", InView(pool, topo))
    /\ Then(t, <<"candStore">>)
    /\ UNCHANGED <<hist, linkVars, topo, affVars, guards>>

CandStore(t) ==
    /\ At(t, "candStore")
    /\ cands' = l[t].list
    /\ Set(t, "list", {})
    /\ Skip(t)
    /\ UNCHANGED <<hist, chan, up, pool, byNode, active, topo, affVars, guards>>

\* Faulty variant of Release: the discovery guard is held while priming.
ReleaseAfterPriming(t) ==
    /\ At(t, "release")
    /\ Then(t, <<"primeList">>)
    /\ UNCHANGED <<hist, linkVars, topo, affVars, guards, l>>

Release(t) ==
    /\ At(t, "release")
    /\ dguard' = None
    /\ l' = [l EXCEPT ![t].start = Unknown, ![t].ans = None]
    /\ stk' = [stk EXCEPT ![t] = <<"primeList">> \o
                  (IF Len(@) > 1 /\ @[2] = "connected" THEN Tail(Tail(@)) ELSE Tail(@))]
    /\ UNCHANGED <<hist, linkVars, topo, affVars, rguard, cguard>>

----------------------------------------------------------------------------
\* prime_discovered_channels: the list is read once, with its own address left out.
PrimeList(t) ==
    /\ At(t, "primeList")
    /\ Set(t, "prime", SelectSeq(topo.endpoints, LAMBDA e : e # chan[l[t].via].addr))
    /\ Then(t, <<"prime">>)
    /\ UNCHANGED <<hist, linkVars, topo, affVars, guards>>

Prime(t) ==
    /\ At(t, "prime")
    /\ \/ /\ l[t].prime = <<>>
          /\ Skip(t) /\ UNCHANGED <<cguard, l>>
       \/ /\ l[t].prime # <<>> /\ cguard = None
          /\ IF UpAt(Head(l[t].prime)) # {}
             THEN Set(t, "prime", Tail(l[t].prime)) /\ UNCHANGED <<cguard, stk>>
             ELSE cguard' = t /\ Then(t, <<"dial", "prime">>) /\ UNCHANGED l
    /\ UNCHANGED <<hist, linkVars, topo, affVars, rguard, dguard>>

\* Whom t is dialing for, and the endpoint.
For(t)     == stk[t][2]
Dialing(t) == IF For(t) = "prime" THEN Head(l[t].prime) ELSE Head(l[t].todo)

\* Channel::connect and insert_channel, under channel_connect_guard.  A primed connection
\* has its identity cached; the others go through on_channel_connected.
DialOk(t) ==
    /\ At(t, "dial") /\ NoReader
    /\ Len(chan) < MaxConn
    /\ \E n \in Cluster :
         LET c == Len(chan) + 1
         IN  /\ Home[n] = Dialing(t)
             /\ chan' = Append(chan, [addr |-> Home[n], node |-> n])
             /\ up' = up \cup {c}
             /\ pool' = pool \cup {c}
             /\ cands' = {d \in pool' : chan'[d].addr \in Range(topo.endpoints)}
             /\ IF For(t) = "prime"
                THEN /\ l' = [l EXCEPT ![t].conn = c, ![t].prime = Tail(@)]
                     /\ stk' = [stk EXCEPT ![t] = <<"identity">> \o Tail(@)]
                ELSE /\ l' = [l EXCEPT ![t].conn = c, ![t].via = c, ![t].todo = <<>>]
                     /\ stk' = [stk EXCEPT ![t] = <<"identity", "connected">> \o
                                  (IF For(t) = "any" THEN <<"adopt">> ELSE <<>>) \o
                                  Tail(Tail(@))]
    /\ cguard' = None
    /\ UNCHANGED <<hist, byNode, active, topo, affVars, rguard, dguard>>

DialFails(t) ==
    /\ At(t, "dial")
    /\ cguard' = None
    /\ IF For(t) = "prime" THEN Set(t, "prime", Tail(l[t].prime))
                           ELSE Set(t, "todo", Tail(l[t].todo))
    /\ Skip(t)
    /\ UNCHANGED <<hist, linkVars, topo, affVars, rguard, dguard>>

\* cache_channel_identity: record the endpoint, then load and store node_channels.
Identity(t) ==
    /\ At(t, "identity")
    /\ LET c == l[t].conn
       IN  topo' = RecordNodeEndpoint(topo, chan[c].node, chan[c].addr)
    /\ Then(t, <<"index", "byNode", "candLoad">>)
    /\ UNCHANGED <<hist, linkVars, affVars, guards, l>>

Index(t) ==
    /\ At(t, "index")
    /\ LET n == chan[l[t].conn].node
       IN  Set(t, "map", [m \in DOMAIN byNode \cup {n} |->
                            IF m = n THEN l[t].conn ELSE byNode[m]])
    /\ Skip(t)
    /\ UNCHANGED <<hist, linkVars, topo, affVars, guards>>

\* on_channel_connected, after the identity.  "connected" stays below "refresh": its
\* failure continues with the endpoints known already.
Connected(t) ==
    /\ At(t, "connected")
    /\ IF chan[l[t].via].node \in Capable
       THEN stk' = [stk EXCEPT ![t] = <<"refresh">> \o @]
       ELSE Then(t, <<"primeList">>)
    /\ UNCHANGED <<hist, linkVars, topo, affVars, guards, l>>

----------------------------------------------------------------------------
\* channel_for_node_id: node_channels, then the pool, then the node's endpoints.
Route(t) ==
    /\ At(t, "route")
    /\ LET n == l[t].node
           known == {c \in pool \cap up : chan[c].node = n}
       IN  IF n \in DOMAIN byNode /\ byNode[n] \in up
           THEN Skip(t) /\ UNCHANGED l
           ELSE IF known # {}
           THEN \E c \in known : Set(t, "conn", c) /\ Then(t, <<"index", "byNode">>)
           ELSE Set(t, "todo", EndpointsForNode(topo, n)) /\ Then(t, <<"one">>)
    /\ UNCHANGED <<hist, linkVars, topo, affVars, guards>>

\* Its loop over the endpoints, with connect_specific.
ConnectOne(t) ==
    /\ At(t, "one")
    /\ IF l[t].todo = <<>> THEN Skip(t) /\ UNCHANGED cguard
       ELSE IF UpAt(Head(l[t].todo)) # {} THEN Skip(t) /\ UNCHANGED cguard
       ELSE cguard = None /\ cguard' = t /\ Then(t, <<"dial", "one">>)
    /\ UNCHANGED <<hist, linkVars, topo, affVars, rguard, dguard, l>>

\* reconnect_from: nothing to do when another task has moved on already.
ReconnectFrom(t) ==
    /\ At(t, "reconnect") /\ rguard = None
    /\ IF chan[active].addr # chan[l[t].last].addr /\ active \in up
       THEN Skip(t) /\ UNCHANGED <<rguard, topo, l>>
       ELSE \E s \in Reseeds :
              /\ rguard' = t
              /\ topo' = ReplaceSeeds(topo, s)
              /\ Set(t, "seeds", RemovedSeeds(topo, s))
              /\ Then(t, <<"candLoad", "anyList">>)
    /\ UNCHANGED <<hist, linkVars, affVars, dguard, cguard>>

AnyList(t) ==
    /\ At(t, "anyList")
    /\ Set(t, "todo", EndpointsAfter(topo.endpoints, chan[l[t].last].addr))
    /\ Then(t, <<"any">>)
    /\ UNCHANGED <<hist, linkVars, topo, affVars, guards>>

\* connect_any
ConnectAny(t) ==
    /\ At(t, "any")
    /\ \/ /\ l[t].todo = <<>>
          /\ Skip(t) /\ UNCHANGED <<cguard, l>>
       \/ /\ l[t].todo # <<>> /\ cguard = None
          /\ IF UpAt(Head(l[t].todo)) = {}
             THEN cguard' = t /\ Then(t, <<"dial", "any">>) /\ UNCHANGED l
             ELSE \E c \in UpAt(Head(l[t].todo)) :
                    /\ l' = [l EXCEPT ![t].via = c, ![t].todo = <<>>]
                    /\ Then(t, <<"adopt">>) /\ UNCHANGED cguard
    /\ UNCHANGED <<hist, linkVars, topo, affVars, rguard, dguard>>

\* The new active connection, then prune_removed_seed_channels.
Adopt(t) ==
    /\ At(t, "adopt")
    /\ active' = l[t].via
    /\ Then(t, IF l[t].seeds = {} THEN <<>> ELSE <<"pruneSeeds", "close">>)
    /\ UNCHANGED <<hist, chan, up, pool, cands, byNode, topo, affVars, guards, l>>

PruneSeeds(t) ==
    /\ At(t, "pruneSeeds") /\ NoReader
    /\ LET gone == {c \in pool : /\ chan[c].addr \in l[t].seeds \ Range(Discovered(topo))
                                 /\ chan[c].addr # chan[active].addr}
       IN  /\ pool' = pool \ gone
           /\ cands' = InView(pool \ gone, topo)
           /\ Set(t, "doomed", gone)
    /\ Skip(t)
    /\ UNCHANGED <<hist, chan, up, byNode, active, topo, affVars, guards>>

----------------------------------------------------------------------------
\* The caller drops its future at an await.  The locks go with it; what it had not done
\* yet is not done.
Awaiting == {"change", "refresh", "asked", "update", "prunePool", "close", "candLoad",
             "prime", "dial", "identity", "fetch", "one", "reconnect", "any", "pruneSeeds"}

Cancel(t) ==
    /\ stk[t] # <<>> /\ Head(stk[t]) \in Awaiting
    /\ stk' = [stk EXCEPT ![t] = <<"done">>]
    /\ l' = [l EXCEPT ![t] = Blank]
    /\ rguard' = IF rguard = t THEN None ELSE rguard
    /\ dguard' = IF dguard = t THEN None ELSE dguard
    /\ cguard' = IF cguard = t THEN None ELSE cguard
    /\ UNCHANGED <<hist, linkVars, topo, affVars>>

Quiet == /\ \A t \in Task : At(t, "done")
         /\ UNCHANGED vars

Work(t) ==
    \/ Return(t) \/ Invalidate(t) \/ Apply(t) \/ StoreFlag(t) \/ StoreSnapshot(t)
    \/ FetchAnswered(t) \/ FetchFails(t) \/ Resolve(t) \/ HandleChange(t)
    \/ RefreshAnswered(t) \/ RefreshFails(t) \/ Update(t) \/ PruneNodes(t) \/ StoreByNode(t)
    \/ PrunePool(t) \/ Close(t) \/ CandLoad(t) \/ CandStore(t) \/ Release(t) \/ PrimeList(t)
    \/ DialOk(t) \/ DialFails(t) \/ Identity(t) \/ Index(t) \/ Connected(t) \/ Route(t)
    \/ AnyList(t) \/ Adopt(t) \/ PruneSeeds(t)

\* Steps that wait for a guard.
Locking(t) == Refresh(t) \/ Prime(t) \/ ConnectOne(t) \/ ReconnectFrom(t) \/ ConnectAny(t)

Start(t) == ObserveChange(t) \/ Lookup(t) \/ Reconnect(t)

Next == \/ Change \/ Break \/ Quiet
        \/ \E t \in Task : Start(t) \/ Work(t) \/ Locking(t) \/ Cancel(t)

Spec == Init /\ [][Next]_vars

----------------------------------------------------------------------------
\* The client knows every node of the topology version it will ask the next delta from
\* (refresh_topology_from_channel, apply_discovery_update): otherwise no later answer
\* would name the missing node.
KnowsItsVersion == topo.version # Unknown => hist[topo.version] \subseteq DOMAIN topo.nodes

\* The list that requests choose their connection from holds no connection that was
\* pruned from the pool (store_channels_by_address, refresh_default_candidates).
CandidatesInPool == cands \subseteq pool

\* The three guards cannot deadlock: a task that holds the connect or the discovery guard
\* waits for no guard, and reconnect_from takes its guard before the others.
GuardOrder ==
    \A t \in Task :
        /\ t \in {cguard, dguard} =>
              \A w \in {"refresh", "prime", "one", "any", "reconnect"} : ~At(t, w)
        /\ t = rguard => ~At(t, "reconnect")
============================================================================
