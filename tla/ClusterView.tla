----------------------------- MODULE ClusterView -----------------------------
(* The client's view of the cluster: the groups of cluster.rs, the cache that *)
(* all groups of one Cluster share (ClusterCache), and the cache of service   *)
(* topologies (services.rs).  Tasks ask for the node ids or the nodes of a    *)
(* group, or invoke a service on it, while nodes join and leave.              *)
(*                                                                            *)
(* No lock is held across a request: what is read before it is used after it. *)
EXTENDS Integers, Sequences, FiniteSets

CONSTANTS Callers,    \* tasks
          MaxCalls,   \* calls made in a behaviour
          Histories,  \* topologies a cluster may go through, one per version
          Calls,      \* calls made: what for, and the selectors of the group
          ClientNode  \* nodes that are client nodes; a node's id is its order

ASSUME ClusterViewAssumption == Histories \subseteq Seq(SUBSET Nat) \ {<<>>}

VARIABLES topo,     \* the cluster's history
          version,  \* the cluster's topology version
          known,    \* major version of the channel manager's snapshot
          cache,    \* ClusterCache: topology_version (0: None), node_ids, nodes
          services, \* CachedServiceTopology of one service, and when it was made
          view,     \* per task, the call it makes
          made      \* calls begun

cvVars == <<topo, version, known, cache, services, view, made>>

(* One Selector on a set of nodes: the sets it may leave.                     *)
Select(selector, nodes) ==
  CASE selector[1] = "NodeIds" -> {nodes \cap selector[2]}
    [] selector[1] = "Others" -> {nodes \ selector[2]}
    [] selector[1] = "Servers" -> {nodes \ ClientNode}
    [] selector[1] = "Clients" -> {nodes \cap ClientNode}
    [] nodes = {} -> {{}}
    [] selector[1] = "Random" -> {{n} : n \in nodes}
    [] selector[1] = "Oldest" -> {{n \in nodes : \A m \in nodes : n <= m}}
    [] selector[1] = "Youngest" -> {{n \in nodes : \A m \in nodes : n >= m}}

(* apply_selectors: one after the other.                                      *)
ApplySelectors(nodes, selectors) ==
  IF selectors = <<>> THEN {nodes} ELSE
  LET after[k \in 0..Len(selectors)] ==
        IF k = 0 THEN {nodes}
        ELSE UNION {Select(selectors[k], left) : left \in after[k - 1]}
  IN after[Len(selectors)]

Idle == [at |-> "idle", kind |-> "nodes", group |-> <<>>, sent |-> 0, changed |-> FALSE,
         version |-> 0, ids |-> {}, calm |-> FALSE, answer |-> {}]

CvInit ==
  /\ topo \in Histories
  /\ version = 1 /\ known = 1 /\ made = 0
  /\ cache = [version |-> 0, ids |-> {}, nodes |-> {}]
  /\ services = [version |-> 0, ids |-> {}, asOf |-> 0]
  /\ view = [t \in Callers |-> Idle]

Busy(t) == view[t].at # "idle"

(* A task's call moves on.                                                    *)
Step(t, new) == view' = [view EXCEPT ![t] = new]

(* request_node_ids up to its request, which carries the cached version.      *)
AskNodeIds(t, kind, group) ==
  /\ ~Busy(t) /\ made < MaxCalls
  /\ made' = made + 1
  /\ view' = [u \in Callers |->
       IF u = t
       THEN [Idle EXCEPT !.at = "asked", !.kind = kind, !.group = group,
                         !.sent = cache.version, !.calm = \A v \in Callers \ {t} : ~Busy(v)]
       ELSE [view[u] EXCEPT !.calm = FALSE]]
  /\ UNCHANGED <<topo, version, known, cache, services>>

(* The server compares versions and sends its nodes when they differ.         *)
AnswerNodeIds(t) ==
  /\ view[t].at = "asked"
  /\ Step(t, [view[t] EXCEPT !.at = "answered", !.changed = view[t].sent # version,
                             !.version = version, !.ids = topo[version]])
  /\ UNCHANGED <<topo, version, known, cache, services, made>>

(* Where the call goes once it has the ids: without selectors, node_ids is    *)
(* finished.                                                                  *)
WithIds(t, ids) ==
  [view[t] EXCEPT !.ids = ids, !.answer = ids, !.sent = 0, !.changed = FALSE, !.version = 0,
                  !.at = IF view[t].group = <<>> /\ view[t].kind # "nodes"
                         THEN "listed" ELSE "lookup"]

(* Faulty variant of ApplyNodeIds: the new ids are added to the old.          *)
ApplyNodeIdsExtending(t) ==
  /\ view[t].at = "answered"
  /\ cache' = IF view[t].changed
              THEN [version |-> view[t].version, ids |-> view[t].ids \cup cache.ids,
                    nodes |-> cache.nodes]
              ELSE cache
  /\ Step(t, WithIds(t, cache'.ids))
  /\ UNCHANGED <<topo, version, known, services, made>>

(* The rest of request_node_ids: a changed reply replaces version and ids and *)
(* forgets the nodes that left.                                               *)
ApplyNodeIds(t) ==
  /\ view[t].at = "answered"
  /\ cache' = IF view[t].changed
              THEN [version |-> view[t].version, ids |-> view[t].ids,
                    nodes |-> cache.nodes \cap view[t].ids]
              ELSE cache
  /\ Step(t, WithIds(t, cache'.ids))
  /\ UNCHANGED <<topo, version, known, services, made>>

(* request_nodes_by_ids: the ids that have no node yet are asked for.         *)
LookUpNodes(t) ==
  /\ view[t].at = "lookup"
  /\ Step(t, [view[t] EXCEPT !.answer = view[t].ids \ cache.nodes,
                             !.at = IF view[t].ids \subseteq cache.nodes
                                    THEN "collect" ELSE "info"])
  /\ UNCHANGED <<topo, version, known, cache, services, made>>

(* The server describes those of them it still has.                           *)
AnswerNodeInfo(t) ==
  /\ view[t].at = "info"
  /\ Step(t, [view[t] EXCEPT !.answer = @ \cap topo[version], !.at = "described"])
  /\ UNCHANGED <<topo, version, known, cache, services, made>>

(* The cache takes them all.                                                  *)
TakeNodeInfo(t) ==
  /\ view[t].at = "described"
  /\ cache' = [cache EXCEPT !.nodes = @ \cup view[t].answer]
  /\ Step(t, [view[t] EXCEPT !.at = "collect"])
  /\ UNCHANGED <<topo, version, known, services, made>>

(* The nodes of the ids that the cache has, then the selectors.               *)
Collect(t) ==
  /\ view[t].at = "collect"
  /\ \E left \in ApplySelectors(view[t].ids \cap cache.nodes, view[t].group) :
       Step(t, [view[t] EXCEPT !.answer = left, !.at = "listed"])
  /\ UNCHANGED <<topo, version, known, cache, services, made>>

(* node_ids and nodes return; a service call goes on to the topology of the   *)
(* service, unless the group is empty.  The snapshot is taken first, then the *)
(* cache is asked.                                                            *)
Listed(t) ==
  /\ view[t].at = "listed"
  /\ Step(t, IF view[t].kind # "invoke" \/ view[t].answer = {} THEN Idle
             ELSE [view[t] EXCEPT !.version = known, !.ids = services.ids,
                    !.at = IF services.version = known /\ services.ids # {}
                           THEN "route" ELSE "service"])
  /\ UNCHANGED <<topo, version, known, cache, services, made>>

(* ServiceGetTopology is answered; the entry is put under the version of the  *)
(* snapshot.  asOf is the cluster's version when the server answered.         *)
AnswerService(t) ==
  /\ view[t].at = "service"
  /\ Step(t, [view[t] EXCEPT !.at = "cached", !.sent = version,
                             !.ids = topo[version] \ ClientNode])
  /\ UNCHANGED <<topo, version, known, cache, services, made>>

(* Faulty variant of CacheService: the version is the one known by now.       *)
CacheServiceNow(t) ==
  /\ view[t].at = "cached"
  /\ services' = [version |-> known, ids |-> view[t].ids, asOf |-> view[t].sent]
  /\ Step(t, [view[t] EXCEPT !.at = "route"])
  /\ UNCHANGED <<topo, version, known, cache, made>>

CacheService(t) ==
  /\ view[t].at = "cached"
  /\ services' = [version |-> view[t].version, ids |-> view[t].ids, asOf |-> view[t].sent]
  /\ Step(t, [view[t] EXCEPT !.at = "route"])
  /\ UNCHANGED <<topo, version, known, cache, made>>

(* invoke_typed sends the call: to a node that has the service and is in the  *)
(* group, or over the default route.                                          *)
Invoke(t) ==
  /\ view[t].at = "route"
  /\ LET both == view[t].ids \cap view[t].answer
     IN \E n \in IF both = {} THEN {{}} ELSE {{m} : m \in both} :
          Step(t, [Idle EXCEPT !.answer = n])
  /\ UNCHANGED <<topo, version, known, cache, services, made>>

(* The request fails, or the caller drops the future.                         *)
ViewFails(t) ==
  /\ view[t].at \in {"asked", "answered", "info", "described", "service", "cached"}
  /\ Step(t, Idle)
  /\ UNCHANGED <<topo, version, known, cache, services, made>>

(* Nodes join and leave.                                                      *)
ChangeTopology ==
  /\ version < Len(topo)
  /\ version' = version + 1
  /\ view' = [t \in Callers |-> [view[t] EXCEPT !.calm = FALSE]]
  /\ UNCHANGED <<topo, known, cache, services, made>>

(* handle_topology_change: the client hears of a newer version.               *)
HearVersion ==
  /\ known < version
  /\ known' \in known + 1..version
  /\ UNCHANGED <<topo, version, cache, services, view, made>>

CvNext ==
  \/ \E t \in Callers :
       \/ \E c \in Calls : AskNodeIds(t, c[1], c[2])
       \/ AnswerNodeIds(t) \/ ApplyNodeIds(t) \/ LookUpNodes(t)
       \/ AnswerNodeInfo(t) \/ TakeNodeInfo(t) \/ Collect(t) \/ Listed(t) \/ AnswerService(t) \/ CacheService(t)
       \/ Invoke(t) \/ ViewFails(t)
  \/ ChangeTopology \/ HearVersion

CvSpec == CvInit /\ [][CvNext]_cvVars

(* A version and the ids cached with it belong together, however late the     *)
(* replies come, so an unchanged reply to the next request is about these     *)
(* ids.                                                                       *)
CachedIdsOfVersion == cache.version # 0 => cache.ids = topo[cache.version]

(* A group asked for its nodes while no other call runs and no node joins or  *)
(* leaves gives exactly what its selectors pick from the cluster as it is,    *)
(* whatever earlier calls, late replies and failures left in the cache.       *)
QuietAnswerCurrent ==
  \A t \in Callers :
    view[t].at = "listed" /\ view[t].calm
      => view[t].answer \in ApplySelectors(topo[version], view[t].group)

(* A service topology is never older than the version it is cached under: it  *)
(* is asked for again once the client has heard of a later topology.          *)
ServiceCacheNotOlder == services.asOf >= services.version
==============================================================================
