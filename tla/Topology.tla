------------------------------ MODULE Topology ------------------------------
(***************************************************************************)
(* TopologyCache (topology.rs) as operators on its state.  Every method    *)
(* takes the write lock once, so each is one step of whoever calls it.     *)
(* Node ids are numbers: discovered_nodes is a BTreeMap, in their order.   *)
(* node_ids, which follows discovered_nodes, the active endpoint, which    *)
(* is only reported, and the data-centre list are left out.                *)
(***************************************************************************)
EXTENDS Integers, Sequences, FiniteSets, Functions

Unknown == -1   \* topology_version: None, sent as start version -1

Dedupe(s) ==
    LET kept[i \in 0..Len(s)] ==
          IF i = 0 THEN <<>>
          ELSE IF \E j \in 1..(i - 1) : s[j] = s[i] THEN kept[i - 1]
          ELSE Append(kept[i - 1], s[i])
    IN  kept[Len(s)]

\* flatten_discovered_nodes, for node ids up to n
Flatten(nodes, n) ==
    LET flat[i \in 0..n] ==
          LET here == IF i \in DOMAIN nodes THEN nodes[i] ELSE <<>>
          IN  IF i = 0 THEN here ELSE flat[i - 1] \o here
    IN  flat[n]

Discovered(t) ==
    IF DOMAIN t.nodes = {} THEN <<>>
    ELSE Dedupe(Flatten(t.nodes, CHOOSE n \in DOMAIN t.nodes : \A m \in DOMAIN t.nodes : n >= m))

\* refresh_cache_from: rebuilds cached_endpoints, under the write lock
RefreshCache(t) == [t EXCEPT !.endpoints = Dedupe(t.seeds \o Discovered(t))]

\* nodes: discovered_nodes, a function from node ids to their endpoints;
\* endpoints: cached_endpoints.
NewTopology(seeds) ==
    [seeds |-> Dedupe(seeds), nodes |-> <<>>, version |-> Unknown, endpoints |-> Dedupe(seeds)]

ReplaceSeeds(t, seeds) == RefreshCache([t EXCEPT !.seeds = Dedupe(seeds)])

\* Its result: the seeds that are no longer configured.
RemovedSeeds(t, seeds) == Range(t.seeds) \ Range(seeds)

\* next_index_after and the loop of connect_any: every endpoint once, from the one after
\* the failed address on.
EndpointsAfter(endpoints, failed) ==
    LET at == {i \in DOMAIN endpoints : endpoints[i] = failed}
        n  == IF at = {} THEN 0 ELSE CHOOSE i \in at : TRUE
    IN  [i \in DOMAIN endpoints |-> endpoints[((n + i - 1) % Len(endpoints)) + 1]]

EndpointsForNode(t, n) == IF n \in DOMAIN t.nodes THEN t.nodes[n] ELSE <<>>

RecordNodeEndpoint(t, n, e) ==
    RefreshCache([t EXCEPT !.nodes = [m \in DOMAIN @ \cup {n} |->
                    IF m = n THEN Dedupe(Append(EndpointsForNode(t, n), e)) ELSE @[m]]])

\* added: a function from node ids to endpoints; removed: node ids.
ApplyDiscoveryUpdate(t, version, added, removed) ==
    RefreshCache([t EXCEPT !.version = version,
                           !.nodes = [n \in (DOMAIN @ \cup DOMAIN added) \ removed |->
                               IF n \in DOMAIN added THEN Dedupe(added[n]) ELSE @[n]]])
============================================================================
