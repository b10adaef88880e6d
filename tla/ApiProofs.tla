------------------------------ MODULE ApiProofs -----------------------------
(***************************************************************************)
(* Parts of the client that share no state: the cluster view and its       *)
(* service cache, the methods of atomic longs and sets, and the end of a   *)
(* transaction, each with the invariant its properties need.               *)
(***************************************************************************)
EXTENDS ClusterView, Structures, Tx, FiniteSetTheorems, TLAPS

----------------------------------------------------------------------------
(* The cluster view, for any cluster, any number of tasks and any calls.  Two *)
(* facts are not inductive by themselves: a quiet call is right only because  *)
(* of what every earlier call left in the cache, and a service topology only  *)
(* because of what its task read before its request.  The invariant follows a *)
(* call from one of its awaits to the next.                                   *)

CvFields == {"at", "kind", "group", "sent", "changed", "version", "ids", "calm", "answer"}

CvShape ==
  /\ topo \in Seq(SUBSET Nat)
  /\ version \in 1..Len(topo) /\ known \in 1..version
  /\ cache = [version |-> cache.version, ids |-> cache.ids, nodes |-> cache.nodes]
  /\ cache.version \in Nat
  /\ services.version \in Nat /\ services.asOf \in Nat
  /\ DOMAIN view = Callers
  /\ \A t \in Callers :
       /\ DOMAIN view[t] = CvFields
       /\ view[t].sent \in Nat /\ view[t].version \in 0..version
       /\ view[t].calm \in BOOLEAN

(* What a task carries from its request to its answer and into the caches.    *)
Carried(t) ==
  /\ view[t].at = "answered" => view[t].version # 0 /\ view[t].ids = topo[view[t].version]
  /\ view[t].at = "cached" => view[t].sent >= view[t].version

(* A call that nothing disturbs sees the cluster as it is at each await.      *)
Undisturbed(t) ==
  view[t].calm =>
    /\ \A u \in Callers \ {t} : view[u].at = "idle"
    /\ view[t].at = "asked" => view[t].sent = cache.version
    /\ view[t].at = "answered" =>
         /\ view[t].version = version /\ view[t].sent = cache.version
         /\ ~view[t].changed => cache.version = version
    /\ view[t].at \in {"lookup", "info", "described", "collect"} => view[t].ids = topo[version]
    /\ view[t].at \in {"info", "described"} => view[t].answer = view[t].ids \ cache.nodes
    /\ view[t].at = "collect" => view[t].ids \subseteq cache.nodes
    /\ view[t].at = "listed" => view[t].answer \in ApplySelectors(topo[version], view[t].group)

CvInv ==
  /\ CvShape
  /\ CachedIdsOfVersion
  /\ ServiceCacheNotOlder
  /\ \A t \in Callers : Carried(t) /\ Undisturbed(t)

-----------------------------------------------------------------------------
LEMMA IdleFields ==
  /\ DOMAIN Idle = CvFields
  /\ Idle.at = "idle" /\ Idle.sent = 0 /\ Idle.version = 0 /\ Idle.calm = FALSE
BY DEF Idle, CvFields

LEMMA CvInitial == CvInit => CvInv
<1> SUFFICES ASSUME CvInit PROVE CvInv
  OBVIOUS
<1>1. topo \in Seq(SUBSET Nat) /\ Len(topo) \in Nat \ {0}
  BY ClusterViewAssumption DEF CvInit
<1>2. \A t \in Callers : view[t] = Idle
  BY DEF CvInit
<1>3. CvShape
  <2>1. cache = [version |-> cache.version, ids |-> cache.ids, nodes |-> cache.nodes]
        /\ cache.version \in Nat /\ services.version \in Nat /\ services.asOf \in Nat
    BY DEF CvInit
  <2>2. version \in 1..Len(topo) /\ known \in 1..version /\ DOMAIN view = Callers
    BY <1>1 DEF CvInit
  <2>3. \A t \in Callers :
          /\ DOMAIN view[t] = CvFields
          /\ view[t].sent \in Nat /\ view[t].version \in 0..version
          /\ view[t].calm \in BOOLEAN
    <3> TAKE t \in Callers
    <3>1. view[t] = Idle
      BY <1>2
    <3>2. view[t].calm \in BOOLEAN
      BY <3>1, IdleFields, Zenon
    <3> QED
      BY <3>1, <3>2, <2>2, <1>1, IdleFields
  <2> QED
    BY <1>1, <2>1, <2>2, <2>3 DEF CvShape
<1>4. CachedIdsOfVersion /\ ServiceCacheNotOlder
  BY DEF CvInit, CachedIdsOfVersion, ServiceCacheNotOlder
<1>5. \A t \in Callers : Carried(t) /\ Undisturbed(t)
  BY <1>2, IdleFields DEF Carried, Undisturbed
<1> QED
  BY <1>3, <1>4, <1>5 DEF CvInv

(* A step of one task leaves the calls of the others as they are.             *)
LEMMA OneCallMoves ==
  ASSUME CvShape, NEW t \in Callers, NEW r, Step(t, r)
  PROVE  /\ DOMAIN view' = Callers
         /\ view'[t] = r
         /\ \A u \in Callers \ {t} : view'[u] = view[u]
BY DEF CvShape, Step

(* So a step of t keeps the invariant when the topology stays and the new     *)
(* call, the caches and the calls of the others fit together again.           *)
LEMMA CallStepKeeps ==
  ASSUME CvInv, NEW t \in Callers, NEW r, Step(t, r),
         UNCHANGED <<topo, version, known>>,
         DOMAIN r = CvFields, r.sent \in Nat, r.version \in 0..version, r.calm \in BOOLEAN,
         r.calm => view[t].calm,
         cache' = [version |-> cache'.version, ids |-> cache'.ids, nodes |-> cache'.nodes],
         cache'.version \in Nat, services'.version \in Nat, services'.asOf \in Nat,
         CachedIdsOfVersion', ServiceCacheNotOlder', Carried(t)',
         view[t].at # "idle",
         r.calm => Undisturbed(t)'
  PROVE  CvInv'
<1>1. /\ DOMAIN view' = Callers /\ view'[t] = r
      /\ \A u \in Callers \ {t} : view'[u] = view[u]
  BY OneCallMoves DEF CvInv
<1>2. CvShape'
  BY <1>1 DEF CvInv, CvShape
<1>3. ASSUME NEW u \in Callers PROVE Carried(u)' /\ Undisturbed(u)'
  <2>1. CASE u = t
    BY <2>1, <1>1 DEF Undisturbed
  <2>2. CASE u # t
    <3>1. view'[u] = view[u] /\ Carried(u) /\ Undisturbed(u)
      BY <2>2, <1>1 DEF CvInv
    <3>2. ~view[u].calm
      BY <3>1, <2>2 DEF Undisturbed
    <3> QED
      BY <3>1, <3>2 DEF Carried, Undisturbed
  <2> QED
    BY <2>1, <2>2
<1> QED
  BY <1>2, <1>3 DEF CvInv

-----------------------------------------------------------------------------
(* One lemma per action.                                                      *)

LEMMA AskKeeps ==
  ASSUME CvInv, NEW t \in Callers, NEW kind, NEW group, AskNodeIds(t, kind, group)
  PROVE  CvInv'
<1> DEFINE r == [Idle EXCEPT !.at = "asked", !.kind = kind, !.group = group,
                   !.sent = cache.version, !.calm = \A v \in Callers \ {t} : ~Busy(v)]
<1>1. /\ DOMAIN r = CvFields /\ r.at = "asked" /\ r.sent = cache.version /\ r.version = 0
      /\ r.calm \in BOOLEAN
      /\ r.calm => \A v \in Callers \ {t} : view[v].at = "idle"
  BY DEF Idle, CvFields, Busy
<1>2. /\ DOMAIN view' = Callers /\ view'[t] = r
      /\ \A u \in Callers \ {t} : view'[u] = [view[u] EXCEPT !.calm = FALSE]
  BY DEF AskNodeIds
<1> HIDE DEF r
<1>3. UNCHANGED <<topo, version, known, cache, services>>
  BY DEF AskNodeIds
<1>4. ASSUME NEW u \in Callers \ {t}
      PROVE  /\ DOMAIN view'[u] = CvFields /\ view'[u].calm = FALSE
             /\ view'[u].at = view[u].at /\ view'[u].sent = view[u].sent
             /\ view'[u].version = view[u].version /\ view'[u].ids = view[u].ids
  <2>1. DOMAIN view[u] = CvFields
    BY DEF CvInv, CvShape
  <2> QED
    BY <2>1, <1>2 DEF CvFields
<1>5. CvShape'
  <2>1. \A u \in Callers :
          /\ DOMAIN view'[u] = CvFields
          /\ view'[u].sent \in Nat /\ view'[u].version \in 0..version
          /\ view'[u].calm \in BOOLEAN
    <3> TAKE u \in Callers
    <3>1. CASE u = t
      BY <3>1, <1>1, <1>2 DEF CvInv, CvShape
    <3>2. CASE u # t
      BY <3>2, <1>4 DEF CvInv, CvShape
    <3> QED
      BY <3>1, <3>2
  <2> QED
    BY <2>1, <1>2, <1>3 DEF CvInv, CvShape
<1>6. ASSUME NEW u \in Callers PROVE Carried(u)'
  <2>1. CASE u = t
    BY <2>1, <1>1, <1>2 DEF Carried
  <2>2. CASE u # t
    BY <2>2, <1>3, <1>4 DEF CvInv, Carried
  <2> QED
    BY <2>1, <2>2
<1>7. ASSUME NEW u \in Callers PROVE Undisturbed(u)'
  <2>1. CASE u = t
    BY <2>1, <1>1, <1>2, <1>3, <1>4 DEF Undisturbed
  <2>2. CASE u # t
    BY <2>2, <1>4 DEF Undisturbed
  <2> QED
    BY <2>1, <2>2
<1>8. CachedIdsOfVersion' /\ ServiceCacheNotOlder'
  BY <1>3 DEF CvInv, CachedIdsOfVersion, ServiceCacheNotOlder
<1> QED
  BY <1>5, <1>6, <1>7, <1>8 DEF CvInv

LEMMA AnswerKeeps ==
  ASSUME CvInv, NEW t \in Callers, AnswerNodeIds(t)
  PROVE  CvInv'
<1> DEFINE r == [view[t] EXCEPT !.at = "answered", !.changed = view[t].sent # version,
                                !.version = version, !.ids = topo[version]]
<1>1. /\ DOMAIN r = CvFields /\ r.at = "answered" /\ r.version = version /\ r.ids = topo[version]
      /\ ~r.changed => view[t].sent = version
      /\ r.sent = view[t].sent /\ r.calm = view[t].calm
  BY DEF CvInv, CvShape, CvFields
<1>2. Step(t, r) /\ UNCHANGED <<topo, version, known, cache, services>>
  BY DEF AnswerNodeIds
<1> HIDE DEF r
<1>3. view'[t] = r /\ \A u \in Callers \ {t} : view'[u] = view[u]
  BY <1>2, OneCallMoves DEF CvInv
<1>4. Carried(t)'
  BY <1>1, <1>2, <1>3 DEF Carried, CvInv, CvShape
<1>5. r.calm => Undisturbed(t)'
  <2> SUFFICES ASSUME r.calm PROVE Undisturbed(t)'
    OBVIOUS
  <2>1. view[t].sent = cache.version /\ \A u \in Callers \ {t} : view[u].at = "idle"
    BY <1>1 DEF CvInv, Undisturbed, AnswerNodeIds
  <2> QED
    BY <2>1, <1>1, <1>2, <1>3 DEF Undisturbed
<1> QED
  BY <1>1, <1>2, <1>4, <1>5, CallStepKeeps
     DEF CvInv, CvShape, CachedIdsOfVersion, ServiceCacheNotOlder, AnswerNodeIds

LEMMA ApplyKeeps ==
  ASSUME CvInv, NEW t \in Callers, ApplyNodeIds(t)
  PROVE  CvInv'
<1> DEFINE r == WithIds(t, cache'.ids)
<1>1. /\ DOMAIN r = CvFields /\ r.sent = 0 /\ r.version = 0 /\ r.calm = view[t].calm
      /\ r.ids = cache'.ids /\ r.answer = cache'.ids /\ r.group = view[t].group
      /\ \/ r.at = "lookup"
         \/ r.at = "listed" /\ view[t].group = <<>>
  BY DEF CvInv, CvShape, CvFields, WithIds
<1>2. Step(t, r) /\ UNCHANGED <<topo, version, known, services>> /\ view[t].at = "answered"
  BY DEF ApplyNodeIds
<1> HIDE DEF r
<1>3. view'[t] = r /\ \A u \in Callers \ {t} : view'[u] = view[u]
  BY <1>2, OneCallMoves DEF CvInv
<1>4. /\ cache' = [version |-> cache'.version, ids |-> cache'.ids, nodes |-> cache'.nodes]
      /\ cache'.version \in Nat
      /\ IF view[t].changed
         THEN cache'.version = view[t].version /\ cache'.ids = view[t].ids
         ELSE cache' = cache
  <2>1. CASE view[t].changed
    <3>1. cache' = [version |-> view[t].version, ids |-> view[t].ids,
                    nodes |-> cache.nodes \cap view[t].ids]
      BY <2>1 DEF ApplyNodeIds
    <3> QED
      BY <3>1, <2>1 DEF CvInv, CvShape
  <2>2. CASE ~view[t].changed
    <3>1. cache' = cache
      BY <2>2 DEF ApplyNodeIds
    <3> QED
      BY <3>1, <2>2 DEF CvInv, CvShape
  <2> QED
    BY <2>1, <2>2
<1>5. CachedIdsOfVersion'
  BY <1>2, <1>4 DEF CvInv, CachedIdsOfVersion, Carried
<1>6. Carried(t)'
  BY <1>1, <1>3 DEF Carried
<1>7. r.calm => Undisturbed(t)'
  <2> SUFFICES ASSUME r.calm PROVE Undisturbed(t)'
    OBVIOUS
  <2>1. /\ view[t].version = version /\ (~view[t].changed => cache.version = version)
        /\ \A u \in Callers \ {t} : view[u].at = "idle"
    BY <1>1, <1>2 DEF CvInv, Undisturbed
  <2>2. cache'.ids = topo[version]
    <3>1. CASE view[t].changed
      BY <3>1, <2>1, <1>2, <1>4 DEF CvInv, Carried
    <3>2. CASE ~view[t].changed
      BY <3>2, <2>1, <1>4 DEF CvInv, CachedIdsOfVersion, CvShape
    <3> QED
      BY <3>1, <3>2
  <2>3. r.at = "listed" => r.answer \in ApplySelectors(topo[version], r.group)
    BY <2>2, <1>1 DEF ApplySelectors
  <2> QED
    BY <2>1, <2>2, <2>3, <1>1, <1>2, <1>3 DEF Undisturbed
<1> QED
  BY <1>1, <1>2, <1>4, <1>5, <1>6, <1>7, CallStepKeeps
     DEF CvInv, CvShape, ServiceCacheNotOlder

LEMMA LookUpKeeps ==
  ASSUME CvInv, NEW t \in Callers, LookUpNodes(t)
  PROVE  CvInv'
<1> DEFINE r == [view[t] EXCEPT !.answer = view[t].ids \ cache.nodes,
                                !.at = IF view[t].ids \subseteq cache.nodes
                                       THEN "collect" ELSE "info"]
<1>1. /\ DOMAIN r = CvFields /\ r.sent = view[t].sent /\ r.version = view[t].version
      /\ r.calm = view[t].calm /\ r.ids = view[t].ids /\ r.answer = view[t].ids \ cache.nodes
      /\ \/ r.at = "collect" /\ view[t].ids \subseteq cache.nodes
         \/ r.at = "info"
  BY DEF CvInv, CvShape, CvFields
<1>2. Step(t, r) /\ UNCHANGED <<topo, version, known, cache, services>> /\ view[t].at = "lookup"
  BY DEF LookUpNodes
<1> HIDE DEF r
<1>3. view'[t] = r /\ \A u \in Callers \ {t} : view'[u] = view[u]
  BY <1>2, OneCallMoves DEF CvInv
<1>4. Carried(t)'
  BY <1>1, <1>3 DEF Carried
<1>5. r.calm => Undisturbed(t)'
  <2> SUFFICES ASSUME r.calm PROVE Undisturbed(t)'
    OBVIOUS
  <2>1. /\ \A u \in Callers \ {t} : view[u].at = "idle"
        /\ view[t].ids = topo[version]
    BY <1>1, <1>2 DEF CvInv, Undisturbed
  <2> QED
    BY <2>1, <1>1, <1>2, <1>3 DEF Undisturbed
<1> QED
  BY <1>1, <1>2, <1>4, <1>5, CallStepKeeps
     DEF CvInv, CvShape, CachedIdsOfVersion, ServiceCacheNotOlder

LEMMA DescribeKeeps ==
  ASSUME CvInv, NEW t \in Callers, AnswerNodeInfo(t)
  PROVE  CvInv'
<1> DEFINE r == [view[t] EXCEPT !.answer = @ \cap topo[version], !.at = "described"]
<1>1. /\ DOMAIN r = CvFields /\ r.sent = view[t].sent /\ r.version = view[t].version
      /\ r.calm = view[t].calm /\ r.ids = view[t].ids /\ r.at = "described"
      /\ r.answer = view[t].answer \cap topo[version]
  BY DEF CvInv, CvShape, CvFields
<1>2. Step(t, r) /\ UNCHANGED <<topo, version, known, cache, services>> /\ view[t].at = "info"
  BY DEF AnswerNodeInfo
<1> HIDE DEF r
<1>3. view'[t] = r /\ \A u \in Callers \ {t} : view'[u] = view[u]
  BY <1>2, OneCallMoves DEF CvInv
<1>4. Carried(t)'
  BY <1>1, <1>3 DEF Carried
<1>5. r.calm => Undisturbed(t)'
  <2> SUFFICES ASSUME r.calm PROVE Undisturbed(t)'
    OBVIOUS
  <2>1. /\ \A u \in Callers \ {t} : view[u].at = "idle"
        /\ view[t].ids = topo[version] /\ view[t].answer = view[t].ids \ cache.nodes
    BY <1>1, <1>2 DEF CvInv, Undisturbed
  <2> QED
    BY <2>1, <1>1, <1>2, <1>3 DEF Undisturbed
<1> QED
  BY <1>1, <1>2, <1>4, <1>5, CallStepKeeps
     DEF CvInv, CvShape, CachedIdsOfVersion, ServiceCacheNotOlder

LEMMA TakeKeeps ==
  ASSUME CvInv, NEW t \in Callers, TakeNodeInfo(t)
  PROVE  CvInv'
<1> DEFINE r == [view[t] EXCEPT !.at = "collect"]
<1>1. /\ DOMAIN r = CvFields /\ r.sent = view[t].sent /\ r.version = view[t].version
      /\ r.calm = view[t].calm /\ r.ids = view[t].ids /\ r.at = "collect"
  BY DEF CvInv, CvShape, CvFields
<1>2. Step(t, r) /\ UNCHANGED <<topo, version, known, services>> /\ view[t].at = "described"
  BY DEF TakeNodeInfo
<1> HIDE DEF r
<1>3. view'[t] = r /\ \A u \in Callers \ {t} : view'[u] = view[u]
  BY <1>2, OneCallMoves DEF CvInv
<1>4. /\ cache' = [version |-> cache'.version, ids |-> cache'.ids, nodes |-> cache'.nodes]
      /\ cache'.version = cache.version /\ cache'.ids = cache.ids
      /\ cache'.nodes = cache.nodes \cup view[t].answer
  <2>1. cache = [version |-> cache.version, ids |-> cache.ids, nodes |-> cache.nodes]
    BY DEF CvInv, CvShape
  <2> QED
    BY <2>1 DEF TakeNodeInfo
<1>5. Carried(t)'
  BY <1>1, <1>3 DEF Carried
<1>6. r.calm => Undisturbed(t)'
  <2> SUFFICES ASSUME r.calm PROVE Undisturbed(t)'
    OBVIOUS
  <2>1. /\ \A u \in Callers \ {t} : view[u].at = "idle"
        /\ view[t].ids = topo[version] /\ view[t].answer = view[t].ids \ cache.nodes
    BY <1>1, <1>2 DEF CvInv, Undisturbed
  <2>2. view[t].ids \subseteq cache'.nodes
    BY <2>1, <1>4
  <2> QED
    BY <2>1, <2>2, <1>1, <1>2, <1>3 DEF Undisturbed
<1> QED
  BY <1>1, <1>2, <1>4, <1>5, <1>6, CallStepKeeps
     DEF CvInv, CvShape, CachedIdsOfVersion, ServiceCacheNotOlder

LEMMA CollectKeeps ==
  ASSUME CvInv, NEW t \in Callers, Collect(t)
  PROVE  CvInv'
<1>1. PICK left \in ApplySelectors(view[t].ids \cap cache.nodes, view[t].group) :
        Step(t, [view[t] EXCEPT !.answer = left, !.at = "listed"])
  BY DEF Collect
<1> DEFINE r == [view[t] EXCEPT !.answer = left, !.at = "listed"]
<1>2. /\ DOMAIN r = CvFields /\ r.sent = view[t].sent /\ r.version = view[t].version
      /\ r.calm = view[t].calm /\ r.at = "listed" /\ r.answer = left /\ r.group = view[t].group
  BY DEF CvInv, CvShape, CvFields
<1>3. Step(t, r) /\ UNCHANGED <<topo, version, known, cache, services>> /\ view[t].at = "collect"
  BY <1>1 DEF Collect
<1> HIDE DEF r
<1>4. view'[t] = r /\ \A u \in Callers \ {t} : view'[u] = view[u]
  BY <1>3, OneCallMoves DEF CvInv
<1>5. Carried(t)'
  BY <1>2, <1>4 DEF Carried
<1>6. r.calm => Undisturbed(t)'
  <2> SUFFICES ASSUME r.calm PROVE Undisturbed(t)'
    OBVIOUS
  <2>1. /\ \A u \in Callers \ {t} : view[u].at = "idle"
        /\ view[t].ids = topo[version] /\ view[t].ids \subseteq cache.nodes
    BY <1>2, <1>3 DEF CvInv, Undisturbed
  <2>2. view[t].ids \cap cache.nodes = topo[version]
    BY <2>1
  <2>3. left \in ApplySelectors(topo[version], view[t].group)
    BY <2>2, <1>1
  <2> QED
    BY <2>1, <2>3, <1>2, <1>3, <1>4 DEF Undisturbed
<1> QED
  BY <1>2, <1>3, <1>5, <1>6, CallStepKeeps
     DEF CvInv, CvShape, CachedIdsOfVersion, ServiceCacheNotOlder

(* A call that ends, or that goes on to await something no quiet answer       *)
(* depends on, keeps the invariant when its version is one the cluster had.   *)
LEMMA MovesOn ==
  ASSUME CvInv, NEW t \in Callers, NEW r, Step(t, r), view[t].at # "idle",
         UNCHANGED <<topo, version, known, cache, services>>,
         DOMAIN r = CvFields, r.sent \in Nat, r.version \in 0..version, r.calm \in BOOLEAN,
         r.calm => view[t].calm,
         r.at \in {"idle", "route", "service", "cached"},
         r.at = "cached" => r.sent >= r.version
  PROVE  CvInv'
<1>1. view'[t] = r /\ \A u \in Callers \ {t} : view'[u] = view[u]
  BY OneCallMoves DEF CvInv
<1>2. Carried(t)'
  BY <1>1 DEF Carried
<1>3. r.calm => Undisturbed(t)'
  <2> SUFFICES ASSUME r.calm PROVE Undisturbed(t)'
    OBVIOUS
  <2>1. \A u \in Callers \ {t} : view[u].at = "idle"
    BY DEF CvInv, Undisturbed
  <2> QED
    BY <2>1, <1>1 DEF Undisturbed
<1> QED
  BY <1>2, <1>3, CallStepKeeps
     DEF CvInv, CvShape, CachedIdsOfVersion, ServiceCacheNotOlder

LEMMA IdleKeeps ==
  ASSUME CvInv, NEW t \in Callers, NEW r, Step(t, r), view[t].at # "idle",
         UNCHANGED <<topo, version, known, cache, services>>,
         DOMAIN r = CvFields, r.at = "idle", r.sent = 0, r.version = 0, r.calm = FALSE
  PROVE  CvInv'
<1>1. r.sent \in Nat /\ r.version \in 0..version
  BY DEF CvInv, CvShape
<1>2. r.calm \in BOOLEAN /\ (r.calm => view[t].calm)
  BY Zenon
<1> QED
  BY <1>1, <1>2, MovesOn

LEMMA ListedKeeps ==
  ASSUME CvInv, NEW t \in Callers, Listed(t)
  PROVE  CvInv'
<1>1. view[t].at = "listed" /\ UNCHANGED <<topo, version, known, cache, services>>
  BY DEF Listed
<1>2. CASE Step(t, Idle)
  BY <1>1, <1>2, IdleFields, IdleKeeps
<1>3. CASE Step(t, [view[t] EXCEPT !.version = known, !.ids = services.ids,
                      !.at = IF services.version = known /\ services.ids # {}
                             THEN "route" ELSE "service"])
  <2> DEFINE r == [view[t] EXCEPT !.version = known, !.ids = services.ids,
                     !.at = IF services.version = known /\ services.ids # {}
                            THEN "route" ELSE "service"]
  <2>1. /\ DOMAIN r = CvFields /\ r.sent = view[t].sent /\ r.version = known
        /\ r.calm = view[t].calm /\ r.at \in {"route", "service"}
    BY DEF CvInv, CvShape, CvFields
  <2>2. Step(t, r)
    BY <1>3
  <2> HIDE DEF r
  <2>3. r.sent \in Nat /\ r.version \in 0..version /\ r.calm \in BOOLEAN
    BY <2>1 DEF CvInv, CvShape
  <2> QED
    BY <2>1, <2>2, <2>3, <1>1, MovesOn
<1> QED
  BY <1>2, <1>3 DEF Listed

LEMMA AnswerServiceKeeps ==
  ASSUME CvInv, NEW t \in Callers, AnswerService(t)
  PROVE  CvInv'
<1> DEFINE r == [view[t] EXCEPT !.at = "cached", !.sent = version,
                                !.ids = topo[version] \ ClientNode]
<1>1. /\ DOMAIN r = CvFields /\ r.sent = version /\ r.version = view[t].version
      /\ r.calm = view[t].calm /\ r.at = "cached"
  BY DEF CvInv, CvShape, CvFields
<1>2. /\ Step(t, r) /\ view[t].at = "service"
      /\ UNCHANGED <<topo, version, known, cache, services>>
  BY DEF AnswerService
<1> HIDE DEF r
<1>3. r.sent \in Nat /\ r.version \in 0..version /\ r.calm \in BOOLEAN /\ r.sent >= r.version
  BY <1>1 DEF CvInv, CvShape
<1> QED
  BY <1>1, <1>2, <1>3, MovesOn

LEMMA CacheServiceKeeps ==
  ASSUME CvInv, NEW t \in Callers, CacheService(t)
  PROVE  CvInv'
<1> DEFINE r == [view[t] EXCEPT !.at = "route"]
<1>1. /\ DOMAIN r = CvFields /\ r.sent = view[t].sent /\ r.version = view[t].version
      /\ r.calm = view[t].calm /\ r.at = "route"
  BY DEF CvInv, CvShape, CvFields
<1>2. Step(t, r) /\ view[t].at = "cached" /\ UNCHANGED <<topo, version, known, cache>>
  BY DEF CacheService
<1> HIDE DEF r
<1>3. view'[t] = r /\ \A u \in Callers \ {t} : view'[u] = view[u]
  BY <1>2, OneCallMoves DEF CvInv
<1>4. services'.version = view[t].version /\ services'.asOf = view[t].sent
  BY DEF CacheService
<1>5. /\ services'.version \in Nat /\ services'.asOf \in Nat
      /\ services'.asOf >= services'.version
  BY <1>2, <1>4 DEF CvInv, CvShape, Carried
<1>6. Carried(t)'
  BY <1>1, <1>3 DEF Carried
<1>7. r.calm => Undisturbed(t)'
  <2> SUFFICES ASSUME r.calm PROVE Undisturbed(t)'
    OBVIOUS
  <2>1. \A u \in Callers \ {t} : view[u].at = "idle"
    BY <1>1 DEF CvInv, Undisturbed
  <2> QED
    BY <2>1, <1>1, <1>3 DEF Undisturbed
<1> QED
  BY <1>1, <1>2, <1>5, <1>6, <1>7, CallStepKeeps
     DEF CvInv, CvShape, CachedIdsOfVersion, ServiceCacheNotOlder

LEMMA InvokeKeeps ==
  ASSUME CvInv, NEW t \in Callers, Invoke(t)
  PROVE  CvInv'
<1>1. PICK n : Step(t, [Idle EXCEPT !.answer = n])
  BY DEF Invoke
<1> DEFINE r == [Idle EXCEPT !.answer = n]
<1>2. DOMAIN r = CvFields /\ r.at = "idle" /\ r.sent = 0 /\ r.version = 0 /\ r.calm = FALSE
  BY DEF Idle, CvFields
<1>3. Step(t, r)
  BY <1>1
<1> HIDE DEF r
<1>4. view[t].at # "idle" /\ UNCHANGED <<topo, version, known, cache, services>>
  BY DEF Invoke
<1> QED
  BY <1>2, <1>3, <1>4, IdleKeeps

LEMMA FailKeeps ==
  ASSUME CvInv, NEW t \in Callers, ViewFails(t)
  PROVE  CvInv'
<1>1. /\ Step(t, Idle) /\ view[t].at # "idle"
      /\ UNCHANGED <<topo, version, known, cache, services>>
  BY DEF ViewFails
<1> QED
  BY <1>1, IdleFields, IdleKeeps

(* After a change of the topology no call is undisturbed.                     *)
LEMMA ChangeKeeps ==
  ASSUME CvInv, ChangeTopology
  PROVE  CvInv'
<1>1. /\ DOMAIN view' = Callers /\ version' = version + 1 /\ version < Len(topo)
      /\ UNCHANGED <<topo, known, cache, services>>
  BY DEF ChangeTopology
<1>2. ASSUME NEW u \in Callers
      PROVE  /\ DOMAIN view'[u] = CvFields /\ view'[u].calm = FALSE
             /\ view'[u].at = view[u].at /\ view'[u].sent = view[u].sent
             /\ view'[u].version = view[u].version /\ view'[u].ids = view[u].ids
  <2>1. DOMAIN view[u] = CvFields /\ view'[u] = [view[u] EXCEPT !.calm = FALSE]
    BY DEF CvInv, CvShape, ChangeTopology
  <2> QED
    BY <2>1 DEF CvFields
<1>3. ASSUME NEW u \in Callers
      PROVE  /\ view'[u].sent \in Nat /\ view'[u].version \in 0..version'
             /\ Carried(u)'
  <2>1. view[u].sent \in Nat /\ view[u].version \in 0..version /\ version \in Nat
    BY DEF CvInv, CvShape
  <2>2. view'[u].sent \in Nat /\ view'[u].version \in 0..version'
    <3>1. view'[u].sent = view[u].sent /\ view'[u].version = view[u].version
      BY <1>2
    <3>2. view[u].version \in 0..version'
      BY <2>1, <1>1
    <3> QED
      BY <3>1, <3>2, <2>1
  <2>3. Carried(u)'
    BY <1>1, <1>2 DEF CvInv, Carried
  <2> QED
    BY <2>2, <2>3
<1>4. ASSUME NEW u \in Callers PROVE view'[u].calm \in BOOLEAN /\ Undisturbed(u)'
  BY <1>2 DEF Undisturbed
<1>5. version' \in 1..Len(topo') /\ known' \in 1..version'
  BY <1>1 DEF CvInv, CvShape
<1>6. CvShape'
  BY <1>1, <1>2, <1>3, <1>4, <1>5, ZenonT(30) DEF CvInv, CvShape
<1>7. CachedIdsOfVersion' /\ ServiceCacheNotOlder'
  BY <1>1 DEF CvInv, CachedIdsOfVersion, ServiceCacheNotOlder
<1> QED
  BY <1>3, <1>4, <1>6, <1>7 DEF CvInv

LEMMA HearKeeps ==
  ASSUME CvInv, HearVersion
  PROVE  CvInv'
<1>1. known' \in 1..version /\ UNCHANGED <<topo, version, cache, services, view>>
  BY DEF CvInv, CvShape, HearVersion
<1>2. CvShape'
  BY <1>1 DEF CvInv, CvShape
<1>3. \A t \in Callers : Carried(t)' /\ Undisturbed(t)'
  BY <1>1 DEF CvInv, Carried, Undisturbed
<1> QED
  BY <1>1, <1>2, <1>3 DEF CvInv, CachedIdsOfVersion, ServiceCacheNotOlder

LEMMA CvStep == CvInv /\ [CvNext]_cvVars => CvInv'
<1> SUFFICES ASSUME CvInv, [CvNext]_cvVars PROVE CvInv'
  OBVIOUS
<1>1. CASE UNCHANGED cvVars
  <2>1. CvShape'
    BY <1>1 DEF CvInv, CvShape, cvVars
  <2>2. \A t \in Callers : Carried(t)' /\ Undisturbed(t)'
    BY <1>1 DEF CvInv, Carried, Undisturbed, cvVars
  <2> QED
    BY <2>1, <2>2, <1>1 DEF CvInv, CachedIdsOfVersion, ServiceCacheNotOlder, cvVars
<1>2. ASSUME NEW t \in Callers, NEW c \in Calls, AskNodeIds(t, c[1], c[2]) PROVE CvInv'
  BY <1>2, AskKeeps
<1>3. ASSUME NEW t \in Callers,
             AnswerNodeIds(t) \/ ApplyNodeIds(t) \/ LookUpNodes(t) \/ AnswerNodeInfo(t)
      PROVE  CvInv'
  BY <1>3, AnswerKeeps, ApplyKeeps, LookUpKeeps, DescribeKeeps
<1>4. ASSUME NEW t \in Callers, TakeNodeInfo(t) \/ Collect(t) \/ Listed(t) \/ AnswerService(t)
      PROVE  CvInv'
  BY <1>4, TakeKeeps, CollectKeeps, ListedKeeps, AnswerServiceKeeps
<1>5. ASSUME NEW t \in Callers, CacheService(t) \/ Invoke(t) \/ ViewFails(t) PROVE CvInv'
  BY <1>5, CacheServiceKeeps, InvokeKeeps, FailKeeps
<1>6. CASE ChangeTopology \/ HearVersion
  BY <1>6, ChangeKeeps, HearKeeps
<1> QED
  BY <1>1, <1>2, <1>3, <1>4, <1>5, <1>6 DEF CvNext

LEMMA CvAlways == CvSpec => []CvInv
BY CvInitial, CvStep, PTL DEF CvSpec

(* Whatever earlier calls, late replies, failures and changes of the topology *)
(* left in ClusterCache, a call of node_ids or nodes that nothing disturbs    *)
(* answers with what its selectors pick from the cluster as it is, for every  *)
(* history of the cluster and any number of tasks.                            *)
THEOREM QuietAnswersAreCurrent == CvSpec => []QuietAnswerCurrent
<1>1. CvInv => QuietAnswerCurrent
  BY DEF CvInv, Undisturbed, QuietAnswerCurrent
<1> QED
  BY <1>1, CvAlways, PTL

(* ClusterCache never pairs a topology version with the ids of another one    *)
(* (request_node_ids), so "unchanged" in a reply speaks of the ids cached.    *)
THEOREM CachedIdsMatch == CvSpec => []CachedIdsOfVersion
<1>1. CvInv => CachedIdsOfVersion
  BY DEF CvInv
<1> QED
  BY <1>1, CvAlways, PTL

(* The cache of service topologies, whose version is read before the request  *)
(* and stored after it, never holds an entry older than its version           *)
(* (service_topology).                                                        *)
THEOREM ServiceCacheIsFresh == CvSpec => []ServiceCacheNotOlder
<1>1. CvInv => ServiceCacheNotOlder
  BY DEF CvInv
<1> QED
  BY <1>1, CvAlways, PTL

----------------------------------------------------------------------------
(* Atomic longs and sets, for integers of any width and any values. *)

\* What ResultsAsPromised says of a call that is done.
AsPromised(w) ==
  \/ w.result = Promised(w)
  \/ /\ w.result = Panic
     /\ w.call.method = "get_and_add"
     /\ w.is - w.call.arg \notin Long

\* Whatever a method may make of the response is as promised.
Answered(w) == \A r \in Returned(w.call, w.response) : AsPromised([w EXCEPT !.result = r])

StFields == {"at", "call", "was", "is", "had", "has", "again", "response", "result"}

WorkOk(w) ==
  /\ DOMAIN w = StFields
  /\ w.call \in LongCalls \cup SetCalls
  /\ w.at \in {"sent", "served"} => w.call.code # ""
  /\ w.at = "served" => Answered(w)
  /\ w.at = "done" /\ w.call.code # "" => AsPromised(w)

StInv ==
  /\ long \in Long \cup {Removed} /\ set \in SUBSET Elements
  /\ DOMAIN work = Workers
  /\ \A t \in Workers : WorkOk(work[t])

\* Subtracting undoes the addition that wrapped around.
LEMMA WrapsBack ==
  ASSUME NEW v \in Long, NEW a \in Long
  PROVE  /\ Wrap(v + a) \in Long
         /\ Wrap(Wrap(v + a) - a) = v
         /\ Wrap(v + a) - a \in Long => Wrap(v + a) - a = v
<1> DEFINE H == 2^(LongBits - 1)
           M == 2 * H
           r == Wrap(v + a)
<1>1. H \in Nat /\ H > 1 /\ 2^LongBits = M
  BY StructuresAssumption
<1>2. MinLong = -H /\ Long = (-H)..(H - 1)
  BY DEF MinLong, MaxLong, Long
<1>3. \A x : Wrap(x) = (-H) + ((x - (-H)) % M)
  BY <1>1, <1>2 DEF Wrap
<1> HIDE DEF H, r
<1>4. \A x \in 0..(M - 1) : x % M = x
  BY <1>1
<1>5. \A x \in M..(2 * M - 1) : x % M = x - M
  BY <1>1
<1>6. \A x \in (-M)..(-1) : x % M = x + M
  BY <1>1
<1>7. ASSUME NEW x \in (-(2 * H))..(2 * H)
      PROVE  /\ x \in (-H)..(H - 1) => Wrap(x) = x
             /\ x >= H => Wrap(x) = x - M
             /\ x < -H => Wrap(x) = x + M
  <2>1. x - (-H) \in Int /\ x - (-H) = x + H
    BY <1>1
  <2>2. CASE x \in (-H)..(H - 1)
    <3>1. x - (-H) \in 0..(M - 1)
      BY <1>1, <2>2
    <3> QED
      BY <1>1, <1>3, <1>4, <2>1, <2>2, <3>1
  <2>3. CASE x >= H
    <3>1. x - (-H) \in M..(2 * M - 1)
      BY <1>1, <2>3
    <3>2. Wrap(x) = (-H) + ((x - (-H)) - M)
      BY <1>3, <1>5, <3>1
    <3> QED
      BY <1>1, <2>3, <3>2
  <2>4. CASE x < -H
    <3>1. x - (-H) \in (-M)..(-1)
      BY <1>1, <2>4
    <3>2. Wrap(x) = (-H) + ((x - (-H)) + M)
      BY <1>3, <1>6, <3>1
    <3> QED
      BY <1>1, <2>4, <3>2
  <2> QED
    BY <1>1, <2>2, <2>3, <2>4
<1>8. v + a \in (-(2 * H))..(2 * H) /\ v \in Int /\ a \in Int
  BY <1>1, <1>2
<1>9. /\ v + a \in (-H)..(H - 1) => r = v + a
      /\ v + a >= H => r = v + a - M
      /\ v + a < -H => r = v + a + M
  <2> DEFINE x == v + a
  <2>1. x \in (-(2 * H))..(2 * H)
    BY <1>8
  <2> HIDE DEF x
  <2>2. /\ x \in (-H)..(H - 1) => Wrap(x) = x
        /\ x >= H => Wrap(x) = x - M
        /\ x < -H => Wrap(x) = x + M
    BY <1>7, <2>1
  <2> QED
    BY <1>1, <1>8, <2>2 DEF r, x
<1>10. r \in (-H)..(H - 1)
  BY <1>1, <1>2, <1>8, <1>9
<1>11. r - a \in (-(2 * H))..(2 * H)
  BY <1>1, <1>2, <1>10
<1>12. Wrap(r - a) = v
  <2>1. /\ r - a \in (-H)..(H - 1) => Wrap(r - a) = r - a
        /\ r - a >= H => Wrap(r - a) = r - a - M
        /\ r - a < -H => Wrap(r - a) = r - a + M
    BY <1>7, <1>11
  <2> QED
    BY <1>1, <1>2, <1>8, <1>9, <1>10, <1>11, <2>1
<1>13. r - a \in (-H)..(H - 1) => r - a = v
  BY <1>1, <1>2, <1>8, <1>9
<1> QED
  BY <1>2, <1>10, <1>12, <1>13 DEF r

LEMMA LongSize ==
  /\ {-1, 0, 1, MinLong, MaxLong} \subseteq Long /\ Long \subseteq Int
  /\ Removed \notin Long /\ Panic \notin Long /\ Removed \in Int /\ Panic # Removed
<1> DEFINE H == 2^(LongBits - 1)
<1>1. H \in Nat /\ H > 1
  BY StructuresAssumption
<1>2. MinLong = -H /\ MaxLong = H - 1 /\ Removed = (H - 1) + 1 /\ Panic = (H - 1) + 2
      /\ Long = (-H)..(H - 1)
  BY DEF MinLong, MaxLong, Removed, Panic, Long
<1> HIDE DEF H
<1> QED
  BY <1>1, <1>2

\* The methods of an atomic long and the requests they send.
LongMethods ==
  { <<"create", "Create">>, <<"open", "Exists">>, <<"get", "Get">>,
    <<"add_and_get", "AddAndGet">>, <<"get_and_add", "AddAndGet">>,
    <<"get_and_set", "GetAndSet">>, <<"compare_and_set", "CompareAndSet">>,
    <<"compare_and_set_and_get", "CompareAndSetAndGet">>, <<"removed", "Exists">>,
    <<"close", "Remove">> }

LEMMA LongCall ==
  ASSUME NEW call \in LongCalls
  PROVE  /\ <<call.method, call.code>> \in LongMethods
         /\ call.arg \in Long /\ call.expected \in Long
<1>1. ASSUME NEW m, NEW c, NEW a \in Long, NEW e \in Long, <<m, c>> \in LongMethods,
             call = Call(m, c, a, e)
      PROVE  <<call.method, call.code>> \in LongMethods /\ call.arg \in Long
             /\ call.expected \in Long
  BY <1>1 DEF Call
<1>2. CASE call \in {OpenLong, GetLong, LongRemoved, CloseLong}
  BY <1>1, <1>2, LongSize
     DEF OpenLong, GetLong, LongRemoved, CloseLong, LongMethods
<1>3. CASE call \in {IncrementAndGet, GetAndIncrement, DecrementAndGet, GetAndDecrement}
  BY <1>1, <1>3, LongSize
     DEF IncrementAndGet, GetAndIncrement, DecrementAndGet, GetAndDecrement, LongMethods
<1>4. ASSUME NEW v \in {MinLong, 1},
             call \in {CreateLong(v), AddAndGet(v), GetAndAdd(v), GetAndSet(v)}
      PROVE  <<call.method, call.code>> \in LongMethods /\ call.arg \in Long
             /\ call.expected \in Long
  BY <1>1, <1>4, LongSize DEF CreateLong, AddAndGet, GetAndAdd, GetAndSet, LongMethods
<1>5. CASE call \in {CompareAndSet(0, 1), CompareAndSetAndGet(0, 1),
                     CompareAndSetAndGet(0, MinLong)}
  BY <1>1, <1>5, LongSize DEF CompareAndSet, CompareAndSetAndGet, LongMethods
<1>6. ASSUME call \in UNION {{CreateLong(v), AddAndGet(v), GetAndAdd(v), GetAndSet(v)} :
                               v \in {MinLong, 1}}
      PROVE  \E v \in {MinLong, 1} :
               call \in {CreateLong(v), AddAndGet(v), GetAndAdd(v), GetAndSet(v)}
  BY <1>6, Zenon
<1>7. \/ call \in {OpenLong, GetLong, LongRemoved, CloseLong}
      \/ call \in {IncrementAndGet, GetAndIncrement, DecrementAndGet, GetAndDecrement}
      \/ \E v \in {MinLong, 1} :
            call \in {CreateLong(v), AddAndGet(v), GetAndAdd(v), GetAndSet(v)}
      \/ call \in {CompareAndSet(0, 1), CompareAndSetAndGet(0, 1),
                   CompareAndSetAndGet(0, MinLong)}
  BY <1>6 DEF LongCalls
<1> QED
  BY <1>2, <1>3, <1>4, <1>5, <1>7

\* The methods of a set, and the requests they send unless a list is empty.
SetMethods ==
  { <<"open", "SetCreate">>, <<"open", "SetExists">>, <<"add", "SetAdd">>,
    <<"contains", "SetContains">>, <<"remove", "SetRemove">>, <<"retain", "SetRetain">>,
    <<"clear", "SetClear">>, <<"size", "SetSize">>, <<"is_empty", "SetSize">>,
    <<"removed", "SetExists">>, <<"close", "SetClose">> }

LEMMA SetCallOf ==
  ASSUME NEW call \in SetCalls
  PROVE  /\ call.code # "" => <<call.method, call.code>> \in SetMethods
         /\ call.of \in SUBSET Elements
<1> DEFINE Good(c) == /\ c.code # "" => <<c.method, c.code>> \in SetMethods
                      /\ c.of \in SUBSET Elements
<1>1. ASSUME NEW m, NEW c, NEW o \in SUBSET Elements, <<m, c>> \in SetMethods
      PROVE  Good(SetCall(m, c, o)) /\ Good(UnlessEmpty(SetCall(m, c, o)))
  BY <1>1 DEF SetCall, UnlessEmpty
<1> HIDE DEF Good
<1>2. ASSUME call \in {SetGetOrCreate(TRUE), SetGetOrCreate(FALSE)} PROVE Good(call)
  BY <1>1, <1>2 DEF SetGetOrCreate, SetMethods
<1>3. ASSUME call \in {ClearSet, SizeOf, IsEmpty, SetRemoved, CloseSet} PROVE Good(call)
  BY <1>1, <1>3 DEF ClearSet, SizeOf, IsEmpty, SetRemoved, CloseSet, SetMethods
<1>4. ASSUME NEW v \in Elements, call \in {Add(v), Contains(v), RemoveOne(v)}
      PROVE  Good(call)
  BY <1>1, <1>4 DEF Add, Contains, RemoveOne, SetMethods
<1>5. ASSUME NEW o \in SUBSET Elements,
             call \in {AddAll(o), ContainsAll(o), RemoveEach(o), RetainAll(o)}
      PROVE  Good(call)
  BY <1>1, <1>5 DEF AddAll, ContainsAll, RemoveEach, RetainAll, SetMethods
<1>6. ASSUME call \in UNION {{Add(v), Contains(v), RemoveOne(v)} : v \in Elements}
      PROVE  \E v \in Elements : call \in {Add(v), Contains(v), RemoveOne(v)}
  BY <1>6, Zenon
<1>7. ASSUME call \in UNION {{AddAll(o), ContainsAll(o), RemoveEach(o), RetainAll(o)} :
                               o \in SUBSET Elements}
      PROVE  \E o \in SUBSET Elements :
               call \in {AddAll(o), ContainsAll(o), RemoveEach(o), RetainAll(o)}
  BY <1>7, Zenon
<1>8. \/ call \in {SetGetOrCreate(TRUE), SetGetOrCreate(FALSE)}
      \/ call \in {ClearSet, SizeOf, IsEmpty, SetRemoved, CloseSet}
      \/ \E v \in Elements : call \in {Add(v), Contains(v), RemoveOne(v)}
      \/ \E o \in SUBSET Elements :
            call \in {AddAll(o), ContainsAll(o), RemoveEach(o), RetainAll(o)}
  BY <1>6, <1>7 DEF SetCalls
<1>9. Good(call)
  BY <1>2, <1>3, <1>4, <1>5, <1>8
<1> QED
  BY <1>9 DEF Good

\* Whether a call is as promised depends on these fields only.
LEMMA AsPromisedOf ==
  ASSUME NEW w, NEW u, DOMAIN w = StFields, DOMAIN u = StFields,
         \A f \in StFields \ {"at", "again", "response"} : u[f] = w[f], AsPromised(w)
  PROVE  AsPromised(u)
<1>1. /\ u.call = w.call /\ u.was = w.was /\ u.is = w.is /\ u.had = w.had /\ u.has = w.has
      /\ u.result = w.result
  BY DEF StFields
<1>2. Promised(u) = Promised(w)
  BY <1>1 DEF Promised
<1> QED
  BY <1>1, <1>2 DEF AsPromised

LEMMA LongAnswered ==
  ASSUME NEW call \in LongCalls, NEW v \in Long \cup {Removed},
         v = Removed => call.code \in {"Create", "Exists", "Remove"},
         NEW w, DOMAIN w = StFields, w.call = call, w.was = v,
         w.is = ServeLong(call, v).new, w.response = ServeLong(call, v).response
  PROVE  Answered(w) /\ ServeLong(call, v).new \in Long \cup {Removed}
<1>1. /\ <<call.method, call.code>> \in LongMethods
      /\ call.arg \in Long /\ call.expected \in Long
  BY LongCall
<1>2. v # Removed => v \in Long
  OBVIOUS
<1> SUFFICES ASSUME NEW r \in Returned(call, w.response), NEW u,
                    u = [w EXCEPT !.result = r]
             PROVE  AsPromised(u) /\ ServeLong(call, v).new \in Long \cup {Removed}
  <2>1. \E r : r \in Returned(call, w.response)
    BY DEF Returned, Minus
  <2> QED
    BY <2>1, ZenonT(30) DEF Answered
<1>3. /\ u.call = call /\ u.was = v /\ u.is = w.is /\ u.result = r
  BY DEF StFields
<1>4. CASE call.method \in {"create", "open", "close"}
  BY <1>1, <1>3, <1>4 DEF AsPromised, Promised, LongMethods, ServeLong
<1>5. CASE call.method = "get" \/ call.method = "get_and_set"
  BY <1>1, <1>2, <1>3, <1>5 DEF AsPromised, Promised, LongMethods, ServeLong, Returned
<1>6. CASE call.method = "compare_and_set" \/ call.method = "removed"
  BY <1>1, <1>2, <1>3, <1>6 DEF AsPromised, Promised, LongMethods, ServeLong, Returned, Bit
<1>7. CASE call.method = "compare_and_set_and_get"
  BY <1>1, <1>2, <1>3, <1>7 DEF AsPromised, Promised, LongMethods, ServeLong, Returned
<1>8. CASE call.method \in {"add_and_get", "get_and_add"}
  <2>1. call.code = "AddAndGet" /\ v \in Long
    BY <1>1, <1>2, <1>8 DEF LongMethods
  <2>2. w.response = Wrap(v + call.arg) /\ w.is = Wrap(v + call.arg)
        /\ ServeLong(call, v).new = Wrap(v + call.arg)
    BY <2>1 DEF ServeLong
  <2>3. /\ Wrap(v + call.arg) \in Long
        /\ Wrap(Wrap(v + call.arg) - call.arg) = v
        /\ Wrap(v + call.arg) - call.arg \in Long => Wrap(v + call.arg) - call.arg = v
    BY <1>1, <2>1, WrapsBack
  <2>4. CASE call.method = "add_and_get"
    BY <1>3, <2>2, <2>3, <2>4 DEF AsPromised, Promised, Returned
  <2>5. CASE call.method = "get_and_add"
    <3>1. r \in Minus(Wrap(v + call.arg), call.arg)
      BY <2>2, <2>5 DEF Returned
    <3>2. Promised(u) = v
      BY <1>3, <2>5 DEF Promised
    <3> QED
      BY <1>3, <2>2, <2>3, <2>5, <3>1, <3>2 DEF AsPromised, Minus
  <2> QED
    BY <1>8, <2>4, <2>5
<1> QED
  BY <1>1, <1>4, <1>5, <1>6, <1>7, <1>8 DEF LongMethods

LEMMA OneLess == \A x : x = 1 => 1 - x = 0
OBVIOUS

\* A set that is there.
LEMMA SetAnswered ==
  ASSUME NEW call \in SetCalls, NEW s \in SUBSET Elements, call.code \notin {"", "SetClose"},
         NEW w, DOMAIN w = StFields, w.call = call, w.was = 0, w.had = s,
         w.has = ServeSet(call, s).new, w.response = ServeSet(call, s).response
  PROVE  Answered(w) /\ ServeSet(call, s).new \in SUBSET Elements
<1>1. <<call.method, call.code>> \in SetMethods /\ call.of \in SUBSET Elements
  BY SetCallOf
<1>2. IsFiniteSet(s) /\ (Cardinality(s) = 0 <=> s = {}) /\ Cardinality(s) \in Nat
  BY StructuresAssumption, FS_Subset, FS_EmptySet, FS_CardinalityType
<1> SUFFICES ASSUME NEW r \in Returned(call, w.response), NEW u,
                    u = [w EXCEPT !.result = r]
             PROVE  AsPromised(u) /\ ServeSet(call, s).new \in SUBSET Elements
  <2>1. \E r : r \in Returned(call, w.response)
    BY DEF Returned, Minus
  <2> QED
    BY <2>1 DEF Answered
<1>3. /\ u.call = call /\ u.was = 0 /\ u.had = s /\ u.has = w.has /\ u.result = r
  BY DEF StFields
<1>4. CASE call.method \in {"open", "clear"}
  BY <1>1, <1>3, <1>4 DEF AsPromised, Promised, SetMethods, ServeSet
<1>5. CASE call.method \in {"add", "remove", "retain"}
  <2>1. /\ s \cup call.of # s <=> ~(call.of \subseteq s)
        /\ s \ call.of # s <=> call.of \cap s # {}
        /\ s \cap call.of # s <=> ~(s \subseteq call.of)
    BY <1>1
  <2>2. w.response = Bit(w.has # s) /\ w.has \in SUBSET Elements
    BY <1>1, <1>5, <2>1 DEF SetMethods, ServeSet
  <2>3. Promised(u) = Bit(w.has # s)
    BY <1>3, <1>5 DEF Promised
  <2>4. r = w.response
    BY <1>5 DEF Returned
  <2> QED
    BY <1>3, <2>2, <2>3, <2>4 DEF AsPromised
<1>6. CASE call.method = "contains"
  BY <1>1, <1>3, <1>6 DEF AsPromised, Promised, SetMethods, ServeSet, Returned
<1>7. CASE call.method = "size" \/ call.method = "is_empty"
  BY <1>1, <1>2, <1>3, <1>7 DEF AsPromised, Promised, SetMethods, ServeSet, Returned, Bit
<1>8. CASE call.method = "removed"
  <2>1. Removed # 0
    BY LongSize
  <2>2. w.response = 1 /\ w.has = s
    BY <1>1, <1>8 DEF SetMethods, ServeSet
  <2>3. r = 0
    <3>1. r = 1 - w.response
      BY <1>8 DEF Returned
    <3> QED
      BY <2>2, <3>1, OneLess
  <2>4. Promised(u) = 0
    BY <1>3, <1>8, <2>1 DEF Promised, Bit
  <2> QED
    BY <1>3, <2>2, <2>3, <2>4 DEF AsPromised
<1> QED
  BY <1>1, <1>4, <1>5, <1>6, <1>7, <1>8 DEF SetMethods

LEMMA NoCallOk ==
  ASSUME NEW call \in LongCalls \cup SetCalls, NEW stage \in {"idle", "sent", "error", "done"},
         stage = "done" => call.code = "", stage = "sent" => call.code # ""
  PROVE  WorkOk([NoCall EXCEPT !.call = call, !.at = stage])
<1>1. DOMAIN NoCall = StFields
  BY DEF NoCall, StFields
<1> HIDE DEF NoCall
<1> QED
  BY <1>1 DEF WorkOk, StFields

LEMMA OpenLongIs == OpenLong \in LongCalls /\ NoCall.call = OpenLong /\ DOMAIN NoCall = StFields
BY DEF LongCalls, NoCall, StFields

LEMMA OneWorks ==
  ASSUME StInv, NEW t \in Workers, NEW w, work' = [work EXCEPT ![t] = w], WorkOk(w),
         long' \in Long \cup {Removed}, set' \in SUBSET Elements
  PROVE  StInv'
BY DEF StInv

LEMMA StInitial == StInit => StInv
<1> SUFFICES ASSUME StInit PROVE StInv
  OBVIOUS
<1>1. long \in Long \cup {Removed} /\ set \in SUBSET Elements
  BY LongSize DEF StInit
<1>2. WorkOk(NoCall)
  <2>1. NoCall.at = "idle"
    BY DEF NoCall
  <2> QED
    BY <2>1, OpenLongIs DEF WorkOk
<1> QED
  BY <1>1, <1>2 DEF StInit, StInv

LEMMA ServeLongKeeps == ASSUME StInv, NEW t \in Workers, StServeLong(t) PROVE StInv'
<1> DEFINE w == work[t]
           call == w.call
           served == ServeLong(call, long)
<1>1. WorkOk(w) /\ call \in LongCalls /\ long \in Long \cup {Removed} /\ DOMAIN work = Workers
      /\ UNCHANGED set /\ set \in SUBSET Elements /\ call.code # ""
  BY DEF StInv, StServeLong, WorkOk
<1>2. CASE long = Removed /\ call.code \notin {"Create", "Exists", "Remove"}
  <2>1. work' = [work EXCEPT ![t] = [NoCall EXCEPT !.at = "error"]] /\ UNCHANGED long
    BY <1>2 DEF StServeLong
  <2>2. WorkOk([NoCall EXCEPT !.at = "error"])
    BY OpenLongIs DEF WorkOk, StFields
  <2> QED
    BY <1>1, <2>1, <2>2, OneWorks
<1>3. CASE ~(long = Removed /\ call.code \notin {"Create", "Exists", "Remove"})
  <2> DEFINE u == [w EXCEPT !.at = "served", !.was = long, !.is = served.new,
                            !.response = served.response]
  <2>1. long' = served.new /\ work' = [work EXCEPT ![t] = u]
    BY <1>1, <1>3 DEF StServeLong
  <2> HIDE DEF served
  <2>2. /\ DOMAIN u = StFields /\ u.call = call /\ u.was = long /\ u.is = served.new
        /\ u.response = served.response /\ u.at = "served"
    BY <1>1 DEF WorkOk, StFields
  <2> HIDE DEF u
  <2>3. Answered(u) /\ served.new \in Long \cup {Removed}
    BY <1>1, <1>3, <2>2, LongAnswered DEF served
  <2>4. WorkOk(u)
    BY <1>1, <2>2, <2>3 DEF WorkOk
  <2> QED
    BY <1>1, <2>1, <2>3, <2>4, OneWorks
<1> QED
  BY <1>2, <1>3

LEMMA ServeSetKeeps == ASSUME StInv, NEW t \in Workers, StServeSet(t) PROVE StInv'
<1> DEFINE w == work[t]
           call == w.call
           served == ServeSet(call, set)
<1>1. WorkOk(w) /\ call \in SetCalls /\ set \in SUBSET Elements /\ DOMAIN work = Workers
      /\ UNCHANGED long /\ long \in Long \cup {Removed} /\ call.code # ""
  BY DEF StInv, StServeSet, WorkOk
<1>2. call.code # "" => <<call.method, call.code>> \in SetMethods
  BY <1>1, SetCallOf
<1>3. CASE call.code = "SetClose"
  <2> DEFINE u == [w EXCEPT !.at = "served"]
  <2>1. set' = {} /\ work' = [work EXCEPT ![t] = u]
    BY <1>1, <1>3 DEF StServeSet
  <2>2. DOMAIN u = StFields /\ u.call = call /\ u.at = "served" /\ call.method = "close"
    BY <1>1, <1>2, <1>3 DEF WorkOk, StFields, SetMethods
  <2> HIDE DEF u
  <2>3. Answered(u)
    BY <2>2 DEF Answered, AsPromised, Promised, StFields
  <2>4. WorkOk(u)
    BY <1>1, <2>2, <2>3 DEF WorkOk
  <2> QED
    BY <1>1, <2>1, <2>4, OneWorks
<1>4. CASE ~there /\ call.code \in {"SetExists", "SetCreate"}
  <2> DEFINE u == [w EXCEPT !.at = "served", !.response = Bit(call.code = "SetCreate"),
                            !.was = Removed]
  <2>1. UNCHANGED set /\ work' = [work EXCEPT ![t] = u]
    BY <1>1, <1>4 DEF StServeSet
  <2>2. /\ DOMAIN u = StFields /\ u.call = call /\ u.at = "served" /\ u.was = Removed
        /\ u.response = Bit(call.code = "SetCreate")
    BY <1>1 DEF WorkOk, StFields
  <2> HIDE DEF u
  <2>3. Answered(u)
    <3>1. CASE call.method = "open"
      BY <2>2, <3>1 DEF Answered, AsPromised, Promised, StFields
    <3>2. CASE call.method = "removed"
      <4>1. u.response = 0
        BY <1>2, <1>4, <2>2, <3>2 DEF SetMethods, Bit
      <4>2. Returned(call, u.response) = {1}
        <5>1. Returned(call, u.response) = {1 - u.response}
          BY <3>2 DEF Returned
        <5> QED
          BY <4>1, <5>1
      <4> SUFFICES ASSUME NEW v, v = [u EXCEPT !.result = 1] PROVE AsPromised(v)
        BY <2>2, <4>2 DEF Answered
      <4>3. v.call = call /\ v.was = Removed /\ v.result = 1
        BY <2>2 DEF StFields
      <4> QED
        BY <3>2, <4>3 DEF AsPromised, Promised, Bit
    <3> QED
      BY <1>2, <1>4, <3>1, <3>2 DEF SetMethods
  <2>4. WorkOk(u)
    BY <1>1, <2>2, <2>3 DEF WorkOk
  <2> QED
    BY <1>1, <2>1, <2>4, OneWorks
<1>5. CASE ~there /\ call.code \notin {"SetExists", "SetCreate", "SetClose"}
  <2>1. work' = [work EXCEPT ![t] = [NoCall EXCEPT !.at = "error"]] /\ UNCHANGED set
    BY <1>5 DEF StServeSet
  <2>2. WorkOk([NoCall EXCEPT !.at = "error"])
    BY OpenLongIs DEF WorkOk, StFields
  <2> QED
    BY <1>1, <2>1, <2>2, OneWorks
<1>6. CASE there /\ call.code # "SetClose"
  <2> DEFINE u == [w EXCEPT !.at = "served", !.had = set, !.has = served.new, !.was = 0,
                            !.is = 0, !.response = served.response]
  <2>1. set' = served.new /\ work' = [work EXCEPT ![t] = u]
    BY <1>1, <1>6 DEF StServeSet
  <2> HIDE DEF served
  <2>2. /\ DOMAIN u = StFields /\ u.call = call /\ u.was = 0 /\ u.had = set
        /\ u.has = served.new /\ u.response = served.response /\ u.at = "served"
    BY <1>1 DEF WorkOk, StFields
  <2> HIDE DEF u
  <2>3. Answered(u) /\ served.new \in SUBSET Elements
    BY <1>1, <1>6, <2>2, SetAnswered DEF served
  <2>4. WorkOk(u)
    BY <1>1, <2>2, <2>3 DEF WorkOk
  <2> QED
    BY <1>1, <2>1, <2>3, <2>4, OneWorks
<1> QED
  BY <1>3, <1>4, <1>5, <1>6 DEF StServeSet

LEMMA CallerKeeps ==
  ASSUME StInv, NEW t \in Workers,
         \/ \E call \in LongCalls \cup SetCalls : StBegin(t, call)
         \/ StReturn(t) \/ StResend(t)
  PROVE  StInv'
<1> DEFINE w == work[t]
<1>1. WorkOk(w) /\ DOMAIN work = Workers /\ long \in Long \cup {Removed}
      /\ set \in SUBSET Elements
  BY DEF StInv
<1>2. ASSUME NEW call \in LongCalls \cup SetCalls, StBegin(t, call) PROVE StInv'
  <2> DEFINE stage == IF call.code = "" THEN "done" ELSE "sent"
  <2>1. work' = [work EXCEPT ![t] = [NoCall EXCEPT !.call = call, !.at = stage]]
        /\ UNCHANGED <<long, set>>
    BY <1>2 DEF StBegin
  <2>2. WorkOk([NoCall EXCEPT !.call = call, !.at = stage])
    BY NoCallOk
  <2> HIDE DEF stage
  <2> QED
    BY <1>1, <2>1, <2>2, OneWorks, ZenonT(30)
<1>3. CASE StReturn(t)
  <2>1. w.at = "served" /\ UNCHANGED <<long, set>>
    BY <1>3 DEF StReturn
  <2>2. PICK r \in Returned(w.call, w.response) :
               work' = [work EXCEPT ![t].at = "done", ![t].result = r]
    BY <1>3 DEF StReturn
  <2> DEFINE v == [w EXCEPT !.result = r]
             u == [w EXCEPT !.at = "done", !.result = r]
  <2>3. work' = [work EXCEPT ![t] = u]
    BY <1>1, <2>2, ZenonT(30)
  <2>4. /\ DOMAIN u = StFields /\ DOMAIN v = StFields /\ u.at = "done" /\ u.call = w.call
        /\ \A f \in StFields \ {"at", "again", "response"} : u[f] = v[f]
    BY <1>1 DEF WorkOk, StFields
  <2>5. AsPromised(v)
    BY <1>1, <2>1 DEF WorkOk, Answered
  <2> HIDE DEF u, v
  <2>6. AsPromised(u)
    BY <2>4, <2>5, AsPromisedOf
  <2>7. WorkOk(u)
    BY <1>1, <2>4, <2>6 DEF WorkOk
  <2> QED
    BY <1>1, <2>1, <2>3, <2>7, OneWorks
<1>4. CASE StResend(t)
  <2> DEFINE u == [w EXCEPT !.at = "sent", !.again = TRUE]
  <2>1. work' = [work EXCEPT ![t] = u] /\ UNCHANGED <<long, set>>
        /\ w.at \in {"sent", "served"}
    BY <1>1, <1>4 DEF StResend
  <2>2. DOMAIN u = StFields /\ u.call = w.call /\ u.at = "sent"
    BY <1>1 DEF WorkOk, StFields
  <2> HIDE DEF u
  <2>3. WorkOk(u)
    BY <1>1, <2>1, <2>2 DEF WorkOk
  <2> QED
    BY <1>1, <2>1, <2>3, OneWorks
<1> QED
  BY <1>2, <1>3, <1>4

LEMMA StStep == StInv /\ [StNext]_stVars => StInv'
<1> SUFFICES ASSUME StInv, [StNext]_stVars PROVE StInv'
  OBVIOUS
<1>1. CASE UNCHANGED stVars
  BY <1>1 DEF stVars, StInv
<1> QED
  BY <1>1, CallerKeeps, ServeLongKeeps, ServeSetKeeps DEF StNext

\* The methods of atomic longs and sets return what their names say of the execution
\* their answer is about, for integers of any width, any values and any number of tasks,
\* also when a request went out twice; only the subtraction of get_and_add may overflow.
THEOREM MethodsAsPromised == StSpec => []ResultsAsPromised
<1>1. StInv => ResultsAsPromised
  BY DEF StInv, WorkOk, AsPromised, ResultsAsPromised
<1> QED
  BY <1>1, StInitial, StStep, PTL DEF StSpec

----------------------------------------------------------------------------
(* Transactions, for any number of tasks: the types, that the closers whose   *)
(* futures are not dropped send one TX_END, and that an acknowledged commit    *)
(* covers the acknowledged operations.                                        *)

Closer  == Ender \cup {"drop"}
Sending == {"send", "sent", "ok", "fail"}

\* The mutex makes one closer at a time send, and none after it: a closer that has
\* its result has left the state closed.
Exclusive ==
    /\ \A t \in Closer : pc[t] \in {"send", "sent"} => holder = t
    /\ \A t \in Closer : pc[t] \in {"ok", "fail"} => state # "Active"
    /\ pc["drop"] \in {"send", "sent"} => state # "Active"
    /\ \A t, u \in Closer : pc[t] \in Sending /\ pc[u] \in Sending => t = u

\* The rollback of a drop has not begun before the drop.
DropOnce == ~dropped => pc["drop"] = "idle"

\* A TX_END on its way or at the server belongs to a closer that sent it.
EndsSent ==
    /\ ends \subseteq Closer
    /\ \A t \in Closer :
         t \in wire \cup ends => pc[t] \in {"sent", "ok", "fail", "cancelled"}

\* A request on its way has no answer yet, though its sender may have given up.
Pending == \A t \in wire : reply[t] = None /\ pc[t] \in {"sent", "lost", "fail", "cancelled"}

\* What the replies say of the server's transaction.
Answers ==
    /\ \A o \in CacheOp : reply[o] = "ok" => o \in done
    /\ \A e \in Committer : reply[e] = "ok" => server = "committed"
    /\ \A e \in Rollbacker : reply[e] = "ok" => server = "rolledback"
    /\ server = "committed" => committed = done
    /\ server # "committed" => committed = {}
    /\ \A t \in Task : pc[t] = "ok" => reply[t] = "ok"

----------------------------------------------------------------------------
\* Every step keeps the types.
LEMMA NextTx == ASSUME TypeOK, [Next]_vars PROVE TypeOK'
<1> USE TxAssumption DEF Task, Ender, Ended, InCall, Goto
<1>1. CASE OpenCache BY <1>1 DEF OpenCache, TypeOK, serverVars
<1>2. CASE DropCaches BY <1>2 DEF DropCaches, TypeOK, serverVars
<1>3. CASE DropTransaction BY <1>3 DEF DropTransaction, TypeOK, serverVars
<1>4. ASSUME NEW o \in CacheOp, OpBegin(o) PROVE TypeOK'
  BY <1>4 DEF OpBegin, TypeOK, serverVars
<1>5. ASSUME NEW o \in CacheOp, TxStep(o) PROVE TypeOK'
  <2>1. CASE TxRoute(o) BY <2>1 DEF TxRoute, TypeOK, serverVars
  <2>2. CASE TxSend(o) BY <2>2 DEF TxSend, Post, TypeOK
  <2>3. CASE OpResult(o) BY <2>3 DEF OpResult, TypeOK, serverVars
  <2>4. CASE MarkLost(o) BY <2>4 DEF MarkLost, TypeOK, serverVars
  <2> QED BY <1>5, <2>1, <2>2, <2>3, <2>4 DEF TxStep
<1>6. ASSUME NEW e \in Ender, EndBegin(e) PROVE TypeOK'
  BY <1>6 DEF EndBegin, TypeOK, serverVars
<1>7. ASSUME NEW e \in Ender, EndStep(e) PROVE TypeOK'
  <2>1. CASE EndLock(e) BY <2>1 DEF EndLock, TypeOK, serverVars
  <2>2. CASE EndSend(e) BY <2>2 DEF EndSend, Post, TypeOK
  <2>3. CASE EndResult(e) BY <2>3 DEF EndResult, TypeOK, serverVars
  <2> QED BY <1>7, <2>1, <2>2, <2>3 DEF EndStep
<1>8. CASE DropStep
  <2>1. CASE DropLock BY <2>1 DEF DropLock, TypeOK, serverVars
  <2>2. CASE DropSend BY <2>2 DEF DropSend, Post, TypeOK
  <2>3. CASE DropResult BY <2>3 DEF DropResult, TypeOK, serverVars
  <2> QED BY <1>8, <2>1, <2>2, <2>3 DEF DropStep
<1>9. ASSUME NEW t \in Task, ServerExecutes(t) PROVE TypeOK'
  BY <1>9 DEF ServerExecutes, Closes, TypeOK, clientVars
<1>10. ASSUME NEW t \in Task, Cancel(t) PROVE TypeOK'
  BY <1>10 DEF Cancel, TypeOK, serverVars
<1>11. CASE LinkBreaks BY <1>11 DEF LinkBreaks, TypeOK, clientVars
<1>12. CASE LinkReplaced BY <1>12 DEF LinkReplaced, TypeOK, clientVars
<1>13. CASE UNCHANGED vars BY <1>13 DEF vars, clientVars, serverVars, TypeOK
<1> QED BY <1>1, <1>2, <1>3, <1>4, <1>5, <1>6, <1>7, <1>8, <1>9, <1>10, <1>11,
           <1>12, <1>13 DEF Next

\* The client's variables keep their types through commits, drops and lost
\* connections alike.
THEOREM TxTypeCorrect == Spec => []TypeOK
<1>1. Init => TypeOK BY TxAssumption DEF Init, TypeOK, Task
<1>2. TypeOK /\ [Next]_vars => TypeOK' BY NextTx
<1> QED BY <1>1, <1>2, PTL DEF Spec

----------------------------------------------------------------------------
\* A step that leaves the closers and the mutex alone keeps Exclusive.
LEMMA ExclusiveFrame ==
  ASSUME Exclusive, holder' = holder, state' = state,
         \A t \in Closer : pc'[t] = pc[t]
  PROVE  Exclusive'
  BY DEF Exclusive, Closer

\* One TX_END at a time: commits, rollbacks and the drop exclude each other.
LEMMA NextExclusive == ASSUME TypeOK, Exclusive, [Next]_vars PROVE Exclusive'
<1> USE TxAssumption
<1>d. "drop" \in Closer /\ Closer \subseteq Task /\ CacheOp \cap Closer = {} /\ CacheOp \subseteq Task
  BY DEF Closer, Task, Ender
<1>p. pc \in [Task -> {"idle"} \cup InCall \cup Ended] BY DEF TypeOK
<1>h. None \notin Closer BY DEF Closer, Task
<1>1. CASE OpenCache BY <1>1, ExclusiveFrame DEF OpenCache
<1>2. CASE DropCaches BY <1>2, ExclusiveFrame DEF DropCaches
<1>3. CASE DropTransaction BY <1>3, <1>d, <1>p DEF DropTransaction, Goto, Exclusive, Sending
<1>4. ASSUME NEW o \in CacheOp, OpBegin(o) PROVE Exclusive'
  BY <1>4, <1>d, <1>p, ExclusiveFrame DEF OpBegin, Goto
<1>5. ASSUME NEW o \in CacheOp, TxStep(o) PROVE Exclusive'
  <2>1. CASE TxRoute(o) BY <2>1, <1>d, <1>p, ExclusiveFrame DEF TxRoute, Goto
  <2>2. CASE TxSend(o) BY <2>2, <1>d, <1>p, ExclusiveFrame DEF TxSend, Goto
  <2>3. CASE OpResult(o) BY <2>3, <1>d, <1>p, ExclusiveFrame DEF OpResult, Goto
  <2>4. CASE MarkLost(o)
    <3>1. \A t \in Closer : pc'[t] = pc[t] BY <2>4, <1>d, <1>p DEF MarkLost, Goto
    <3> QED BY <3>1, <2>4 DEF MarkLost, Exclusive, Closer
  <2> QED BY <1>5, <2>1, <2>2, <2>3, <2>4 DEF TxStep
<1>6. ASSUME NEW e \in Ender, EndBegin(e) PROVE Exclusive'
  BY <1>6, <1>d, <1>p DEF EndBegin, Goto, Exclusive, Sending, Closer
<1>7. ASSUME NEW e \in Ender, EndStep(e) PROVE Exclusive'
  <2>e. e \in Closer /\ e # "drop" BY DEF Closer
  <2>1. CASE EndLock(e)
    BY <2>1, <2>e, <1>d, <1>p, <1>h DEF EndLock, Goto, Exclusive, Sending
  <2>2. CASE EndSend(e)
    BY <2>2, <2>e, <1>d, <1>p DEF EndSend, Goto, Exclusive, Sending
  <2>3. CASE EndResult(e)
    <3>1. state' # "Active" BY <2>3 DEF EndResult
    <3>2. pc' = [pc EXCEPT ![e] = pc'[e]] /\ pc'[e] \in {"ok", "fail"}
      BY <2>3, <2>e, <1>d, <1>p DEF EndResult, Goto, TypeOK
    <3>3. pc[e] = "sent" BY <2>3 DEF EndResult
    <3>4. \A t \in Closer \ {e} : pc'[t] = pc[t] /\ pc[t] \notin Sending
      BY <3>2, <3>3, <2>e, <1>d, <1>p DEF Exclusive, Sending
    <3> QED BY <3>1, <3>2, <3>4, <2>e, <1>d DEF Exclusive, Sending
  <2> QED BY <1>7, <2>1, <2>2, <2>3 DEF EndStep
<1>8. CASE DropStep
  <2>1. CASE DropLock
    BY <2>1, <1>d, <1>p, <1>h DEF DropLock, Goto, Exclusive, Sending
  <2>2. CASE DropSend
    BY <2>2, <1>d, <1>p DEF DropSend, Goto, Exclusive, Sending
  <2>3. CASE DropResult
    <3>1. pc' = [pc EXCEPT !["drop"] = pc'["drop"]] /\ pc'["drop"] \in {"ok", "fail"}
      BY <2>3, <1>d, <1>p DEF DropResult, Goto, TypeOK
    <3>2. pc["drop"] = "sent" /\ state' = state BY <2>3 DEF DropResult
    <3>3. \A t \in Closer \ {"drop"} : pc'[t] = pc[t] /\ pc[t] \notin Sending
      BY <3>1, <3>2, <1>d, <1>p DEF Exclusive, Sending
    <3> QED BY <3>1, <3>2, <3>3, <1>d DEF Exclusive, Sending
  <2> QED BY <1>8, <2>1, <2>2, <2>3 DEF DropStep
<1>9. ASSUME NEW t \in Task, ServerExecutes(t) PROVE Exclusive'
  BY <1>9, ExclusiveFrame DEF ServerExecutes, clientVars
<1>10. ASSUME NEW t \in Task, Cancel(t) PROVE Exclusive'
  <2>1. pc' = [pc EXCEPT ![t] = "cancelled"] /\ state' = state BY <1>10 DEF Cancel, Goto
  <2>2. \A u \in Closer : holder = u /\ u # t => holder' = u BY <1>10 DEF Cancel
  <2> QED BY <2>1, <2>2, <1>d, <1>p DEF Exclusive, Sending
<1>11. CASE LinkBreaks BY <1>11, ExclusiveFrame DEF LinkBreaks, clientVars
<1>12. CASE LinkReplaced BY <1>12, ExclusiveFrame DEF LinkReplaced, clientVars
<1>13. CASE UNCHANGED vars BY <1>13, ExclusiveFrame DEF vars, clientVars
<1> QED BY <1>1, <1>2, <1>3, <1>4, <1>5, <1>6, <1>7, <1>8, <1>9, <1>10, <1>11,
           <1>12, <1>13 DEF Next

----------------------------------------------------------------------------
\* The transaction is dropped once.
LEMMA NextDrop == ASSUME TypeOK, DropOnce, [Next]_vars PROVE DropOnce'
<1> USE TxAssumption DEF DropOnce
<1>d. "drop" \in Task /\ "drop" \notin CacheOp /\ "drop" \notin Ender BY DEF Task
<1>p. pc \in [Task -> {"idle"} \cup InCall \cup Ended] BY DEF TypeOK
<1>1. CASE OpenCache BY <1>1 DEF OpenCache
<1>2. CASE DropCaches BY <1>2 DEF DropCaches
<1>3. CASE DropTransaction BY <1>3 DEF DropTransaction
<1>4. ASSUME NEW o \in CacheOp, OpBegin(o) \/ TxStep(o) PROVE DropOnce'
  BY <1>4, <1>d, <1>p DEF OpBegin, TxStep, TxRoute, TxSend, OpResult, MarkLost, Goto
<1>5. ASSUME NEW e \in Ender, EndBegin(e) \/ EndStep(e) PROVE DropOnce'
  BY <1>5, <1>d, <1>p DEF EndBegin, EndStep, EndLock, EndSend, EndResult, Goto
<1>6. CASE DropStep BY <1>6 DEF DropStep, DropLock, DropSend, DropResult
<1>7. ASSUME NEW t \in Task, ServerExecutes(t) PROVE DropOnce'
  BY <1>7 DEF ServerExecutes, clientVars
<1>8. ASSUME NEW t \in Task, Cancel(t) PROVE DropOnce' BY <1>8, <1>d, <1>p DEF Cancel, Goto
<1>9. CASE LinkBreaks BY <1>9 DEF LinkBreaks, clientVars
<1>10. CASE LinkReplaced BY <1>10 DEF LinkReplaced, clientVars
<1>11. CASE UNCHANGED vars BY <1>11 DEF vars, clientVars
<1> QED BY <1>1, <1>2, <1>3, <1>4, <1>5, <1>6, <1>7, <1>8, <1>9, <1>10, <1>11 DEF Next

\* A step that sends nothing, and moves no closer that has sent, keeps EndsSent.
LEMMA EndsFrame ==
  ASSUME EndsSent, ends' = ends, wire' \cap Closer \subseteq wire,
         \A t \in Closer : pc[t] \in {"sent", "ok", "fail", "cancelled"}
                              => pc'[t] \in {"sent", "ok", "fail", "cancelled"}
  PROVE  EndsSent'
  BY DEF EndsSent

\* Only a closer that holds the mutex sends a TX_END.
LEMMA NextEnds == ASSUME TypeOK, DropOnce, EndsSent, [Next]_vars PROVE EndsSent'
<1> USE TxAssumption
<1>d. "drop" \in Closer /\ Closer \subseteq Task /\ CacheOp \cap Closer = {} /\ CacheOp \subseteq Task
  BY DEF Closer, Task, Ender
<1>p. pc \in [Task -> {"idle"} \cup InCall \cup Ended] BY DEF TypeOK
<1>1. CASE OpenCache BY <1>1, EndsFrame DEF OpenCache, serverVars
<1>2. CASE DropCaches BY <1>2, EndsFrame DEF DropCaches, serverVars
<1>3. CASE DropTransaction
  BY <1>3, <1>d, <1>p, EndsFrame DEF DropTransaction, Goto, DropOnce, serverVars
<1>4. ASSUME NEW o \in CacheOp, OpBegin(o) PROVE EndsSent'
  BY <1>4, <1>d, <1>p, EndsFrame DEF OpBegin, Goto, serverVars
<1>5. ASSUME NEW o \in CacheOp, TxStep(o) PROVE EndsSent'
  <2>1. CASE TxRoute(o) BY <2>1, <1>d, <1>p, EndsFrame DEF TxRoute, Goto, serverVars
  <2>2. CASE TxSend(o) BY <2>2, <1>d, <1>p, EndsFrame DEF TxSend, Post, Goto
  <2>3. CASE OpResult(o) BY <2>3, <1>d, <1>p, EndsFrame DEF OpResult, Goto, serverVars
  <2>4. CASE MarkLost(o) BY <2>4, <1>d, <1>p, EndsFrame DEF MarkLost, Goto, serverVars
  <2> QED BY <1>5, <2>1, <2>2, <2>3, <2>4 DEF TxStep
<1>6. ASSUME NEW e \in Ender, EndBegin(e) PROVE EndsSent'
  BY <1>6, <1>d, <1>p, EndsFrame DEF EndBegin, Goto, serverVars, Closer
<1>7. ASSUME NEW e \in Ender, EndStep(e) PROVE EndsSent'
  <2>e. e \in Closer BY DEF Closer
  <2>1. CASE EndLock(e) BY <2>1, <2>e, <1>d, <1>p, EndsFrame DEF EndLock, Goto, serverVars
  <2>2. CASE EndSend(e) BY <2>2, <2>e, <1>d, <1>p DEF EndSend, Post, Goto, EndsSent
  <2>3. CASE EndResult(e)
    <3>1. pc' = [pc EXCEPT ![e] = pc'[e]] /\ pc'[e] \in {"ok", "fail"}
      BY <2>3, <2>e, <1>d, <1>p DEF EndResult, Goto, TypeOK
    <3> QED BY <2>3, <3>1, <2>e, <1>d, <1>p, EndsFrame DEF EndResult, serverVars
  <2> QED BY <1>7, <2>1, <2>2, <2>3 DEF EndStep
<1>8. CASE DropStep
  <2>1. CASE DropLock BY <2>1, <1>d, <1>p, EndsFrame DEF DropLock, Goto, serverVars
  <2>2. CASE DropSend BY <2>2, <1>d, <1>p DEF DropSend, Post, Goto, EndsSent
  <2>3. CASE DropResult
    <3>1. pc' = [pc EXCEPT !["drop"] = pc'["drop"]] /\ pc'["drop"] \in {"ok", "fail"}
      BY <2>3, <1>d, <1>p DEF DropResult, Goto, TypeOK
    <3> QED BY <2>3, <3>1, <1>d, <1>p, EndsFrame DEF DropResult, serverVars
  <2> QED BY <1>8, <2>1, <2>2, <2>3 DEF DropStep
<1>9. ASSUME NEW t \in Task, ServerExecutes(t) PROVE EndsSent'
  <2>1. pc' = pc BY <1>9 DEF ServerExecutes, clientVars
  <2>2. wire' \subseteq wire /\ ends' \subseteq ends \cup {t} /\ t \in wire
    BY <1>9 DEF ServerExecutes
  <2>3. t \in CacheOp => ends' = ends BY <1>9 DEF ServerExecutes
  <2>4. t \notin CacheOp => t \in Closer BY DEF Closer, Task, Ender
  <2> QED BY <2>1, <2>2, <2>3, <2>4 DEF EndsSent
<1>10. ASSUME NEW t \in Task, Cancel(t) PROVE EndsSent'
  BY <1>10, <1>d, <1>p, EndsFrame DEF Cancel, Goto, serverVars
<1>11. CASE LinkBreaks BY <1>11, EndsFrame DEF LinkBreaks, clientVars
<1>12. CASE LinkReplaced BY <1>12, EndsFrame DEF LinkReplaced, clientVars
<1>13. CASE UNCHANGED vars BY <1>13, EndsFrame DEF vars, clientVars, serverVars
<1> QED BY <1>1, <1>2, <1>3, <1>4, <1>5, <1>6, <1>7, <1>8, <1>9, <1>10, <1>11,
           <1>12, <1>13 DEF Next

\* Two closers of which both sent a TX_END are one.
LEMMA AtMostOneEnd == ASSUME Exclusive, EndsSent PROVE OneEndRequest
<1> DEFINE E == {t \in ends : pc[t] # "cancelled"}
<1>1. CASE E = {} BY <1>1, FS_EmptySet DEF OneEndRequest
<1>2. CASE E # {}
  <2>1. PICK t \in E : TRUE BY <1>2
  <2>2. E = {t} BY <2>1 DEF EndsSent, Exclusive, Sending
  <2>3. Cardinality(E) = 1 BY <2>2, FS_Singleton
  <2> QED BY <2>3 DEF OneEndRequest
<1> QED BY <1>1, <1>2

\* One TX_END from the closers that run to their end (TransactionInner::end and
\* Drop), for any number of tasks that commit, roll back and drop, whatever
\* other futures are cancelled and wherever the connection breaks.
THEOREM OneEnd == Spec => []OneEndRequest
<1> DEFINE IInv == TypeOK /\ Exclusive /\ DropOnce /\ EndsSent
<1>1. Init => IInv
  BY TxAssumption, ZenonT(30) DEF Init, TypeOK, Task, Exclusive, DropOnce, EndsSent, Sending, Closer
<1>2. IInv /\ [Next]_vars => IInv' BY NextTx, NextExclusive, NextDrop, NextEnds
<1>3. IInv => OneEndRequest BY AtMostOneEnd
<1> QED BY <1>1, <1>2, <1>3, PTL DEF Spec

----------------------------------------------------------------------------
\* A step that sends and answers nothing keeps Pending when nobody who waits is
\* told anything.
LEMMA PendingFrame ==
  ASSUME Pending, wire' = wire, reply' = reply,
         \A t \in wire : pc'[t] \in {"sent", "lost", "fail", "cancelled"}
  PROVE  Pending'
  BY DEF Pending

\* Nor does a request that is sent now.
LEMMA PendingPost ==
  ASSUME TypeOK, Pending, NEW t \in Task, pc[t] = "send", Post(t),
         pc' = [pc EXCEPT ![t] = "sent"]
  PROVE  Pending'
<1>1. t \notin wire BY DEF Pending
<1>2. t \in wire' => link = "own" BY <1>1 DEF Post
<1> QED BY <1>1, <1>2 DEF Pending, Post, TypeOK

\* Nobody takes an answer to a request that is still on its way.
LEMMA NextPending == ASSUME TypeOK, DropOnce, Pending, [Next]_vars PROVE Pending'
<1> USE TxAssumption
<1>d. "drop" \in Task /\ Ender \subseteq Task /\ CacheOp \subseteq Task BY DEF Task
<1>p. pc \in [Task -> {"idle"} \cup InCall \cup Ended] /\ wire \subseteq Task BY DEF TypeOK
<1>1. CASE OpenCache BY <1>1, PendingFrame DEF OpenCache, serverVars, Pending
<1>2. CASE DropCaches BY <1>2, PendingFrame DEF DropCaches, serverVars, Pending
<1>3. CASE DropTransaction
  <2>1. "drop" \notin wire BY <1>3 DEF DropTransaction, DropOnce, Pending
  <2> QED BY <1>3, <2>1, <1>p, PendingFrame DEF DropTransaction, Goto, serverVars, Pending
<1>4. ASSUME NEW o \in CacheOp, OpBegin(o) PROVE Pending'
  BY <1>4, <1>d, <1>p, PendingFrame DEF OpBegin, Goto, serverVars, Pending
<1>5. ASSUME NEW o \in CacheOp, TxStep(o) PROVE Pending'
  <2>1. CASE TxRoute(o)
    BY <2>1, <1>d, <1>p, PendingFrame DEF TxRoute, Goto, serverVars, Pending
  <2>2. CASE TxSend(o) BY <2>2, <1>d, PendingPost, ZenonT(30) DEF TxSend, Goto
  <2>3. CASE OpResult(o)
    BY <2>3, <1>d, <1>p, PendingFrame DEF OpResult, Goto, serverVars, Pending
  <2>4. CASE MarkLost(o)
    BY <2>4, <1>d, <1>p, PendingFrame DEF MarkLost, Goto, serverVars, Pending
  <2> QED BY <1>5, <2>1, <2>2, <2>3, <2>4 DEF TxStep
<1>6. ASSUME NEW e \in Ender, EndBegin(e) PROVE Pending'
  BY <1>6, <1>d, <1>p, PendingFrame DEF EndBegin, Goto, serverVars, Pending
<1>7. ASSUME NEW e \in Ender, EndStep(e) PROVE Pending'
  <2>1. CASE EndLock(e)
    BY <2>1, <1>d, <1>p, PendingFrame DEF EndLock, Goto, serverVars, Pending
  <2>2. CASE EndSend(e) BY <2>2, <1>d, PendingPost DEF EndSend, Goto
  <2>3. CASE EndResult(e)
    BY <2>3, <1>d, <1>p, PendingFrame DEF EndResult, Goto, serverVars, Pending
  <2> QED BY <1>7, <2>1, <2>2, <2>3 DEF EndStep
<1>8. CASE DropStep
  <2>1. CASE DropLock
    BY <2>1, <1>d, <1>p, PendingFrame DEF DropLock, Goto, serverVars, Pending
  <2>2. CASE DropSend BY <2>2, <1>d, PendingPost DEF DropSend, Goto
  <2>3. CASE DropResult
    BY <2>3, <1>d, <1>p, PendingFrame DEF DropResult, Goto, serverVars, Pending
  <2> QED BY <1>8, <2>1, <2>2, <2>3 DEF DropStep
<1>9. ASSUME NEW t \in Task, ServerExecutes(t) PROVE Pending'
  <2>1. pc' = pc /\ wire' = wire \ {t} BY <1>9 DEF ServerExecutes, clientVars
  <2>2. \A u \in Task \ {t} : reply'[u] = reply[u] BY <1>9 DEF ServerExecutes, TypeOK
  <2> QED BY <2>1, <2>2, <1>p DEF Pending
<1>10. ASSUME NEW t \in Task, Cancel(t) PROVE Pending'
  BY <1>10, <1>p, PendingFrame DEF Cancel, Goto, serverVars, Pending
<1>11. CASE LinkBreaks BY <1>11 DEF LinkBreaks, Pending
<1>12. CASE LinkReplaced BY <1>12, PendingFrame DEF LinkReplaced, clientVars, Pending
<1>13. CASE UNCHANGED vars BY <1>13, PendingFrame DEF vars, clientVars, serverVars, Pending
<1> QED BY <1>1, <1>2, <1>3, <1>4, <1>5, <1>6, <1>7, <1>8, <1>9, <1>10, <1>11,
           <1>12, <1>13 DEF Next

----------------------------------------------------------------------------
\* A step of the client alone keeps Answers when whoever comes to "ok" was told so.
LEMMA AnswersFrame ==
  ASSUME Answers, UNCHANGED <<reply, server, done, committed>>,
         \A t \in Task : pc'[t] = "ok" => pc[t] = "ok" \/ reply[t] = "ok"
  PROVE  Answers'
  BY DEF Answers

\* Sending a request forgets no answer anybody has taken.
LEMMA AnswersPost ==
  ASSUME TypeOK, Answers, NEW t \in Task, pc[t] = "send", Post(t),
         pc' = [pc EXCEPT ![t] = "sent"]
  PROVE  Answers'
<1>1. \A u \in Task : reply'[u] = "ok" => u # t /\ reply[u] = "ok"
  BY TxAssumption DEF Post, TypeOK
<1>2. \A u \in Task \ {t} : reply'[u] = reply[u] /\ pc'[u] = pc[u]
  BY DEF Post, TypeOK
<1>3. pc'[t] # "ok" BY DEF TypeOK
<1>4. UNCHANGED <<server, done, committed>> BY DEF Post
<1> QED BY <1>1, <1>2, <1>3, <1>4 DEF Answers, Task, Ender

\* The server answers Ok to an operation it executed in the transaction, and to the
\* one TX_END that closed it.
LEMMA NextAnswers == ASSUME TypeOK, Pending, Answers, [Next]_vars PROVE Answers'
<1> USE TxAssumption
<1>d. "drop" \in Task /\ Ender \subseteq Task /\ CacheOp \subseteq Task BY DEF Task
<1>p. pc \in [Task -> {"idle"} \cup InCall \cup Ended] BY DEF TypeOK
<1>1. CASE OpenCache BY <1>1, AnswersFrame DEF OpenCache, serverVars
<1>2. CASE DropCaches BY <1>2, AnswersFrame DEF DropCaches, serverVars
<1>3. CASE DropTransaction
  BY <1>3, <1>d, <1>p, AnswersFrame DEF DropTransaction, Goto, serverVars
<1>4. ASSUME NEW o \in CacheOp, OpBegin(o) PROVE Answers'
  BY <1>4, <1>d, <1>p, AnswersFrame DEF OpBegin, Goto, serverVars
<1>5. ASSUME NEW o \in CacheOp, TxStep(o) PROVE Answers'
  <2>1. CASE TxRoute(o) BY <2>1, <1>d, <1>p, AnswersFrame DEF TxRoute, Goto, serverVars
  <2>2. CASE TxSend(o) BY <2>2, <1>d, AnswersPost DEF TxSend, Goto
  <2>3. CASE OpResult(o) BY <2>3, <1>d, <1>p, AnswersFrame DEF OpResult, Goto, serverVars
  <2>4. CASE MarkLost(o) BY <2>4, <1>d, <1>p, AnswersFrame DEF MarkLost, Goto, serverVars
  <2> QED BY <1>5, <2>1, <2>2, <2>3, <2>4 DEF TxStep
<1>6. ASSUME NEW e \in Ender, EndBegin(e) PROVE Answers'
  BY <1>6, <1>d, <1>p, AnswersFrame DEF EndBegin, Goto, serverVars
<1>7. ASSUME NEW e \in Ender, EndStep(e) PROVE Answers'
  <2>1. CASE EndLock(e) BY <2>1, <1>d, <1>p, AnswersFrame DEF EndLock, Goto, serverVars
  <2>2. CASE EndSend(e) BY <2>2, <1>d, AnswersPost DEF EndSend, Goto
  <2>3. CASE EndResult(e) BY <2>3, <1>d, <1>p, AnswersFrame DEF EndResult, Goto, serverVars
  <2> QED BY <1>7, <2>1, <2>2, <2>3 DEF EndStep
<1>8. CASE DropStep
  <2>1. CASE DropLock BY <2>1, <1>d, <1>p, AnswersFrame DEF DropLock, Goto, serverVars
  <2>2. CASE DropSend BY <2>2, <1>d, AnswersPost DEF DropSend, Goto
  <2>3. CASE DropResult BY <2>3, <1>d, <1>p, AnswersFrame DEF DropResult, Goto, serverVars
  <2> QED BY <1>8, <2>1, <2>2, <2>3 DEF DropStep
<1>9. ASSUME NEW t \in Task, ServerExecutes(t) PROVE Answers'
  <2>1. pc' = pc BY <1>9 DEF ServerExecutes, clientVars
  <2>2. \A u \in Task \ {t} : reply'[u] = reply[u] BY <1>9 DEF ServerExecutes, TypeOK
  <2>3. reply'[t] = IF server = "active" THEN "ok" ELSE "fail"
    BY <1>9 DEF ServerExecutes, TypeOK
  <2>4. CASE server = "active" /\ t \in CacheOp
    BY <1>9, <2>1, <2>2, <2>3, <2>4, <1>d DEF ServerExecutes, Answers, Ender
  <2>5. CASE server = "active" /\ t \notin CacheOp
    <3>1. done' = done /\ server' = Closes(t) BY <1>9, <2>5 DEF ServerExecutes
    <3>2. committed' = IF t \in Committer THEN done ELSE committed
      BY <1>9, <2>5 DEF ServerExecutes
    <3>3. \A e \in Ender : reply[e] # "ok" BY <2>5 DEF Answers, Ender
    <3> QED BY <2>1, <2>2, <2>3, <2>5, <3>1, <3>2, <3>3, <1>d DEF Answers, Closes, Ender
  <2>6. CASE server # "active"
    <3>1. UNCHANGED <<server, done, committed>> BY <1>9, <2>6 DEF ServerExecutes
    <3>2. pc[t] # "ok" BY <1>9 DEF ServerExecutes, Pending
    <3> QED BY <2>1, <2>2, <2>3, <2>6, <3>1, <3>2, <1>d DEF Answers, Ender
  <2> QED BY <2>4, <2>5, <2>6
<1>10. ASSUME NEW t \in Task, Cancel(t) PROVE Answers'
  BY <1>10, <1>p, AnswersFrame DEF Cancel, Goto, serverVars
<1>11. CASE LinkBreaks
  BY <1>11, <1>d DEF LinkBreaks, clientVars, Answers, TypeOK
<1>12. CASE LinkReplaced BY <1>12, AnswersFrame DEF LinkReplaced, clientVars
<1>13. CASE UNCHANGED vars BY <1>13, AnswersFrame DEF vars, clientVars, serverVars
<1> QED BY <1>1, <1>2, <1>3, <1>4, <1>5, <1>6, <1>7, <1>8, <1>9, <1>10, <1>11,
           <1>12, <1>13 DEF Next

\* An acknowledged commit has committed every acknowledged operation, and an
\* acknowledged rollback none, also when callers drop their futures.
THEOREM CommitIsAtomic == Spec => []AtomicCommit
<1> DEFINE IInv == TypeOK /\ DropOnce /\ Pending /\ Answers
<1>1. Init => IInv
  BY TxAssumption DEF Init, TypeOK, Task, Ender, DropOnce, Pending, Answers
<1>2. IInv /\ [Next]_vars => IInv' BY NextTx, NextDrop, NextPending, NextAnswers
<1>3. IInv => AtomicCommit BY DEF Answers, AtomicCommit, Task, Ender
<1> QED BY <1>1, <1>2, <1>3, PTL DEF Spec
=============================================================================
