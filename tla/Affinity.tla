------------------------------ MODULE Affinity ------------------------------
(***************************************************************************)
(* AffinityCache (affinity.rs) as operators on the snapshot behind its     *)
(* ArcSwap.  The methods load the snapshot, build the next one and store   *)
(* it without a lock; where a step begins and ends is up to the module     *)
(* that uses them.  A cache's mapping is a function from keys to owners;   *)
(* NotApplicable is the empty mapping of a cache the server does not map.  *)
(***************************************************************************)
EXTENDS Integers, FiniteSets, Functions

NotApplicable == <<>>

EmptyAffinity == [version |-> -1, caches |-> <<>>, single |-> FALSE]

MappedNodes(caches) == UNION {Range(caches[c]) : c \in DOMAIN caches}

Invalidated(a) == EmptyAffinity

CacheInvalidated(a, c) ==
    LET rest == Restrict(a.caches, DOMAIN a.caches \ {c})
    IN  [a EXCEPT !.caches = rest,
                  !.single = Cardinality(MappedNodes(rest)) <= 1 /\ DOMAIN rest # {}]

\* caches: the mappings of the answer, which replace or join those held.
Applied(a, version, caches) ==
    LET all == [c \in DOMAIN a.caches \cup DOMAIN caches |->
                  IF c \in DOMAIN caches THEN caches[c] ELSE a.caches[c]]
    IN  [version |-> version, caches |-> all,
         single |-> Cardinality(MappedNodes(all)) <= 1]

NeedsRefresh(a, c) == a.version = -1 \/ c \notin DOMAIN a.caches

\* The owner of key k, as a set of at most one node: none when the mapping is missing,
\* stale or not applicable.
ResolveNodeForKey(a, c, k) ==
    IF NeedsRefresh(a, c) \/ a.caches[c] = NotApplicable THEN {} ELSE {a.caches[c][k]}
============================================================================
