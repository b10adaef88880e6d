---------------------------- MODULE MCDiscovery -----------------------------
(* Discovery for TLC: node 1 at the seed "a", node 2 at "b", node 3 at "b" *)
(* as well, where it can only come up after node 2 has left.               *)
EXTENDS Discovery, TLC

MCHome    == [n \in Node |-> IF n = 1 THEN "a" ELSE "b"]
MCSeeds   == <<"a">>
MCReseeds == {<<"b">>}
TaskSymmetry == Permutations(Task)
============================================================================
