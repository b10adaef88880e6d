----------------------------- MODULE MCChannel -----------------------------
(* Channel on small instances: correlation ids in different shards, and a   *)
(* number of calls that lets one id be used again by a retry.               *)
EXTENDS Channel, TLC

CallSymmetry == Permutations(Req)
============================================================================
