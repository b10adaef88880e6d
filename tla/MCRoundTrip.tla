---------------------------- MODULE MCRoundTrip ----------------------------
(* RoundTrip for TLC: operations with the same routes are interchangeable. *)
EXTENDS RoundTrip, TLC

OpSymmetry == Permutations(Op)
============================================================================
