------------------------------ MODULE MCServer ------------------------------
(* Instances of Server for TLC. *)
EXTENDS Server, TLC

CONSTANTS w1, w2

PoolThreads == Permutations({w1, w2})
=============================================================================
