--------------------------- MODULE MCHybridClock ---------------------------
(* Values of the constants of HybridClock for model checking.              *)
EXTENDS HybridClock, TLC

NoTimestamps == {}
OneScale == {1}
TwoScales == {1, 2}
SomeReceived == {[wall |-> w, logical |-> l] : w \in {1, 3}, l \in {0, 3}}

ThreadSymmetry == Permutations(Threads)
=============================================================================
