----------------------------- MODULE MCKVData ------------------------------
(* Instances of KVData for TLC. *)
EXTENDS KVData

CONSTANTS a, b

\* Blocks of different sizes, zones a whole number of blocks apart as 0 / 4096 / 131072
\* are, and a third zone that MaxSeqLen cuts short within its block.
Starts == [z \in Zones |-> IF z = 0 THEN 0 ELSE IF z = 1 THEN 2 ELSE 6]
Sizes  == [z \in Zones |-> 2^z]
PagesOfStarts == [z \in Zones |-> IF z = 2 THEN 1 ELSE 2]

\* The last layer of one token.
LastOfThird(l, pos) == l = NumLayers - 1 /\ pos = 2
Never(l, pos) == FALSE

\* A vector of its own for every layer and position, so that no mix-up of two
\* of them goes unseen; or a choice of two for all.
OneEach(l, pos) == {[layer |-> l, pos |-> pos]}
AorB(l, pos) == {a, b}

\* Different vectors set different nibble bits.
BitsOf(v) == {v}
=============================================================================
