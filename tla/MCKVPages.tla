----------------------------- MODULE MCKVPages -----------------------------
(* Instances of KVPages for TLC. *)
EXTENDS KVPagesLru

\* Three zones of different page sizes, as in ZONE_BLOCK_SIZES.
ThreeZonesPages == [z \in Zones |-> IF z = 2 THEN 1 ELSE 2]
OneZone4 == [z \in Zones |-> IF z = 0 THEN 4 ELSE 0]
UnitSizes == [z \in Zones |-> 1]
DoublingSizes == [z \in Zones |-> 2^z]
============================================================================
