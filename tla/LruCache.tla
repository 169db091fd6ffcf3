------------------------------ MODULE LruCache ------------------------------
(***************************************************************************)
(* What PagedKVCache promises about the pages it holds in RAM: each zone    *)
(* has a recency order of resident pages; using a page makes it the most    *)
(* recent one; a page is only given up when the zone is full, and then it   *)
(* is the one of least importance among the ScanDepth least recent ones,    *)
(* the least recent of those on a tie.  There are no links, no scan and no  *)
(* hot counter here: KVPages implements this with them.                     *)
(***************************************************************************)
EXTENDS Naturals, Sequences, SequencesExt

CONSTANTS Zone, Page, ZoneOf(_), Limit, Depth

VARIABLES recency,   \* by zone, the resident pages, most recent first
          importance \* by page

AbsVars == <<recency, importance>>

Resident(z) == Range(recency[z])

AbsInit ==
  /\ recency = [z \in Zone |-> <<>>]
  /\ importance = [p \in Page |-> 0]

\* Zone z's order with its k-th page taken out of it.
Without(z, k) == RemoveAt(recency[z], k)

\* A resident page is used.
Use(p) ==
  /\ \E k \in DOMAIN recency[ZoneOf(p)] :
        /\ recency[ZoneOf(p)][k] = p
        /\ recency' = [recency EXCEPT ![ZoneOf(p)] = <<p>> \o Without(ZoneOf(p), k)]
  /\ UNCHANGED importance

\* A page enters RAM, fresh or from the cold store.
Enter(p) ==
  /\ p \notin Resident(ZoneOf(p))
  /\ recency' = [recency EXCEPT ![ZoneOf(p)] = <<p>> \o @]
  /\ UNCHANGED importance

\* The page to give up: its place in the order, from 1.
IsVictim(z, i) ==
  LET n == Len(recency[z])
      Old == {j \in 1..n : j > n - Depth}
      imp(j) == importance[recency[z][j]]
  IN  /\ i \in Old
      /\ \A j \in Old : imp(i) < imp(j) \/ (imp(i) = imp(j) /\ i >= j)

\* A full zone gives up its cheapest page at the old end.
GiveUp(z) ==
  /\ Len(recency[z]) >= Limit
  /\ \E i \in DOMAIN recency[z] :
        IsVictim(z, i) /\ recency' = [recency EXCEPT ![z] = Without(z, i)]
  /\ UNCHANGED importance

\* Attention weights are added or forgotten, which moves no page.
Weigh ==
  /\ importance' \in [Page -> Nat]
  /\ UNCHANGED recency

AbsNext ==
  \/ \E p \in Page : Use(p) \/ Enter(p)
  \/ \E z \in Zone : GiveUp(z)
  \/ Weigh

AbsSpec == AbsInit /\ [][AbsNext]_AbsVars
=============================================================================
