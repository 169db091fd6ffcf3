----------------------------- MODULE KVPagesLru -----------------------------
(***************************************************************************)
(* The pages of the KV cache as an implementation of LruCache.              *)
(***************************************************************************)
EXTENDS KVPages, Sequences

\* The n pages met from a head along the links next.
Following(head, n, next) ==
  LET page[i \in 1..n] == IF i = 1 THEN head ELSE next[page[i - 1]]
  IN  page

\* The recency order that the links of zone z stand for: as many pages as the
\* zone counts, from its head along lru_next.
ListOf(z) == Following(lru_head[z], hot_count[z], lru_next)

Lru == INSTANCE LruCache WITH
         Zone <- Zones, Page <- Pages, ZoneOf <- resolve_flat,
         Limit <- RamPageLimit, Depth <- ScanDepth,
         recency <- [z \in Zones |-> ListOf(z)],
         importance <- entropy_importance

\* The linked lists, the scan from the tail and the hot counter implement the
\* recency order and the choice of the victim that LruCache specifies.
ImplementsLru == Lru!AbsSpec

=============================================================================
