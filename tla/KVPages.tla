------------------------------ MODULE KVPages ------------------------------
(***************************************************************************)
(* Page management of PagedKVCache (swamp-engine/src/cache.rs): which      *)
(* pages of the KV cache are in RAM, the intrusive LRU list of each zone,  *)
(* entropy-guided eviction to the cold file and reload from it.            *)
(*                                                                         *)
(* Pages carry their flat id.  The contents of a page are modelled in      *)
(* KVData; here the cold file only records, for every unit of its space,   *)
(* the page whose image was written there last.                            *)
(*                                                                         *)
(* A method of the cache has exclusive access (&mut self); its loops are   *)
(* unfolded into steps, driven by stage, and no other operation starts     *)
(* before the call has returned (stage = "idle").                          *)
(***************************************************************************)
EXTENDS Integers, FiniteSets

CONSTANTS NumPages,      \* capacity of each zone, in pages (build_zones)
          PageUnits,     \* size of a q4 page of each zone, in units of file space
          RamPageLimit,  \* ram_page_limit
          ColdCapacity,  \* cold_capacity: slots of the cold file
          ScanDepth,     \* pages the eviction scan looks at (8 in the code)
          MaxImportance, \* bound on the importance a page accumulates
          MaxRange,      \* bound on the pages of one ensured range
          None, Absent, Hot

Zones == 0..2
Slots == 0..(ColdCapacity - 1)

\* First flat page id of each zone.
zone_page_offsets(z) ==
  IF z = 0 THEN 0 ELSE IF z = 1 THEN NumPages[0] ELSE NumPages[0] + NumPages[1]

total_pages == NumPages[0] + NumPages[1] + NumPages[2]
Pages == 0..(total_pages - 1)

\* The zone of a flat page id: the last one that starts at or before it.
resolve_flat(p) ==
  IF p >= zone_page_offsets(2) THEN 2
  ELSE IF p >= zone_page_offsets(1) THEN 1 ELSE 0

\* ram_page_limit is a quotient that is at least 1 (with_block_size), every
\* zone's pages have a size, and the sentinels are no page and no slot.
ASSUME KVPagesAssumption ==
  /\ NumPages \in [Zones -> Nat]
  /\ PageUnits \in [Zones -> Nat \ {0}]
  /\ RamPageLimit \in Nat \ {0}
  /\ ColdCapacity \in Nat
  /\ ScanDepth \in Nat \ {0}
  /\ MaxImportance \in Nat
  /\ MaxRange \in Nat
  /\ None \notin Int
  /\ Absent \notin Int
  /\ Hot \notin Int
  /\ Absent # Hot

VARIABLES page_state,         \* Absent (not pushed yet), Hot, or the cold slot
          npages,             \* pages pushed so far, by zone (k_pages.len())
          lru_prev, lru_next, \* LRU links; head is the most recently used page
          lru_head, lru_tail,
          hot_count,          \* hot pages, by zone
          entropy_importance, \* accumulated attention weight, by page
          cold_slot_used, cold_write_cursor,
          cold_file,          \* page whose image was last written to each unit
          stage, pid,         \* the running call: it has come to page pid of
          first, last,        \* the pages first..last it ensures
          best, cursor, left  \* the running eviction scan

lruVars  == <<lru_prev, lru_next, lru_head, lru_tail>>
coldVars == <<cold_slot_used, cold_write_cursor, cold_file>>
pageVars == <<page_state, npages, hot_count>>
scanVars == <<best, cursor, left>>
callVars == <<stage, pid, first, last>>
vars == <<pageVars, lruVars, entropy_importance, coldVars, callVars, scanVars>>

MaxUnits == IF /\ PageUnits[2] >= PageUnits[1]
               /\ PageUnits[2] >= PageUnits[0] THEN PageUnits[2]
            ELSE IF PageUnits[1] >= PageUnits[0] THEN PageUnits[1]
            ELSE PageUnits[0]

\* The units of the file: init_cold_file reserves one largest page per slot.
FileUnits == 0..(ColdCapacity * MaxUnits - 1)

\* The units a page of zone z occupies in a slot; slots are laid out by the
\* page size of the zone that uses them.
Region(z, slot) == (slot * PageUnits[z])..((slot + 1) * PageUnits[z] - 1)

HotPages(z)  == {p \in Pages : resolve_flat(p) = z /\ page_state[p] = Hot}
ColdPages    == {p \in Pages : page_state[p] \in Slots}
FreeSlots    == {s \in Slots : ~cold_slot_used[s]}

Init ==
  /\ page_state = [p \in Pages |-> Absent]
  /\ npages = [z \in Zones |-> 0]
  /\ lru_prev = [p \in Pages |-> None]
  /\ lru_next = [p \in Pages |-> None]
  /\ lru_head = [z \in Zones |-> None]
  /\ lru_tail = [z \in Zones |-> None]
  /\ hot_count = [z \in Zones |-> 0]
  /\ entropy_importance = [p \in Pages |-> 0]
  /\ cold_slot_used = [s \in Slots |-> FALSE]
  /\ cold_write_cursor = 0
  /\ cold_file = [u \in FileUnits |-> None]
  /\ stage = "idle" /\ pid = 0 /\ first = 0 /\ last = 0
  /\ best = None /\ cursor = None /\ left = 0

----------------------------------------------------------------------------
(* The intrusive LRU list *)

\* A page that is in no list becomes the head of zone z's list.
PushFront(z, p) ==
  /\ lru_next' = [lru_next EXCEPT ![p] = lru_head[z]]
  /\ lru_prev' = [q \in Pages |-> IF q = lru_head[z] THEN p
                                  ELSE IF q = p THEN None ELSE lru_prev[q]]
  /\ lru_head' = [lru_head EXCEPT ![z] = p]
  /\ lru_tail' = IF lru_tail[z] = None THEN [lru_tail EXCEPT ![z] = p]
                                       ELSE lru_tail

\* A page is taken out of zone z's list and its neighbours joined.
remove_from_lru_in_zone(z, p) ==
  LET prev == lru_prev[p]
      next == lru_next[p]
  IN  /\ lru_next' = [q \in Pages |-> IF q = p THEN None
                                      ELSE IF q = prev THEN next ELSE lru_next[q]]
      /\ lru_prev' = [q \in Pages |-> IF q = p THEN None
                                      ELSE IF q = next THEN prev ELSE lru_prev[q]]
      /\ lru_head' = IF lru_head[z] = p THEN [lru_head EXCEPT ![z] = next] ELSE lru_head
      /\ lru_tail' = IF lru_tail[z] = p THEN [lru_tail EXCEPT ![z] = prev] ELSE lru_tail

\* Faulty variants: the tail is not moved when it is touched; a touch is lost.
TouchKeepsTail(z, p) ==
  IF lru_head[z] = p THEN UNCHANGED lruVars
  ELSE /\ lru_next' = [q \in Pages |-> IF q = p THEN lru_head[z]
                                       ELSE IF q = lru_prev[p] THEN lru_next[p] ELSE lru_next[q]]
       /\ lru_prev' = [q \in Pages |-> IF q = lru_head[z] THEN p
                                       ELSE IF q = p THEN None
                                       ELSE IF q = lru_next[p] THEN lru_prev[p] ELSE lru_prev[q]]
       /\ lru_head' = [lru_head EXCEPT ![z] = p]
       /\ UNCHANGED lru_tail

TouchNothing(z, p) == UNCHANGED lruVars

\* A page that is not the head has a predecessor, so unlinking it leaves a
\* head and, when it was the tail, its predecessor as the new tail.
touch_lru_in_zone(z, p) ==
  IF lru_head[z] = p THEN UNCHANGED lruVars
  ELSE LET prev == lru_prev[p]
           next == lru_next[p]
           head == lru_head[z]
           tail == IF lru_tail[z] = p THEN prev ELSE lru_tail[z]
       IN  /\ lru_next' = [q \in Pages |-> IF q = p THEN head
                                           ELSE IF q = prev THEN next ELSE lru_next[q]]
           /\ lru_prev' = [q \in Pages |-> IF q = head THEN p
                                           ELSE IF q = p THEN None
                                           ELSE IF q = next THEN prev ELSE lru_prev[q]]
           /\ lru_head' = [lru_head EXCEPT ![z] = p]
           /\ lru_tail' = [lru_tail EXCEPT ![z] = IF tail = None THEN p ELSE tail]

----------------------------------------------------------------------------
(* The public operations *)

\* ensure_pages_hot(start, end); save and save_at call it for their one page.
ensure_pages_hot(start, end) ==
  /\ stage = "idle"
  /\ start <= end /\ end - start < MaxRange
  /\ stage' = "page" /\ pid' = start /\ first' = start /\ last' = end
  /\ UNCHANGED <<pageVars, lruVars, entropy_importance, coldVars, scanVars>>

\* The weight of a position is added to its page, if the page exists.
record_importance(p, weight) ==
  /\ stage = "idle"
  /\ page_state[p] # Absent
  /\ entropy_importance[p] + weight <= MaxImportance
  /\ entropy_importance' = [entropy_importance EXCEPT ![p] = @ + weight]
  /\ UNCHANGED <<pageVars, lruVars, coldVars, callVars, scanVars>>

reset_entropy ==
  /\ stage = "idle"
  /\ entropy_importance' = [p \in Pages |-> 0]
  /\ UNCHANGED <<pageVars, lruVars, coldVars, callVars, scanVars>>

----------------------------------------------------------------------------
(* ensure_page, one page of the range after the other *)

\* Faulty variant: the loop over the range does not move on.
TouchRepeats ==
  /\ stage = "page"
  /\ page_state[pid] = Hot
  /\ touch_lru_in_zone(resolve_flat(pid), pid)
  /\ IF pid = last
     THEN stage' = "idle" /\ pid' = 0 /\ first' = 0 /\ last' = 0
     ELSE UNCHANGED callVars
  /\ UNCHANGED <<pageVars, entropy_importance, coldVars, scanVars>>

\* A hot page is moved to the front; the loop over the range goes on.
EnsureTouch ==
  /\ stage = "page"
  /\ page_state[pid] = Hot
  /\ touch_lru_in_zone(resolve_flat(pid), pid)
  /\ IF pid = last
     THEN stage' = "idle" /\ pid' = 0 /\ first' = 0 /\ last' = 0
     ELSE pid' = pid + 1 /\ UNCHANGED <<stage, first, last>>
  /\ UNCHANGED <<pageVars, entropy_importance, coldVars, scanVars>>

\* If room is needed in zone z, an eviction starts with the tail as its first
\* candidate.  An empty list has nothing to evict.
RoomFor(z, needed) ==
  /\ stage = "page"
  /\ page_state[pid] # Hot
  /\ IF needed /\ lru_tail[z] # None
     THEN /\ stage' = "scan"
          /\ best' = lru_tail[z]
          /\ cursor' = lru_prev[lru_tail[z]]
          /\ left' = ScanDepth - 1
     ELSE stage' = "insert" /\ UNCHANGED scanVars
  /\ UNCHANGED <<pageVars, lruVars, entropy_importance, coldVars, pid, first, last>>

\* Faulty variant: the limit is off by one.
RoomOffByOne == RoomFor(resolve_flat(pid), hot_count[resolve_flat(pid)] > RamPageLimit)

\* A page that is not hot needs room when its zone is at the limit.
EnsureRoom == RoomFor(resolve_flat(pid), hot_count[resolve_flat(pid)] >= RamPageLimit)

\* Faulty variant: on a tie the page nearer to the head is taken.
ScanTakesTies ==
  /\ stage = "scan"
  /\ left > 0
  /\ cursor # None
  /\ best' = IF entropy_importance[cursor] <= entropy_importance[best]
             THEN cursor ELSE best
  /\ cursor' = lru_prev[cursor]
  /\ left' = left - 1
  /\ UNCHANGED <<pageVars, lruVars, entropy_importance, coldVars, callVars>>

\* One more candidate, towards the head; a strictly lower importance wins.
EvictScan ==
  /\ stage = "scan"
  /\ left > 0
  /\ cursor # None
  /\ best' = IF entropy_importance[cursor] < entropy_importance[best]
             THEN cursor ELSE best
  /\ cursor' = lru_prev[cursor]
  /\ left' = left - 1
  /\ UNCHANGED <<pageVars, lruVars, entropy_importance, coldVars, callVars>>

\* Faulty variant: the search stops at a slot in use instead of a free one.
UsedSlot(s) ==
  \/ /\ s \in Slots \ FreeSlots
     /\ \A t \in Slots \ FreeSlots : (s - cold_write_cursor) % ColdCapacity
                                       <= (t - cold_write_cursor) % ColdCapacity
  \/ Slots = FreeSlots /\ s = cold_write_cursor

\* The first free slot from the write cursor on, or the cursor's own slot
\* (whoever uses it) when none is free.
IsNextSlot(s) ==
  \/ /\ s \in FreeSlots
     /\ \A t \in FreeSlots : (s - cold_write_cursor) % ColdCapacity
                             <= (t - cold_write_cursor) % ColdCapacity
  \/ FreeSlots = {} /\ s = cold_write_cursor

\* Faulty variant: the cursor does not wrap around.
EvictNoWrap(z, s) ==
  /\ cold_file' = [u \in FileUnits |-> IF u \in Region(z, s) THEN best ELSE cold_file[u]]
  /\ cold_slot_used' = [cold_slot_used EXCEPT ![s] = TRUE]
  /\ cold_write_cursor' = s + 1
  /\ page_state' = [page_state EXCEPT ![best] = s]
  /\ hot_count' = [hot_count EXCEPT ![z] = @ - 1]
  /\ remove_from_lru_in_zone(z, best)
  /\ UNCHANGED npages

\* The chosen page is written to its slot and leaves RAM.
EvictTo(z, s) ==
  /\ cold_file' = [u \in FileUnits |-> IF u \in Region(z, s) THEN best ELSE cold_file[u]]
  /\ cold_slot_used' = [cold_slot_used EXCEPT ![s] = TRUE]
  /\ cold_write_cursor' = (s + 1) % ColdCapacity
  /\ page_state' = [page_state EXCEPT ![best] = s]
  /\ hot_count' = [hot_count EXCEPT ![z] = @ - 1]
  /\ remove_from_lru_in_zone(z, best)
  /\ UNCHANGED npages

\* The scan is over.  Without a cold file (cold_capacity = 0) nothing is
\* evicted, and the caller inserts its page all the same.
EvictWrite ==
  /\ stage = "scan"
  /\ left = 0 \/ cursor = None
  /\ IF ColdCapacity = 0 THEN UNCHANGED <<pageVars, lruVars, coldVars>>
     ELSE \E s \in Slots : IsNextSlot(s) /\ EvictTo(resolve_flat(pid), s)
  /\ stage' = "insert"
  /\ best' = None /\ cursor' = None /\ left' = 0
  /\ UNCHANGED <<entropy_importance, pid, first, last>>

\* alloc_hot_page_in_zone: the next page of the zone, which is the wanted one
\* only when the loop of ensure_page has reached it.
EnsureAlloc ==
  LET z == resolve_flat(pid)
      p == zone_page_offsets(z) + npages[z]
  IN  /\ stage = "insert"
      /\ page_state[pid] = Absent
      /\ page_state' = [page_state EXCEPT ![p] = Hot]
      /\ npages' = [npages EXCEPT ![z] = @ + 1]
      /\ entropy_importance' = [entropy_importance EXCEPT ![p] = 0]
      /\ hot_count' = [hot_count EXCEPT ![z] = @ + 1]
      /\ PushFront(z, p)
      /\ stage' = "page"
      /\ UNCHANGED <<coldVars, pid, first, last, scanVars>>

\* Faulty variants: the slot is not released; the page is not counted.
ReloadKeepsSlot ==
  /\ stage = "insert"
  /\ page_state[pid] \in Slots
  /\ page_state' = [page_state EXCEPT ![pid] = Hot]
  /\ hot_count' = [hot_count EXCEPT ![resolve_flat(pid)] = @ + 1]
  /\ PushFront(resolve_flat(pid), pid)
  /\ stage' = "page"
  /\ UNCHANGED <<npages, entropy_importance, coldVars, pid, first, last, scanVars>>

ReloadUncounted ==
  /\ stage = "insert"
  /\ page_state[pid] \in Slots
  /\ cold_slot_used' = [cold_slot_used EXCEPT ![page_state[pid]] = FALSE]
  /\ page_state' = [page_state EXCEPT ![pid] = Hot]
  /\ PushFront(resolve_flat(pid), pid)
  /\ stage' = "page"
  /\ UNCHANGED <<npages, hot_count, entropy_importance, cold_write_cursor, cold_file,
                 pid, first, last, scanVars>>

\* reload_cold_page_in_zone after its eviction: the slot is read and released.
EnsureReload ==
  LET z == resolve_flat(pid)
      slot == page_state[pid]
  IN  /\ stage = "insert"
      /\ slot \in Slots
      /\ cold_slot_used' = [cold_slot_used EXCEPT ![slot] = FALSE]
      /\ page_state' = [page_state EXCEPT ![pid] = Hot]
      /\ hot_count' = [hot_count EXCEPT ![z] = @ + 1]
      /\ PushFront(z, pid)
      /\ stage' = "page"
      /\ UNCHANGED <<npages, entropy_importance, cold_write_cursor, cold_file,
                     pid, first, last, scanVars>>

EnsureStep == \/ EnsureTouch \/ EnsureRoom \/ EvictScan
              \/ EvictWrite  \/ EnsureAlloc \/ EnsureReload

Next ==
  \/ \E start, end \in Pages : ensure_pages_hot(start, end)
  \/ \E p \in Pages, w \in 1..MaxImportance : record_importance(p, w)
  \/ reset_entropy
  \/ EnsureStep

Spec == Init /\ [][Next]_vars

\* A call, once made, runs on: nothing can suspend the thread that made it.
FairSpec == Spec /\ WF_vars(EnsureStep)
----------------------------------------------------------------------------
(* Properties *)

PageOrNone == Pages \cup {None}

TypeOK ==
  /\ page_state \in [Pages -> {Absent, Hot} \cup Slots]
  /\ npages \in [Zones -> Nat]
  /\ lru_prev \in [Pages -> PageOrNone]
  /\ lru_next \in [Pages -> PageOrNone]
  /\ lru_head \in [Zones -> PageOrNone]
  /\ lru_tail \in [Zones -> PageOrNone]
  /\ hot_count \in [Zones -> Int]
  /\ entropy_importance \in [Pages -> 0..MaxImportance]
  /\ cold_slot_used \in [Slots -> BOOLEAN]
  /\ cold_write_cursor \in Nat
  /\ ColdCapacity > 0 => cold_write_cursor \in Slots
  /\ cold_file \in [FileUnits -> PageOrNone]
  /\ stage \in {"idle", "page", "scan", "insert"}
  /\ pid \in Nat /\ first \in Nat /\ last \in Nat
  /\ stage # "idle" => pid \in Pages /\ last \in Pages /\ pid <= last
  /\ best \in PageOrNone /\ cursor \in PageOrNone
  /\ left \in 0..ScanDepth
  /\ stage = "scan" => best \in Pages

\* Each zone's links form one doubly linked list of exactly its hot pages:
\* the two directions agree, only the head has no predecessor, only the tail
\* has no successor, and a page that left RAM kept no link.
ZoneListOK(z) ==
  /\ lru_head[z] = None <=> HotPages(z) = {}
  /\ lru_tail[z] = None <=> HotPages(z) = {}
  /\ lru_head[z] # None => lru_head[z] \in HotPages(z)
  /\ lru_tail[z] # None => lru_tail[z] \in HotPages(z)
  /\ \A p \in HotPages(z) :
       /\ lru_prev[p] = None <=> lru_head[z] = p
       /\ lru_next[p] = None <=> lru_tail[z] = p
       /\ lru_prev[p] # None => lru_prev[p] \in HotPages(z) /\ lru_next[lru_prev[p]] = p
       /\ lru_next[p] # None => lru_next[p] \in HotPages(z) /\ lru_prev[lru_next[p]] = p

\* touch, remove and push keep every zone's list well formed, through any
\* sequence of ensured ranges, evictions and reloads.
LruWellFormed ==
  /\ \A z \in Zones : ZoneListOK(z)
  /\ \A p \in Pages : page_state[p] # Hot => lru_prev[p] = None /\ lru_next[p] = None

\* hot_count, which decides about evictions, counts the hot pages: it is kept
\* by hand in alloc, evict and reload.
HotCountExact == \A z \in Zones : hot_count[z] = Cardinality(HotPages(z))

\* With a cold file, no zone ever holds more than ram_page_limit pages in RAM,
\* not even between the eviction and the insertion of one ensure_page.
RamLimitHolds == ColdCapacity > 0 => \A z \in Zones : hot_count[z] <= RamPageLimit

\* Both together: the pages in RAM, as counted and as they are, stay within the
\* limit over every sequence of allocations, evictions and reloads.
HotPagesBounded == HotCountExact /\ RamLimitHolds

\* Two cold pages never share a slot, and a slot is marked used exactly while
\* a cold page lives in it (evict claims it, reload releases it).
SlotsOwned ==
  /\ \A p, q \in ColdPages : page_state[p] = page_state[q] => p = q
  /\ \A s \in Slots : cold_slot_used[s] <=> \E p \in ColdPages : page_state[p] = s

\* The file still holds the image of every page that is cold, so that a
\* reload gives back what the eviction wrote.
ColdImagesIntact ==
  \A p \in ColdPages : \A u \in Region(resolve_flat(p), page_state[p]) :
     u \in FileUnits /\ cold_file[u] = p

\* While no attention weight distinguishes the pages, eviction is least
\* recently used: a call that returns has left hot every page of its range
\* that is among the last ram_page_limit pages of the range in its zone.
EnsuredWindowHot ==
  [][stage # "idle" /\ stage' = "idle" /\ (\A p \in Pages : entropy_importance[p] = 0) =>
       \A p \in first..last :
          Cardinality({q \in p..last : resolve_flat(q) = resolve_flat(p)}) <= RamPageLimit
            => page_state'[p] = Hot]_vars

\* Every call returns: each round of the loop makes progress, through however
\* many evictions and reloads of the range's own pages.
CallReturns == stage = "page" ~> stage = "idle"

\* What the attention kernels rely on ("Ensure all needed pages are hot",
\* ops.rs): when ensure_pages_hot returns, every page of its range is in RAM.
EnsuredRangeIsHot ==
  [][stage # "idle" /\ stage' = "idle" => \A p \in first..last : page_state'[p] = Hot]_vars

============================================================================
