--------------------------- MODULE SharedColdFile ---------------------------
(***************************************************************************)
(* The cold file as the generations of one process use it.  Every call of  *)
(* ModelExecutor::generate makes a PagedKVCache of its own, and each of    *)
(* those opens, at its first eviction, the file kv_cache_<process id>.bin: *)
(* the caches have their own handles and their own record of the slots in  *)
(* use, but there is one file.  It is neither truncated when it is opened  *)
(* nor removed when a cache is dropped.                                    *)
(*                                                                         *)
(* The paging of one cache is modelled in KVPages.  Here its choice of a   *)
(* victim is left open, pages are of one size, and a slot of the file      *)
(* records the image written there last.                                   *)
(***************************************************************************)
EXTENDS Integers, FiniteSets

CONSTANTS Generations,   \* the requests the process serves
          MaxActive,     \* how many of them are served at a time
          NumPages,      \* pages of a cache
          RamPageLimit,  \* ram_page_limit
          ColdCapacity,  \* cold_capacity
          Absent, Hot, NoImage

Pages == 0 .. NumPages - 1
Slots == 0 .. ColdCapacity - 1

VARIABLES status,             \* "new", "running" or "done"
          page_state,         \* by generation and page: Absent, Hot, or the slot
          cold_slot_used, cold_write_cursor,
          image               \* by slot of the file: the page written there

cacheVars == <<page_state, cold_slot_used, cold_write_cursor>>
fileVars  == <<status, cacheVars, image>>

HotPages(g) == {p \in Pages : page_state[g][p] = Hot}

FileInit ==
    /\ status = [g \in Generations |-> "new"]
    /\ page_state = [g \in Generations |-> [p \in Pages |-> Absent]]
    /\ cold_slot_used = [g \in Generations |-> {}]
    /\ cold_write_cursor = [g \in Generations |-> 0]
    /\ image = [s \in Slots |-> NoImage]

\* generate makes its cache.
NewCache(g) ==
    /\ status[g] = "new"
    /\ Cardinality({h \in Generations : status[h] = "running"}) < MaxActive
    /\ status' = [status EXCEPT ![g] = "running"]
    /\ UNCHANGED <<cacheVars, image>>

\* Drop frees the memory of the cache; the file stays.
DropCache(g) ==
    /\ status[g] = "running"
    /\ status' = [status EXCEPT ![g] = "done"]
    /\ page_state' = [page_state EXCEPT ![g] = [p \in Pages |-> Absent]]
    /\ cold_slot_used' = [cold_slot_used EXCEPT ![g] = {}]
    /\ cold_write_cursor' = [cold_write_cursor EXCEPT ![g] = 0]
    /\ UNCHANGED image

FreeSlots(g) == Slots \ cold_slot_used[g]

\* The first slot from the cursor on that this cache does not use itself.
NextSlot(g, s) ==
    \/ /\ s \in FreeSlots(g)
       /\ \A t \in FreeSlots(g) : (s - cold_write_cursor[g]) % ColdCapacity
                                  <= (t - cold_write_cursor[g]) % ColdCapacity
    \/ FreeSlots(g) = {} /\ s = cold_write_cursor[g]

\* A page leaves RAM for a slot, to make room for one that is wanted.
Evict(g) ==
    /\ status[g] = "running"
    /\ Cardinality(HotPages(g)) >= RamPageLimit
    /\ HotPages(g) # Pages
    /\ \E p \in HotPages(g), s \in Slots :
          /\ NextSlot(g, s)
          /\ image' = [image EXCEPT ![s] = <<g, p>>]
          /\ page_state' = [page_state EXCEPT ![g][p] = s]
          /\ cold_slot_used' = [cold_slot_used EXCEPT ![g] = @ \cup {s}]
          /\ cold_write_cursor' = [cold_write_cursor EXCEPT ![g] = (s + 1) % ColdCapacity]
    /\ UNCHANGED status

\* A page of its own is added, the first time a position in it is saved.
Alloc(g, p) ==
    /\ status[g] = "running"
    /\ Cardinality(HotPages(g)) < RamPageLimit
    /\ page_state[g][p] = Absent
    /\ \A q \in Pages : q < p => page_state[g][q] # Absent
    /\ page_state' = [page_state EXCEPT ![g][p] = Hot]
    /\ UNCHANGED <<status, cold_slot_used, cold_write_cursor, image>>

\* The page is read back from its slot, which is free from then on.
Reload(g, p) ==
    /\ status[g] = "running"
    /\ Cardinality(HotPages(g)) < RamPageLimit
    /\ page_state[g][p] \in Slots
    /\ page_state' = [page_state EXCEPT ![g][p] = Hot]
    /\ cold_slot_used' = [cold_slot_used EXCEPT ![g] = @ \ {page_state[g][p]}]
    /\ UNCHANGED <<status, cold_write_cursor, image>>

FileNext ==
    \E g \in Generations :
        \/ NewCache(g) \/ DropCache(g) \/ Evict(g)
        \/ \E p \in Pages : Alloc(g, p) \/ Reload(g, p)

FileSpec == FileInit /\ [][FileNext]_fileVars

-----------------------------------------------------------------------------
(* "Cada request roda em sua própria thread com KV cache independente"     *)
(* (generate_batch): what a cache finds in the slot of a page of its own   *)
(* is the image it wrote there, whatever the other generations of the      *)
(* process have written before or meanwhile.                               *)
OwnImages ==
    \A g \in Generations, p \in Pages :
        page_state[g][p] \in Slots => image[page_state[g][p]] = <<g, p>>
=============================================================================
