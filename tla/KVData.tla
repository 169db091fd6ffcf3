------------------------------- MODULE KVData -------------------------------
(***************************************************************************)
(* The contents of the KV cache (swamp-engine/src/cache.rs), on top of the  *)
(* page management of KVPages: the Q4 page, which is the primary copy and   *)
(* the one that travels to the cold file and back, and the FP32 page, a     *)
(* copy made on demand for the attention kernels.                           *)
(*                                                                          *)
(* A block of 32 quantized components is a header (scale and minimum) and   *)
(* nibbles.  The header identifies the value it was computed from; the      *)
(* nibbles are the set of bits they have set, because save ORs them in.     *)
(***************************************************************************)
EXTENDS KVPages

CONSTANTS ZoneStarts,  \* ZONE_STARTS
          BlockSizes,  \* ZONE_BLOCK_SIZES: positions per page, by zone
          MaxSeqLen,   \* positions the cache is built for
          NumLayers,
          Prompts,     \* lengths of the prompts that are prefilled, 0 for none
          ChunkSize,   \* PREFILL_CHUNK_SIZE
          MaySkip(_, _), \* whether policy or device may leave out a layer of a token
          Weighted,    \* bound: the pages that attention gives weight
          Vectors(_, _), \* the K/V vectors a layer may produce for a position
          Bits(_),     \* nibble bits the quantization of a vector sets
          Zero,        \* the content of zeroed memory
          Garbage      \* what a mixed or foreign block decodes to

Layers    == 0..(NumLayers - 1)
Positions == 0..(MaxSeqLen - 1)
Vals      == UNION {Vectors(l, pos) : l \in Layers, pos \in Positions}

\* zone_index, with zone_start and block_size of that zone.
zone_index(pos) == IF pos < ZoneStarts[1] THEN 0
                   ELSE IF pos < ZoneStarts[2] THEN 1 ELSE 2

local_page_id(z, pos) == (pos - ZoneStarts[z]) \div BlockSizes[z]

page_id(pos) == LET z == zone_index(pos)
                IN  zone_page_offsets(z) + local_page_id(z, pos)

slot_in_page(pos) == LET z == zone_index(pos)
                     IN  (pos - ZoneStarts[z]) % BlockSizes[z]

InPage(p) == 0..(BlockSizes[resolve_flat(p)] - 1)

\* build_zones: the zones but the last are as large as their distance to the
\* next one, whatever max_seq_len is.
build_zones ==
  [z \in Zones |->
     LET end == IF z = 2 THEN MaxSeqLen ELSE ZoneStarts[z + 1]
     IN  IF end > ZoneStarts[z]
         THEN (end - ZoneStarts[z] + BlockSizes[z] - 1) \div BlockSizes[z] ELSE 0]

ASSUME KVDataAssumption ==
  /\ ZoneStarts \in [Zones -> Nat] /\ ZoneStarts[0] = 0
  /\ BlockSizes \in [Zones -> Nat \ {0}]
  /\ PageUnits = BlockSizes \* q4_page_sizes: a page takes room by its positions
  /\ ChunkSize \in Nat \ {0} /\ Prompts \subseteq 0..MaxSeqLen
  /\ MaxSeqLen \in Nat \ {0} /\ NumLayers \in Nat \ {0}
  /\ NumPages = build_zones
  /\ Zero \notin Vals /\ Garbage \notin Vals /\ Zero # Garbage

VARIABLES q4,          \* by page: the Q4 blocks, in RAM or on the cold file
          f32,         \* by page: the FP32 copy, or None when not allocated
          current_pos,
          layers_saved,\* layers of current_pos gone through so far (the decode loop)
          prompt,      \* tokens of the prompt that go through the prefill
          offset,      \* where the chunk of the prefill starts,
          layer, at,   \* the layer it is in, and the next position to save there
          job,         \* what the running ensure call is for
          saved,       \* history: by layer and position, the vector saved last
          torn         \* history: pages whose image a page of another zone was
                       \* written into

dataVars == <<q4, f32, saved, torn>>
prefillVars == <<prompt, offset, layer, at>>
posVars  == <<current_pos, layers_saved, prefillVars>>
allVars  == <<vars, dataVars, posVars, job>>

NoJob == [op |-> "none", layer |-> 0, pos |-> 0, val |-> Zero]

\* quantize_block on memory that holds block b: the header is overwritten,
\* the new nibbles are ORed into the old ones.
quantize_block(b, v) == [head |-> v, nib |-> b.nib \cup Bits(v)]

ZeroBlock    == [head |-> Zero, nib |-> {}]
GarbageBlock == [head |-> Garbage, nib |-> {Garbage}]

\* dequant_block: the vector whose header and nibbles these are, if any.
dequant_block(b) == IF b.head \in Vals /\ b.nib # Bits(b.head) THEN Garbage ELSE b.head

Filled(p, b)  == [l \in Layers |-> [i \in InPage(p) |-> b]]
Dequantized(p) == [l \in Layers |-> [i \in InPage(p) |-> dequant_block(q4[p][l][i])]]

\* A sequence starts with a prefill, or is decoded from its first token on
\* (generate prefills prompts of more than one token).
DataInit ==
  /\ Init
  /\ q4 = [p \in Pages |-> Filled(p, ZeroBlock)]
  /\ f32 = [p \in Pages |-> None]
  /\ current_pos = 0 /\ layers_saved = 0
  /\ offset = 0 /\ layer = 0 /\ at = 0
  /\ torn = {}
  /\ prompt \in Prompts
  /\ job = NoJob
  /\ saved = [l \in Layers |-> [pos \in Positions |-> Zero]]

----------------------------------------------------------------------------
(* The public operations *)

\* prefill_batch goes through the prompt in chunks, through a chunk once for every
\* layer, and there through its positions.
PrefillDone == offset = prompt
ChunkEnd == IF offset + ChunkSize < prompt THEN offset + ChunkSize ELSE prompt

\* save(layer, k, v) at current_pos; the decode loop goes through the layers
\* of a token in order and may leave some out.
save ==
  /\ PrefillDone
  /\ prompt <= current_pos /\ current_pos < MaxSeqLen
  /\ ensure_pages_hot(page_id(current_pos), page_id(current_pos))
  /\ \E l \in layers_saved..(NumLayers - 1) :
       /\ \A k \in layers_saved..(l - 1) : MaySkip(k, current_pos)
       /\ \E v \in Vectors(l, current_pos) :
            job' = [op |-> "save", layer |-> l, pos |-> current_pos, val |-> v]
       /\ layers_saved' = l + 1
  /\ UNCHANGED <<dataVars, current_pos, prefillVars>>

\* save_at(layer, pos, k, v), ahead of current_pos.
save_at ==
  /\ at < ChunkEnd
  /\ ensure_pages_hot(page_id(at), page_id(at))
  /\ \E v \in Vectors(layer, at) :
       job' = [op |-> "save_at", layer |-> layer, pos |-> at, val |-> v]
  /\ at' = at + 1
  /\ UNCHANGED <<dataVars, current_pos, layers_saved, prompt, offset, layer>>

\* The chunk goes to its next layer, or the prefill to the next chunk.
prefill_next ==
  /\ stage = "idle"
  /\ ~PrefillDone /\ at = ChunkEnd
  /\ IF layer + 1 < NumLayers
     THEN layer' = layer + 1 /\ at' = offset /\ UNCHANGED offset
     ELSE layer' = 0 /\ offset' = ChunkEnd /\ UNCHANGED at
  /\ UNCHANGED <<vars, dataVars, current_pos, layers_saved, prompt, job>>

\* Attention over positions 0..pos in a layer first has their pages brought
\* to RAM ("hot"), then given an FP32 copy ("f32").
Preheat(op, l, pos) ==
  /\ ensure_pages_hot(0, page_id(pos))
  /\ job' = [op |-> op, layer |-> l, pos |-> pos, val |-> Zero]
  /\ UNCHANGED <<dataVars, posVars>>

\* In the prefill: for every position of the chunk, after the layer's
\* vectors have all been saved.
PrefillAttention(op) ==
  /\ ~PrefillDone /\ at = ChunkEnd
  /\ \E pos \in offset..(ChunkEnd - 1) : Preheat(op, layer, pos)

\* In the decode loop: right after the layer's vectors have been saved.
DecodeAttention(op) == layers_saved > 0 /\ Preheat(op, layers_saved - 1, current_pos)

\* The pages predicted from the draft cache are brought to RAM one by one before the
\* layers of a token; none is ahead of the token.
Prefetch ==
  /\ PrefillDone
  /\ prompt <= current_pos /\ current_pos < MaxSeqLen /\ layers_saved = 0
  /\ \E p \in 0..page_id(current_pos) : ensure_pages_hot(p, p)
  /\ job' = [op |-> "hot", layer |-> 0, pos |-> current_pos, val |-> Zero]
  /\ UNCHANGED <<dataVars, posVars>>

\* advance: over the prompt after the prefill, and after each decoded token.
advance ==
  /\ stage = "idle"
  /\ PrefillDone
  /\ current_pos < MaxSeqLen
  /\ prompt <= current_pos => \A l \in layers_saved..(NumLayers - 1) : MaySkip(l, current_pos)
  /\ current_pos' = current_pos + 1
  /\ layers_saved' = 0
  /\ UNCHANGED <<vars, dataVars, prefillVars, job>>

\* reset goes back to position 0 and touches no page.  The vectors of the old
\* sequence no longer count as saved; the next sequence is decoded.
reset ==
  /\ stage = "idle"
  /\ current_pos' = 0 /\ layers_saved' = 0
  /\ prompt' = 0 /\ offset' = 0 /\ layer' = 0 /\ at' = 0
  /\ saved' = [l \in Layers |-> [pos \in Positions |-> Zero]]
  /\ UNCHANGED <<vars, q4, f32, torn, job>>

----------------------------------------------------------------------------
(* What the steps of ensure_page and the end of each operation do to data *)

\* Faulty variants: a save leaves the FP32 copy as it was; it copies the
\* quantized block there.
WriteKeepsF32 ==
  /\ q4' = [q4 EXCEPT ![page_id(job.pos)][job.layer][slot_in_page(job.pos)] =
                        quantize_block(@, job.val)]
  /\ saved' = [saved EXCEPT ![job.layer][job.pos] = job.val]
  /\ UNCHANGED <<f32, torn>>

WriteCopiesBlock ==
  LET p == page_id(job.pos)
      i == slot_in_page(job.pos)
      l == job.layer
  IN  /\ q4' = [q4 EXCEPT ![p][l][i] = quantize_block(@, job.val)]
      /\ f32' = IF job.op = "save" /\ f32[p] # None
                THEN [f32 EXCEPT ![p][l][i] = q4'[p][l][i]] ELSE f32
      /\ saved' = [saved EXCEPT ![l][job.pos] = job.val]
      /\ UNCHANGED torn

\* The operation writes its block once its page is hot.  save also refreshes
\* the FP32 copy if there is one; save_at does not.
WriteBlock ==
  LET p == page_id(job.pos)
      i == slot_in_page(job.pos)
      l == job.layer
  IN  /\ q4' = [q4 EXCEPT ![p][l][i] = quantize_block(@, job.val)]
      /\ f32' = IF job.op = "save" /\ f32[p] # None
                THEN [f32 EXCEPT ![p][l][i] = job.val] ELSE f32
      /\ saved' = [saved EXCEPT ![l][job.pos] = job.val]
      /\ UNCHANGED torn

\* ensure_f32_page_in_zone: allocated and filled once, then kept.
EnsureF32 ==
  /\ f32' = IF f32[pid] = None THEN [f32 EXCEPT ![pid] = Dequantized(pid)] ELSE f32
  /\ UNCHANGED <<q4, saved, torn>>

TouchData ==
  /\ EnsureTouch
  /\ CASE job.op \in {"save", "save_at"} -> WriteBlock
       [] job.op = "f32" -> EnsureF32
       [] OTHER -> UNCHANGED dataVars
  /\ job' = IF pid = last THEN NoJob ELSE job
  /\ UNCHANGED posVars

\* Faulty variant: the FP32 copy survives the eviction.
EvictKeepsF32 == EvictWrite /\ UNCHANGED <<dataVars, posVars, job>>

\* The pages of other zones whose images the image of page p runs into.
TornBy(p) ==
  {q \in ColdPages : resolve_flat(q) # resolve_flat(p)
                       /\ Region(resolve_flat(q), page_state[q])
                            \cap Region(resolve_flat(p), page_state'[p]) # {}}

\* A page that is evicted loses its FP32 copy; its Q4 image is on the file.
EvictData ==
  /\ EvictWrite
  /\ IF ColdCapacity = 0 THEN UNCHANGED <<f32, torn>>
     ELSE f32' = [f32 EXCEPT ![best] = None] /\ torn' = torn \cup TornBy(best)
  /\ UNCHANGED <<q4, saved, posVars, job>>

AllocData ==
  /\ EnsureAlloc
  /\ LET z == resolve_flat(pid)
         p == zone_page_offsets(z) + npages[z]
     IN  /\ q4' = [q4 EXCEPT ![p] = Filled(p, ZeroBlock)]
         /\ f32' = [f32 EXCEPT ![p] = None]
  /\ UNCHANGED <<saved, torn, posVars, job>>

\* Faulty variant: the fresh memory of a reloaded page is not filled.
ReloadForgets ==
  /\ EnsureReload
  /\ q4' = [q4 EXCEPT ![pid] = Filled(pid, ZeroBlock)]
  /\ UNCHANGED <<f32, saved, torn, posVars, job>>

\* A reload brings back what the file holds in the page's slot.
ReloadData ==
  /\ EnsureReload
  /\ LET intact == \A u \in Region(resolve_flat(pid), page_state[pid]) : cold_file[u] = pid
     IN  q4' = IF intact THEN q4 ELSE [q4 EXCEPT ![pid] = Filled(pid, GarbageBlock)]
  /\ UNCHANGED <<f32, saved, torn, posVars, job>>

DataStep ==
  \/ TouchData \/ EvictData \/ AllocData \/ ReloadData
  \/ (EnsureRoom \/ EvictScan) /\ UNCHANGED <<dataVars, posVars, job>>

\* The decode loop starts without importance; the attention of a layer records it.
Importance ==
  /\ PrefillDone
  /\ \/ current_pos = prompt /\ layers_saved = 0 /\ reset_entropy
     \/ /\ layers_saved > 0
        /\ \E p \in Weighted \cap 0..page_id(current_pos), w \in 1..MaxImportance : record_importance(p, w)
  /\ UNCHANGED <<dataVars, posVars, job>>

DataNext ==
  \/ save \/ save_at \/ prefill_next \/ Prefetch
  \/ \E op \in {"hot", "f32"} : PrefillAttention(op) \/ DecodeAttention(op)
  \/ advance
  \/ DataStep
  \/ Importance

DataSpec == DataInit /\ [][DataNext]_allVars /\ WF_allVars(DataStep)

\* The cache reused for another sequence.
ReuseSpec == DataInit /\ [][DataNext \/ reset]_allVars /\ WF_allVars(DataStep)
----------------------------------------------------------------------------
(* Properties *)

DataTypeOK ==
  /\ \A p \in Pages : f32[p] = None \/ f32[p] \in
        [Layers -> [InPage(p) -> Vals \cup {Zero, Garbage}]]
  /\ current_pos \in 0..MaxSeqLen /\ layers_saved \in 0..NumLayers
  /\ prompt \in 0..MaxSeqLen /\ offset \in 0..prompt /\ layer \in Layers /\ at \in offset..ChunkEnd
  /\ job.op \in {"none", "save", "save_at", "hot", "f32"}
  /\ job.op = "none" <=> stage = "idle"

\* What was saved last at a position is what its Q4 block decodes to, however
\* often its page was evicted and reloaded in between, unless a page of another
\* zone was written into the image of the page: the slots of the zones differ in
\* size and overlap, those of one zone do not.
SavedIsKept ==
  \A l \in Layers, pos \in Positions :
     saved[l][pos] # Zero /\ page_id(pos) \notin torn =>
       dequant_block(q4[page_id(pos)][l][slot_in_page(pos)]) = saved[l][pos]

\* The FP32 page is a dequantization cache of the Q4 page ("cache de
\* dequantizacao", cache.rs header): the attention of a layer reads from it,
\* at every position, the vector saved last for that layer and position, but for the
\* pages that another zone has torn.
ReadsSaved ==
  job.op = "f32" /\ stage' = "idle" =>
    \A t \in 0..job.pos :
       f32'[page_id(t)] # None /\ page_id(t) \notin torn =>
          f32'[page_id(t)][job.layer][slot_in_page(t)] = saved[job.layer][t]

AttentionReadsSaved == [][ReadsSaved]_allVars

\* The same for a sequence that was decoded from its first token on: there
\* every vector comes in through save, which keeps the FP32 copy current.
DecodeReadsSaved == [][prompt = 0 => ReadsSaved]_allVars

\* Only a page in RAM has an FP32 copy, so that the copy dies with the
\* eviction and a reloaded page is dequantized afresh.
F32OnlyWhileHot == \A p \in Pages : f32[p] # None => page_state[p] = Hot

\* What the cache keeps between two calls: its types, the slots that the zones share,
\* every saved vector of an image no other zone tore in its block, and FP32 copies of
\* hot pages only.
DataInv == DataTypeOK /\ SlotsOwned /\ SavedIsKept /\ F32OnlyWhileHot
=============================================================================
