---------------------------- MODULE KVDataProofs ----------------------------
(***************************************************************************)
(* Proofs about the contents of the KV cache, for every layout of zones,    *)
(* every length, number of layers and set of vectors: what was saved is     *)
(* what a block decodes to, through evictions and reloads, and what a       *)
(* decoded sequence attends to.  Excepted are the pages whose image in the  *)
(* cold file another zone's page has written into (torn).                   *)
(*                                                                          *)
(* SavedIsKept is not inductive: a save is only right because it is the     *)
(* first one into its block (save ORs its nibbles in), which is a matter    *)
(* of the order in which prefill and decoding go through layers and         *)
(* positions (SavedInOrder), and an allocation only wipes pages that were   *)
(* never saved to (Stored).                                                 *)
(***************************************************************************)
EXTENDS KVData, KVPagesProofs

----------------------------------------------------------------------------
(* Arithmetic *)

\* Quotient and remainder.
LEMMA Division ==
  ASSUME NEW a \in Int, NEW b \in Int, b > 0
  PROVE  a = b * (a \div b) + (a % b)
OBVIOUS

LEMMA DivMod ==
  ASSUME NEW a \in Nat, NEW b \in Nat \ {0}
  PROVE  /\ a \div b \in Nat
         /\ a % b \in 0..(b - 1)
         /\ a = b * (a \div b) + (a % b)
<1>1. a \in Int /\ b \in Int /\ b > 0
  OBVIOUS
<1>2. a = b * (a \div b) + (a % b)
  BY <1>1, Division
<1>3. a \div b \in Int
  OBVIOUS
<1>4. a % b \in 0..(b - 1)
  OBVIOUS
<1>5. a \div b >= 0
  <2> DEFINE q == a \div b
  <2>1. q \in Int /\ a = b * q + (a % b)
    BY <1>2, <1>3
  <2> HIDE DEF q
  <2>2. CASE q < 0
    <3>1. PICK k \in Nat : q = 0 - 1 - k
      <4>1. 0 - 1 - q \in Nat /\ q = 0 - 1 - (0 - 1 - q)
        BY <2>1, <2>2
      <4>2. QED
        BY <4>1
    <3>2. b * q = 0 - b - b * k /\ b * k \in Nat
      BY <3>1
    <3>3. QED
      BY <1>1, <1>4, <2>1, <3>2
  <2>3. QED
    BY <2>1, <2>2 DEF q
<1>6. QED
  BY <1>2, <1>3, <1>4, <1>5

\* A larger factor makes a larger product.
LEMMA TimesLess ==
  ASSUME NEW b \in Nat, NEW c \in Nat, NEW d \in Nat, c < d
  PROVE  b * c + b <= b * d
<1>1. PICK e \in Nat : d = c + 1 + e
  <2>1. d - (c + 1) \in Nat /\ d = c + 1 + (d - (c + 1))
    OBVIOUS
  <2>2. QED
    BY <2>1
<1>2. b * d = b * c + b + b * e /\ b * e \in Nat /\ b * c \in Nat
  BY <1>1
<1>3. QED
  BY <1>2

LEMMA DivLess ==
  ASSUME NEW a \in Nat, NEW b \in Nat \ {0}, NEW c \in Nat, a < b * c
  PROVE  a \div b < c
<1>1. a \div b \in Nat /\ b * (a \div b) <= a
  BY DivMod
<1>2. CASE c <= a \div b
  <2>1. b * c <= b * (a \div b)
    BY <1>1, <1>2, TimesLess
  <2>2. QED
    BY <1>1, <2>1
<1>3. QED
  BY <1>1, <1>2

\* Two numbers with the same quotient and remainder are the same.
LEMMA DivModInjective ==
  ASSUME NEW a \in Nat, NEW d \in Nat, NEW b \in Nat \ {0},
         a \div b = d \div b, a % b = d % b
  PROVE  a = d
BY DivMod

\* There are enough pages: a position before the end is in one of the pages
\* that build_zones rounds up to.
LEMMA RoundedUp ==
  ASSUME NEW n \in Nat, NEW b \in Nat \ {0}, NEW a \in Nat, a < n
  PROVE  a \div b < (n + b - 1) \div b
<1> DEFINE c == (n + b - 1) \div b
<1>0. n + b - 1 \in Nat
  OBVIOUS
<1>1. c \in Nat /\ (n + b - 1) % b \in 0..(b - 1) /\ n + b - 1 = b * c + ((n + b - 1) % b)
  BY <1>0, DivMod
<1> HIDE DEF c
<1>2. b * c \in Nat
  BY <1>1
<1>3. a < b * c
  BY <1>1, <1>2
<1>4. QED
  BY <1>1, <1>3, DivLess DEF c

----------------------------------------------------------------------------
(* Positions and their blocks *)

LEMMA ZoneOfPosition ==
  ASSUME NEW pos \in Positions
  PROVE  LET z == zone_index(pos)
         IN  /\ z \in Zones
             /\ pos - ZoneStarts[z] \in Nat
             /\ local_page_id(z, pos) \in Nat
             /\ local_page_id(z, pos) < NumPages[z]
<1> DEFINE z == zone_index(pos)
           end == IF z = 2 THEN MaxSeqLen ELSE ZoneStarts[z + 1]
<1>1. z \in Zones /\ z \in {0, 1, 2}
  BY DEF zone_index, Zones
<1>2. /\ ZoneStarts[0] = 0 /\ ZoneStarts[1] \in Nat /\ ZoneStarts[2] \in Nat
      /\ ZoneStarts[z] \in Nat /\ BlockSizes[z] \in Nat \ {0} /\ MaxSeqLen \in Nat
      /\ NumPages = build_zones
  BY <1>1, KVDataAssumption DEF KVDataAssumption, Zones
<1>3. pos \in Nat /\ pos < MaxSeqLen
  BY <1>2 DEF Positions
<1>4. ZoneStarts[z] <= pos /\ pos < end /\ end \in Nat
  BY <1>1, <1>2, <1>3 DEF zone_index
<1>5. NumPages[z] = (end - ZoneStarts[z] + BlockSizes[z] - 1) \div BlockSizes[z]
  BY <1>1, <1>2, <1>3, <1>4 DEF build_zones
<1> HIDE DEF z, end
<1>6. pos - ZoneStarts[z] \in Nat /\ end - ZoneStarts[z] \in Nat
      /\ pos - ZoneStarts[z] < end - ZoneStarts[z]
  BY <1>2, <1>3, <1>4
<1>7. (pos - ZoneStarts[z]) \div BlockSizes[z] \in Nat
  BY <1>2, <1>6, DivMod
<1>8. (pos - ZoneStarts[z]) \div BlockSizes[z] < NumPages[z]
  BY <1>2, <1>5, <1>6, RoundedUp
<1>9. QED
  BY <1>1, <1>6, <1>7, <1>8 DEF z, local_page_id

\* A position's block lies in a page of its zone.
LEMMA BlockOfPosition ==
  ASSUME NEW pos \in Positions
  PROVE  /\ page_id(pos) \in Pages
         /\ resolve_flat(page_id(pos)) = zone_index(pos)
         /\ slot_in_page(pos) \in InPage(page_id(pos))
<1> DEFINE z == zone_index(pos)
<1>1. /\ z \in Zones /\ pos - ZoneStarts[z] \in Nat
      /\ local_page_id(z, pos) \in Nat /\ local_page_id(z, pos) < NumPages[z]
  BY ZoneOfPosition
<1>2. page_id(pos) \in Pages /\ resolve_flat(page_id(pos)) = z
  BY <1>1, ZoneOfId DEF page_id
<1>3. BlockSizes[z] \in Nat \ {0}
  BY <1>1, KVDataAssumption DEF KVDataAssumption
<1>4. (pos - ZoneStarts[z]) % BlockSizes[z] \in 0..(BlockSizes[z] - 1)
  BY <1>1, <1>3, DivMod
<1>5. QED
  BY <1>2, <1>4 DEF slot_in_page, InPage

\* No two positions share a block.
LEMMA BlockIsOwn ==
  ASSUME NEW s \in Positions, NEW t \in Positions,
         page_id(s) = page_id(t), slot_in_page(s) = slot_in_page(t)
  PROVE  s = t
<1> DEFINE z == zone_index(s)
<1>1. zone_index(t) = z
  BY BlockOfPosition
<1>2. /\ z \in Zones /\ s - ZoneStarts[z] \in Nat /\ t - ZoneStarts[z] \in Nat
      /\ local_page_id(z, s) \in Nat /\ local_page_id(z, t) \in Nat
  BY <1>1, ZoneOfPosition
<1>3. BlockSizes[z] \in Nat \ {0} /\ ZoneStarts[z] \in Nat
  BY <1>2, KVDataAssumption DEF KVDataAssumption
<1>4. zone_page_offsets(z) \in Nat
  BY <1>2, KVPagesAssumption DEF KVPagesAssumption, zone_page_offsets, Zones
<1>5. local_page_id(z, s) = local_page_id(z, t)
  BY <1>1, <1>2, <1>4 DEF page_id
<1>6. (s - ZoneStarts[z]) % BlockSizes[z] = (t - ZoneStarts[z]) % BlockSizes[z]
  BY <1>1 DEF slot_in_page
<1>7. s - ZoneStarts[z] = t - ZoneStarts[z]
  BY <1>2, <1>3, <1>5, <1>6, DivModInjective DEF local_page_id
<1>8. s \in Int /\ t \in Int
  BY DEF Positions
<1>9. QED
  BY <1>3, <1>7, <1>8

----------------------------------------------------------------------------
(* The inductive invariant *)

Contents == Vals \cup {Zero, Garbage}
Nibbles  == (UNION {Bits(v) : v \in Vals}) \cup {Garbage}
Blocks   == [head : Contents, nib : SUBSET Nibbles]

\* Every page has a block, and its copy a vector, for each layer and position.
Shapes ==
  /\ q4 = [p \in Pages |-> q4[p]]
  /\ f32 = [p \in Pages |-> f32[p]]
  /\ \A p \in Pages : /\ q4[p] \in [Layers -> [InPage(p) -> Blocks]]
                      /\ f32[p] = None \/ f32[p] \in [Layers -> [InPage(p) -> Contents]]
  /\ saved \in [Layers -> [Positions -> Vals \cup {Zero}]]

\* The prefill is in a layer of a chunk of the prompt.  Decoding starts when it is done,
\* behind the prompt.
Progress ==
  /\ current_pos \in 0..MaxSeqLen /\ layers_saved \in 0..NumLayers
  /\ prompt \in 0..MaxSeqLen /\ offset \in 0..prompt /\ layer \in Layers /\ at \in offset..ChunkEnd
  /\ current_pos > 0 => PrefillDone
  /\ layers_saved > 0 => /\ PrefillDone
                         /\ prompt <= current_pos /\ current_pos < MaxSeqLen

\* The save of a layer and position has been called, if it ever will be: in the prefill
\* chunk by chunk and there layer by layer, in decoding position by position.
SaveCalled(l, pos) ==
  IF pos < prompt
  THEN \/ pos < offset
       \/ pos < ChunkEnd /\ (l < layer \/ (l = layer /\ pos < at))
  ELSE pos < current_pos \/ (pos = current_pos /\ l < layers_saved)

SavedInOrder ==
  \A l \in Layers, pos \in Positions : saved[l][pos] # Zero => SaveCalled(l, pos)

\* A running save works on the page of its position, and is its first.
JobInv ==
  /\ job.op \in {"none", "save", "save_at", "hot", "f32"}
  /\ job.op = "none" <=> stage = "idle"
  /\ job.op \in {"save", "save_at"} =>
       /\ job.layer \in Layers /\ job.pos \in Positions /\ job.val \in Vals
       /\ pid = page_id(job.pos) /\ last = pid
       /\ SaveCalled(job.layer, job.pos)
       /\ saved[job.layer][job.pos] = Zero
  /\ job.op = "save_at" => prompt # 0
  /\ (job.op = "f32" /\ prompt = 0) => job.layer \in Layers /\ job.pos \in Positions

BlockOf(v) == [head |-> v, nib |-> IF v = Zero THEN {} ELSE Bits(v)]

\* A position's block holds what was saved there, and nothing before that, unless another
\* zone tore the image of its page; a page that was saved to is never allocated again.
Stored ==
  \A l \in Layers, pos \in Positions :
     /\ page_id(pos) \notin torn =>
          q4[page_id(pos)][l][slot_in_page(pos)] = BlockOf(saved[l][pos])
     /\ saved[l][pos] # Zero => page_state[page_id(pos)] # Absent

\* Without a prefill every FP32 copy of a page that is not torn is what the page
\* decodes to.
CopiesCurrent ==
  prompt = 0 =>
    \A p \in Pages \ torn : f32[p] # None =>
       \A l \in Layers, i \in InPage(p) : f32[p][l][i] = dequant_block(q4[p][l][i])

\* The file still holds the image of every cold page that is not torn.
WholeImages ==
  \A p \in ColdPages \ torn : \A u \in Region(resolve_flat(p), page_state[p]) :
     u \in FileUnits /\ cold_file[u] = p

ContentsInv ==
  /\ Shapes /\ Progress /\ SavedInOrder /\ JobInv /\ Stored
  /\ F32OnlyWhileHot /\ CopiesCurrent

----------------------------------------------------------------------------
(* The order in which positions are saved *)

LEMMA Constants ==
  /\ MaxSeqLen \in Nat \ {0} /\ NumLayers \in Nat \ {0}
  /\ Zero \notin Vals /\ Garbage \notin Vals /\ Zero # Garbage
  /\ ChunkSize \in Nat \ {0} /\ Prompts \subseteq 0..MaxSeqLen
BY KVDataAssumption DEF KVDataAssumption

\* What a vector of a layer and position is.
LEMMA VectorsAreVals ==
  ASSUME NEW l \in Layers, NEW pos \in Positions, NEW v \in Vectors(l, pos)
  PROVE  v \in Vals
BY DEF Vals

\* The chunk is part of the prompt.
LEMMA ChunkOfPrompt ==
  ASSUME Progress
  PROVE  /\ prompt \in Nat /\ offset \in Nat /\ at \in Nat /\ layer \in Nat
         /\ ChunkEnd \in Nat /\ NumLayers \in Nat /\ MaxSeqLen \in Nat
         /\ current_pos \in Nat /\ layers_saved \in Nat
         /\ offset <= at /\ at <= ChunkEnd /\ ChunkEnd <= prompt /\ prompt <= MaxSeqLen
         /\ layer < NumLayers
         /\ PrefillDone => ChunkEnd = prompt /\ at = prompt
         /\ ~PrefillDone => offset < ChunkEnd
<1>1. /\ prompt \in Nat /\ offset \in Nat /\ layer \in Nat /\ NumLayers \in Nat /\ MaxSeqLen \in Nat
      /\ ChunkSize \in Nat \ {0} /\ offset <= prompt /\ prompt <= MaxSeqLen /\ layer < NumLayers
      /\ current_pos \in Nat /\ layers_saved \in Nat
  BY Constants DEF Progress, Layers
<1>2. /\ ChunkEnd \in Nat /\ ChunkEnd <= prompt /\ offset <= ChunkEnd
      /\ PrefillDone => ChunkEnd = prompt
      /\ ~PrefillDone => offset < ChunkEnd
  BY <1>1 DEF ChunkEnd, PrefillDone
<1> HIDE DEF ChunkEnd
<1>3. at \in offset..ChunkEnd
  BY DEF Progress
<1>4. at \in Nat /\ offset <= at /\ at <= ChunkEnd
  BY <1>1, <1>2, <1>3
<1>5. PrefillDone => at = prompt
  BY <1>1, <1>2, <1>4 DEF PrefillDone
<1>6. QED
  BY <1>1, <1>2, <1>4, <1>5

\* The next save_at of the prefill is of a layer and position of the prompt.
LEMMA NextOfPrefill ==
  ASSUME Progress, at < ChunkEnd
  PROVE  layer \in Layers /\ at \in Positions /\ at < prompt /\ prompt # 0
BY ChunkOfPrompt DEF Progress, Positions

LEMMA NextOfDecoding ==
  ASSUME Progress, current_pos < MaxSeqLen
  PROVE  /\ current_pos \in Positions
         /\ \A l \in layers_saved..(NumLayers - 1) : l \in Layers
BY Constants DEF Progress, Layers, Positions

\* The pages up to that of a position exist.
LEMMA PagesUpTo ==
  ASSUME NEW pos \in Positions
  PROVE  /\ page_id(pos) \in Pages /\ 0 \in Pages
         /\ \A p \in 0..page_id(pos) : p \in Pages
<1>1. page_id(pos) \in Pages
  BY BlockOfPosition
<1>2. QED
  BY <1>1, KVPagesAssumption DEF KVPagesAssumption, Pages, total_pages, Zones

\* The positions of the chunk are positions of the cache.
LEMMA ChunkPositions ==
  ASSUME Progress, NEW pos \in offset..(ChunkEnd - 1)
  PROVE  pos \in Positions /\ prompt # 0
BY ChunkOfPrompt DEF Positions

\* Every operation that changes the pages is one of those of KVPages.
LEMMA StepIsPaging ==
  Progress /\ [DataNext]_allVars => [Next]_vars
<1> SUFFICES ASSUME Progress, [DataNext]_allVars PROVE [Next]_vars
  OBVIOUS
<1>1. CASE save
  <2>1. current_pos \in Positions
    BY <1>1, NextOfDecoding DEF save
  <2>2. QED
    BY <1>1, <2>1, BlockOfPosition DEF save, Next
<1>2. CASE save_at
  <2>1. at \in Positions
    BY <1>2, NextOfPrefill DEF save_at
  <2>2. QED
    BY <1>2, <2>1, BlockOfPosition DEF save_at, Next
<1>3. ASSUME NEW op, NEW l, NEW pos \in Positions, Preheat(op, l, pos)
      PROVE  [Next]_vars
  BY <1>3, PagesUpTo DEF Preheat, Next
<1>4. ASSUME NEW op, PrefillAttention(op) PROVE [Next]_vars
  <2>1. PICK pos \in offset..(ChunkEnd - 1) : Preheat(op, layer, pos)
    BY <1>4 DEF PrefillAttention
  <2>2. pos \in Positions
    BY ChunkPositions
  <2>3. QED
    BY <1>3, <2>1, <2>2
<1>5. ASSUME NEW op, DecodeAttention(op) PROVE [Next]_vars
  <2>1. layers_saved > 0 /\ Preheat(op, layers_saved - 1, current_pos)
    BY <1>5 DEF DecodeAttention
  <2>2. current_pos \in Positions
    BY <2>1, Constants DEF Progress, Positions
  <2>3. QED
    BY <1>3, <2>1, <2>2
<1>6. CASE Prefetch
  <2>1. current_pos \in Positions
    BY <1>6, NextOfDecoding DEF Prefetch
  <2>2. QED
    BY <1>6, <2>1, PagesUpTo DEF Prefetch, Next
<1>7. CASE advance \/ prefill_next
  BY <1>7 DEF advance, prefill_next
<1>8. CASE DataStep
  BY <1>8 DEF DataStep, TouchData, EvictData, AllocData, ReloadData, Next, EnsureStep
<1>9. CASE Importance
  <2>1. CASE reset_entropy
    BY <2>1 DEF Next
  <2>2. CASE layers_saved > 0 /\ \E p \in Weighted \cap 0..page_id(current_pos), w \in 1..MaxImportance :
                                    record_importance(p, w)
    <3>1. current_pos \in Positions
      BY <2>2, Constants DEF Progress, Positions
    <3>2. QED
      BY <2>2, <3>1, PagesUpTo DEF Next
  <2>3. QED
    BY <1>9, <2>1, <2>2 DEF Importance
<1>10. CASE UNCHANGED allVars
  BY <1>10 DEF allVars
<1>11. QED
  BY <1>1, <1>2, <1>4, <1>5, <1>6, <1>7, <1>8, <1>9, <1>10 DEF DataNext

\* The steps that change where the sequence is.
LEMMA PositionSteps ==
  [DataNext]_allVars => save \/ save_at \/ prefill_next \/ advance \/ UNCHANGED posVars
BY DEF DataNext, PrefillAttention, DecodeAttention, Preheat, Prefetch, DataStep, TouchData,
       EvictData, AllocData, ReloadData, Importance, allVars

\* Calls are only added: a save that was called stays called.
LEMMA SaveStaysCalled ==
  ASSUME Progress, [DataNext]_allVars, NEW l \in Layers, NEW pos \in Positions,
         SaveCalled(l, pos)
  PROVE  SaveCalled(l, pos)'
<1>1. /\ prompt \in Nat /\ offset \in Nat /\ at \in Nat /\ layer \in Nat /\ ChunkEnd \in Nat
      /\ offset <= at /\ at <= ChunkEnd /\ ChunkEnd <= prompt
      /\ current_pos \in Nat /\ layers_saved \in Nat
      /\ l \in Nat /\ pos \in Nat /\ l < NumLayers /\ NumLayers \in Nat
  BY ChunkOfPrompt, Constants DEF Layers, Positions
<1>2. CASE UNCHANGED posVars
  BY <1>2 DEF SaveCalled, ChunkEnd, posVars, prefillVars
<1>3. CASE save
  <2>1. UNCHANGED <<current_pos, prompt, offset, layer, at>> /\ layers_saved' > layers_saved
    BY <1>1, <1>3 DEF save, prefillVars
  <2>2. ChunkEnd' = ChunkEnd /\ layers_saved' \in Int
    BY <1>1, <1>3, <2>1 DEF ChunkEnd, save
  <2>3. QED
    BY <1>1, <2>1, <2>2 DEF SaveCalled
<1>4. CASE save_at
  <2>1. UNCHANGED <<current_pos, layers_saved, prompt, offset, layer>> /\ at' = at + 1
    BY <1>4 DEF save_at
  <2>2. ChunkEnd' = ChunkEnd
    BY <2>1 DEF ChunkEnd
  <2>3. QED
    BY <1>1, <2>1, <2>2 DEF SaveCalled
<1>5. CASE prefill_next
  <2>1. UNCHANGED <<current_pos, layers_saved, prompt>> /\ at = ChunkEnd
    BY <1>5 DEF prefill_next
  <2>2. CASE pos < prompt
    <3>1. CASE layer + 1 < NumLayers
      <4>1. UNCHANGED offset /\ layer' = layer + 1
        BY <1>5, <3>1 DEF prefill_next
      <4>2. ChunkEnd' = ChunkEnd
        BY <2>1, <4>1 DEF ChunkEnd
      <4>3. QED
        BY <1>1, <2>1, <2>2, <4>1, <4>2 DEF SaveCalled
    <3>2. CASE ~(layer + 1 < NumLayers)
      <4>1. offset' = ChunkEnd
        BY <1>5, <3>2 DEF prefill_next
      <4>2. pos < ChunkEnd
        BY <1>1, <2>2 DEF SaveCalled
      <4>3. QED
        BY <2>1, <2>2, <4>1, <4>2 DEF SaveCalled
    <3>3. QED
      BY <3>1, <3>2
  <2>3. CASE ~(pos < prompt)
    BY <2>1, <2>3 DEF SaveCalled
  <2>4. QED
    BY <2>2, <2>3
<1>6. CASE advance
  <2>1. UNCHANGED <<prompt, offset, layer, at>> /\ current_pos' = current_pos + 1
    BY <1>6 DEF advance, prefillVars
  <2>2. ChunkEnd' = ChunkEnd
    BY <2>1 DEF ChunkEnd
  <2>3. QED
    BY <1>1, <2>1, <2>2 DEF SaveCalled
<1>7. QED
  BY <1>2, <1>3, <1>4, <1>5, <1>6, PositionSteps

LEMMA ProgressStep == Progress /\ JobInv /\ [DataNext]_allVars => Progress'
<1> SUFFICES ASSUME Progress, JobInv, [DataNext]_allVars PROVE Progress'
  OBVIOUS
<1>0. /\ prompt \in Nat /\ offset \in Nat /\ at \in Nat /\ layer \in Nat /\ ChunkEnd \in Nat
      /\ offset <= at /\ at <= ChunkEnd /\ ChunkEnd <= prompt /\ prompt <= MaxSeqLen
      /\ current_pos \in Nat /\ layers_saved \in Nat /\ NumLayers \in Nat /\ MaxSeqLen \in Nat
      /\ layer < NumLayers
  BY ChunkOfPrompt
<1>1. CASE UNCHANGED posVars
  BY <1>1 DEF Progress, PrefillDone, ChunkEnd, posVars, prefillVars
<1>2. CASE save
  <2>1. UNCHANGED <<current_pos, prompt, offset, layer, at>> /\ layers_saved' \in 0..NumLayers
    BY <1>0, <1>2 DEF save, prefillVars
  <2>2. PrefillDone /\ prompt <= current_pos /\ current_pos < MaxSeqLen
    BY <1>2 DEF save
  <2>3. QED
    BY <2>1, <2>2 DEF Progress, PrefillDone, ChunkEnd
<1>3. CASE save_at
  <2>1. UNCHANGED <<current_pos, layers_saved, prompt, offset, layer>> /\ at' = at + 1 /\ at < ChunkEnd
    BY <1>3 DEF save_at
  <2>2. ChunkEnd' = ChunkEnd /\ (PrefillDone' <=> PrefillDone)
    BY <2>1 DEF ChunkEnd, PrefillDone
  <2>3. at' \in offset..ChunkEnd
    BY <1>0, <2>1
  <2>4. QED
    BY <2>1, <2>2, <2>3 DEF Progress
<1>4. CASE prefill_next
  <2>1. /\ UNCHANGED <<current_pos, layers_saved, prompt>> /\ ~PrefillDone /\ at = ChunkEnd
        /\ layer' \in Layers
    BY <1>0, <1>4, Constants DEF prefill_next, Layers
  <2>2. current_pos = 0 /\ layers_saved = 0
    BY <1>0, <2>1 DEF Progress
  <2>3. CASE layer + 1 < NumLayers
    <3>1. UNCHANGED offset /\ at' = offset
      BY <1>4, <2>3 DEF prefill_next
    <3>2. ChunkEnd' = ChunkEnd
      BY <2>1, <3>1 DEF ChunkEnd
    <3>3. at' \in offset..ChunkEnd
      BY <1>0, <3>1
    <3>4. QED
      BY <2>1, <2>2, <3>1, <3>2, <3>3 DEF Progress
  <2>4. CASE ~(layer + 1 < NumLayers)
    <3>1. offset' = ChunkEnd /\ UNCHANGED at
      BY <1>4, <2>4 DEF prefill_next
    <3>2. PICK c \in Nat : c = ChunkEnd
      BY <1>0
    <3>3. offset' = c /\ at' = c /\ c <= prompt
      BY <1>0, <2>1, <3>1, <3>2
    <3>4. ChunkEnd' \in Nat /\ c <= ChunkEnd'
      BY <1>0, <2>1, <3>3, Constants DEF ChunkEnd
    <3>5. at' \in offset'..ChunkEnd' /\ offset' \in 0..prompt
      BY <1>0, <3>3, <3>4
    <3>6. QED
      BY <2>1, <2>2, <3>5 DEF Progress
  <2>5. QED
    BY <2>3, <2>4
<1>5. CASE advance
  <2>1. UNCHANGED <<prompt, offset, layer, at>> /\ current_pos' = current_pos + 1 /\ layers_saved' = 0
        /\ PrefillDone /\ current_pos < MaxSeqLen
    BY <1>5 DEF advance, prefillVars
  <2>2. ChunkEnd' = ChunkEnd /\ PrefillDone'
    BY <2>1 DEF ChunkEnd, PrefillDone
  <2>3. current_pos' \in 0..MaxSeqLen /\ layers_saved' \in 0..NumLayers /\ ~(layers_saved' > 0)
    BY <1>0, <2>1
  <2>4. QED
    BY <2>1, <2>2, <2>3 DEF Progress
<1>6. QED
  BY <1>1, <1>2, <1>3, <1>4, <1>5, PositionSteps

----------------------------------------------------------------------------
(* What the steps do to the contents *)

LEMMA BlocksOf ==
  /\ \A v \in Vals : BlockOf(v) \in Blocks /\ dequant_block(BlockOf(v)) = v
  /\ BlockOf(Zero) = ZeroBlock /\ ZeroBlock \in Blocks /\ dequant_block(ZeroBlock) = Zero
  /\ \A b \in Blocks : dequant_block(b) \in Contents
  /\ \A b \in Blocks, v \in Vals : quantize_block(b, v) \in Blocks
  /\ \A v \in Vals : quantize_block(ZeroBlock, v) = BlockOf(v)
  /\ GarbageBlock \in Blocks
<1>1. ASSUME NEW v \in Vals PROVE BlockOf(v) \in Blocks /\ dequant_block(BlockOf(v)) = v
  <2>1. v # Zero /\ BlockOf(v) = [head |-> v, nib |-> Bits(v)]
    BY Constants DEF BlockOf
  <2>2. Bits(v) \in SUBSET Nibbles
    BY DEF Nibbles
  <2>3. QED
    BY <2>1, <2>2 DEF Blocks, Contents, dequant_block
<1>2. BlockOf(Zero) = ZeroBlock /\ ZeroBlock \in Blocks /\ dequant_block(ZeroBlock) = Zero
  BY Constants DEF BlockOf, ZeroBlock, Blocks, Contents, dequant_block
<1>3. \A b \in Blocks : dequant_block(b) \in Contents
  BY DEF Blocks, Contents, dequant_block
<1>4. ASSUME NEW b \in Blocks, NEW v \in Vals PROVE quantize_block(b, v) \in Blocks
  <2>1. Bits(v) \in SUBSET Nibbles
    BY DEF Nibbles
  <2>2. b.nib \in SUBSET Nibbles
    BY DEF Blocks
  <2>3. QED
    BY <2>1, <2>2 DEF quantize_block, Blocks, Contents
<1>5. ASSUME NEW v \in Vals PROVE quantize_block(ZeroBlock, v) = BlockOf(v)
  <2>1. v # Zero
    BY Constants
  <2>2. {} \cup Bits(v) = Bits(v)
    OBVIOUS
  <2>3. QED
    BY <2>1, <2>2 DEF quantize_block, ZeroBlock, BlockOf
<1>6. GarbageBlock \in Blocks
  BY DEF GarbageBlock, Blocks, Contents, Nibbles
<1>7. QED
  BY <1>1, <1>2, <1>3, <1>4, <1>5, <1>6

\* The block and the copy of every page but the one written to are left alone.
LEMMA WriteEffect ==
  ASSUME Shapes, JobInv, job.op \in {"save", "save_at"}, WriteBlock
  PROVE  LET p == page_id(job.pos)
             l == job.layer
             i == slot_in_page(job.pos)
         IN  /\ Shapes'
             /\ \A q \in Pages : \A k \in Layers, j \in InPage(q) :
                  /\ q4'[q][k][j] = IF q = p /\ k = l /\ j = i
                                    THEN quantize_block(q4[q][k][j], job.val) ELSE q4[q][k][j]
                  /\ f32[q] # None =>
                       f32'[q][k][j] = IF job.op = "save" /\ q = p /\ k = l /\ j = i
                                       THEN job.val ELSE f32[q][k][j]
             /\ \A q \in Pages : f32[q] = None => f32'[q] = None
             /\ \A k \in Layers, pos \in Positions :
                  saved'[k][pos] = IF k = l /\ pos = job.pos THEN job.val ELSE saved[k][pos]
<1> DEFINE p == page_id(job.pos)
           l == job.layer
           i == slot_in_page(job.pos)
           v == job.val
<1>1. /\ job.pos \in Positions /\ l \in Layers /\ v \in Vals
      /\ p \in Pages /\ i \in InPage(p)
  BY BlockOfPosition DEF JobInv
<1>2. /\ q4' = [q4 EXCEPT ![p] = [q4[p] EXCEPT ![l] =
                             [q4[p][l] EXCEPT ![i] = quantize_block(q4[p][l][i], v)]]]
      /\ f32' = IF job.op = "save" /\ f32[p] # None
                THEN [f32 EXCEPT ![p] = [f32[p] EXCEPT ![l] = [f32[p][l] EXCEPT ![i] = v]]]
                ELSE f32
      /\ saved' = [saved EXCEPT ![l] = [saved[l] EXCEPT ![job.pos] = v]]
  BY DEF WriteBlock
<1> DEFINE pos0 == job.pos
           new4 == [q4[p] EXCEPT ![l] = [q4[p][l] EXCEPT ![i] = quantize_block(q4[p][l][i], v)]]
           new32 == [f32[p] EXCEPT ![l] = [f32[p][l] EXCEPT ![i] = v]]
<1>3. /\ q4[p] \in [Layers -> [InPage(p) -> Blocks]]
      /\ f32[p] # None => f32[p] \in [Layers -> [InPage(p) -> Contents]]
      /\ DOMAIN q4 = Pages /\ DOMAIN f32 = Pages
  BY <1>1 DEF Shapes
<1> HIDE DEF p, l, i, v, pos0
<1>4. /\ new4 \in [Layers -> [InPage(p) -> Blocks]]
      /\ \A k \in Layers, j \in InPage(p) :
           new4[k][j] = IF k = l /\ j = i THEN quantize_block(q4[p][k][j], v) ELSE q4[p][k][j]
  <2>1. q4[p][l] \in [InPage(p) -> Blocks] /\ q4[p][l][i] \in Blocks
    BY <1>1, <1>3
  <2>2. quantize_block(q4[p][l][i], v) \in Blocks
    BY <1>1, <2>1, BlocksOf
  <2>3. QED
    BY <1>1, <1>3, <2>1, <2>2
<1>5. ASSUME f32[p] # None
      PROVE  /\ new32 \in [Layers -> [InPage(p) -> Contents]]
             /\ \A k \in Layers, j \in InPage(p) :
                  new32[k][j] = IF k = l /\ j = i THEN v ELSE f32[p][k][j]
  <2>1. f32[p][l] \in [InPage(p) -> Contents] /\ v \in Contents
    BY <1>1, <1>3, <1>5 DEF Contents
  <2>2. QED
    BY <1>1, <1>3, <1>5, <2>1
<1>6. q4' = [q4 EXCEPT ![p] = new4]
  BY <1>2 DEF p, l, i, v
<1>7. f32' = IF job.op = "save" /\ f32[p] # None THEN [f32 EXCEPT ![p] = new32] ELSE f32
  BY <1>2 DEF p, l, i, v
<1>8. /\ saved' \in [Layers -> [Positions -> Vals \cup {Zero}]]
      /\ \A k \in Layers, pos \in Positions :
           saved'[k][pos] = IF k = l /\ pos = job.pos THEN v ELSE saved[k][pos]
  <2>1. saved \in [Layers -> [Positions -> Vals \cup {Zero}]]
    BY DEF Shapes
  <2>2. saved[l] \in [Positions -> Vals \cup {Zero}] /\ job.pos \in Positions
    BY <1>1, <2>1
  <2>3. saved' = [saved EXCEPT ![l] = [saved[l] EXCEPT ![job.pos] = v]]
    BY <1>2 DEF l, v
  <2>4. QED
    BY <1>1, <2>1, <2>2, <2>3
<1> HIDE DEF new4, new32
<1>9. \A q \in Pages : /\ q4'[q] = IF q = p THEN new4 ELSE q4[q]
                       /\ f32'[q] = IF q = p /\ job.op = "save" /\ f32[p] # None
                                    THEN new32 ELSE f32[q]
  BY <1>1, <1>3, <1>6, <1>7
<1>10. q4' = [q \in Pages |-> q4'[q]] /\ f32' = [q \in Pages |-> f32'[q]]
  <2>1. q4 = [q \in Pages |-> q4[q]] /\ f32 = [q \in Pages |-> f32[q]]
    BY DEF Shapes
  <2>2. q4' = [q \in Pages |-> q4'[q]]
    BY <1>6, <2>1
  <2>3. f32' = [q \in Pages |-> f32'[q]]
    BY <1>7, <2>1
  <2>4. QED
    BY <2>2, <2>3
<1>11. \A q \in Pages : /\ q4'[q] \in [Layers -> [InPage(q) -> Blocks]]
                        /\ f32'[q] = None \/ f32'[q] \in [Layers -> [InPage(q) -> Contents]]
  BY <1>4, <1>5, <1>9 DEF Shapes
<1>12. Shapes'
  BY <1>8, <1>10, <1>11 DEF Shapes
<1>13. \A q \in Pages : \A k \in Layers, j \in InPage(q) :
          /\ q4'[q][k][j] = IF q = p /\ k = l /\ j = i
                            THEN quantize_block(q4[q][k][j], v) ELSE q4[q][k][j]
          /\ f32[q] # None =>
               f32'[q][k][j] = IF job.op = "save" /\ q = p /\ k = l /\ j = i
                               THEN v ELSE f32[q][k][j]
  BY <1>4, <1>5, <1>9
<1>14. \A q \in Pages : f32[q] = None => f32'[q] = None
  BY <1>9
<1>15. QED
  BY <1>8, <1>12, <1>13, <1>14 DEF p, l, i, v

\* A page of the cache replaced as a whole.
LEMMA PageReplaced ==
  ASSUME Shapes, NEW p \in Pages, NEW b \in Blocks, UNCHANGED saved,
         q4' = [q4 EXCEPT ![p] = Filled(p, b)],
         f32' = [f32 EXCEPT ![p] = None] \/ UNCHANGED f32
  PROVE  /\ Shapes'
         /\ \A q \in Pages \ {p} : q4'[q] = q4[q] /\ f32'[q] = f32[q]
         /\ \A l \in Layers, i \in InPage(p) : q4'[p][l][i] = b
<1>1. /\ Filled(p, b) \in [Layers -> [InPage(p) -> Blocks]]
      /\ \A l \in Layers, i \in InPage(p) : Filled(p, b)[l][i] = b
  BY DEF Filled
<1>2. q4 = [q \in Pages |-> q4[q]] /\ f32 = [q \in Pages |-> f32[q]]
  BY DEF Shapes
<1>3. DOMAIN q4 = Pages /\ DOMAIN f32 = Pages
  BY <1>2
<1>4. /\ \A q \in Pages \ {p} : q4'[q] = q4[q] /\ f32'[q] = f32[q]
      /\ q4'[p] = Filled(p, b) /\ (f32'[p] = None \/ UNCHANGED f32)
  BY <1>3
<1>5. q4' = [q \in Pages |-> q4'[q]] /\ f32' = [q \in Pages |-> f32'[q]]
  <2>1. q4' = [q \in Pages |-> q4'[q]]
    BY <1>2
  <2>2. f32' = [q \in Pages |-> f32'[q]]
    BY <1>2
  <2>3. QED
    BY <2>1, <2>2
<1>6. \A q \in Pages : /\ q4'[q] \in [Layers -> [InPage(q) -> Blocks]]
                       /\ f32'[q] = None \/ f32'[q] \in [Layers -> [InPage(q) -> Contents]]
  BY <1>1, <1>4 DEF Shapes
<1>7. Shapes'
  BY <1>5, <1>6 DEF Shapes
<1>8. QED
  BY <1>1, <1>4, <1>7

\* Only the FP32 copy of one page changes.
LEMMA CopyReplaced ==
  ASSUME Shapes, NEW p \in Pages, NEW c, UNCHANGED <<q4, saved>>, f32' = [f32 EXCEPT ![p] = c],
         c = None \/ c \in [Layers -> [InPage(p) -> Contents]]
  PROVE  /\ Shapes'
         /\ f32'[p] = c
         /\ \A q \in Pages \ {p} : f32'[q] = f32[q]
<1>1. f32 = [q \in Pages |-> f32[q]]
  BY DEF Shapes
<1>2. DOMAIN f32 = Pages
  BY <1>1
<1>3. f32'[p] = c /\ \A q \in Pages \ {p} : f32'[q] = f32[q]
  BY <1>2
<1>4. f32' = [q \in Pages |-> f32'[q]]
  BY <1>1
<1>5. \A q \in Pages : /\ q4'[q] \in [Layers -> [InPage(q) -> Blocks]]
                       /\ f32'[q] = None \/ f32'[q] \in [Layers -> [InPage(q) -> Contents]]
  BY <1>3 DEF Shapes
<1>6. q4' = [q \in Pages |-> q4'[q]]
  BY DEF Shapes
<1>7. Shapes'
  BY <1>4, <1>5, <1>6 DEF Shapes
<1>8. QED
  BY <1>3, <1>7

----------------------------------------------------------------------------
(* The steps *)

\* Steps that leave the pages and their contents alone.
LEMMA QuietStep ==
  ASSUME ContentsInv, [DataNext]_allVars, UNCHANGED <<dataVars, page_state, prompt>>, JobInv'
  PROVE  ContentsInv'
<1>1. Shapes'
  BY DEF ContentsInv, Shapes, dataVars
<1>2. Progress'
  BY ProgressStep DEF ContentsInv
<1>3. SavedInOrder'
  BY SaveStaysCalled DEF ContentsInv, SavedInOrder, dataVars
<1>4. Stored' /\ F32OnlyWhileHot' /\ CopiesCurrent'
  BY DEF ContentsInv, Stored, F32OnlyWhileHot, CopiesCurrent, dataVars
<1>5. QED
  BY <1>1, <1>2, <1>3, <1>4 DEF ContentsInv

\* A save is the first into its block: the calls go through layers and
\* positions in order.
LEMMA CallsStep ==
  ASSUME ContentsInv, save \/ save_at
  PROVE  ContentsInv'
<1>0. Progress /\ JobInv /\ SavedInOrder
  BY DEF ContentsInv
<1>1. [DataNext]_allVars
  BY DEF DataNext
<1>2. CASE save
  <2>1. PICK l \in layers_saved..(NumLayers - 1) :
          /\ \E v \in Vectors(l, current_pos) :
               job' = [op |-> "save", layer |-> l, pos |-> current_pos, val |-> v]
          /\ layers_saved' = l + 1
    BY <1>2 DEF save
  <2>2. /\ l \in Layers /\ current_pos \in Positions
        /\ prompt <= current_pos /\ prompt \in Nat /\ layers_saved \in Nat /\ l \in Int
        /\ layers_saved <= l
    BY <1>0, <1>2, <2>1, NextOfDecoding, ChunkOfPrompt DEF save
  <2>3. /\ stage' = "page" /\ pid' = page_id(current_pos) /\ last' = pid'
        /\ UNCHANGED <<dataVars, page_state, prompt, current_pos>>
    BY <1>2 DEF save, ensure_pages_hot, pageVars, prefillVars
  <2>4. PICK v \in Vectors(l, current_pos) :
          job' = [op |-> "save", layer |-> l, pos |-> current_pos, val |-> v]
    BY <2>1
  <2>5. v \in Vals
    BY <2>2, VectorsAreVals
  <2>6. ~SaveCalled(l, current_pos)
    BY <2>2 DEF SaveCalled, Positions
  <2>7. saved[l][current_pos] = Zero
    BY <1>0, <2>2, <2>6 DEF SavedInOrder
  <2>8. /\ job'.layer = l /\ job'.pos = current_pos
        /\ job'.op = "save" /\ job'.val = v
    BY <2>4
  <2>9. SaveCalled(job.layer, job.pos)'
    BY <2>1, <2>2, <2>3, <2>8 DEF SaveCalled, Positions
  <2>10. JobInv'
    BY <2>2, <2>3, <2>5, <2>7, <2>8, <2>9 DEF JobInv, dataVars
  <2>11. QED
    BY <1>1, <2>3, <2>10, QuietStep
<1>3. CASE save_at
  <2>1. /\ layer \in Layers /\ at \in Positions /\ at < prompt /\ prompt # 0
        /\ offset <= at /\ at < ChunkEnd /\ at \in Nat /\ offset \in Nat /\ layer \in Nat
        /\ prompt \in Nat
    BY <1>0, <1>3, NextOfPrefill, ChunkOfPrompt DEF save_at
  <2>2. /\ stage' = "page" /\ pid' = page_id(at) /\ last' = pid'
        /\ UNCHANGED <<dataVars, page_state, prompt, offset, layer>>
        /\ at' = at + 1 /\ ChunkEnd' = ChunkEnd
    BY <1>3 DEF save_at, ensure_pages_hot, pageVars, ChunkEnd
  <2>3. PICK v \in Vectors(layer, at) :
          job' = [op |-> "save_at", layer |-> layer, pos |-> at, val |-> v]
    BY <1>3 DEF save_at
  <2>4. v \in Vals
    BY <2>1, VectorsAreVals
  <2>5. ~SaveCalled(layer, at)
    BY <2>1 DEF SaveCalled
  <2>6. saved[layer][at] = Zero
    BY <1>0, <2>1, <2>5 DEF SavedInOrder
  <2>7. job'.layer = layer /\ job'.pos = at /\ job'.op = "save_at" /\ job'.val = v
    BY <2>3
  <2>8. SaveCalled(job.layer, job.pos)'
    BY <2>1, <2>2, <2>7 DEF SaveCalled
  <2>9. /\ job'.layer \in Layers /\ job'.pos \in Positions /\ pid' = page_id(job'.pos)
        /\ saved'[job'.layer][job'.pos] = Zero
    BY <2>1, <2>2, <2>6, <2>7 DEF dataVars
  <2>10. JobInv'
    BY <2>1, <2>2, <2>4, <2>7, <2>8, <2>9 DEF JobInv
  <2>11. QED
    BY <1>1, <2>2, <2>10, QuietStep
<1>4. QED
  BY <1>2, <1>3

\* A call that only has pages brought to RAM or copied.
LEMMA HeatStep ==
  ASSUME ContentsInv, [DataNext]_allVars, UNCHANGED <<dataVars, page_state, posVars>>,
         stage' = "page", NEW op \in {"hot", "f32"}, NEW l, NEW pos,
         job' = [op |-> op, layer |-> l, pos |-> pos, val |-> Zero],
         op = "f32" /\ prompt = 0 => l \in Layers /\ pos \in Positions
  PROVE  ContentsInv'
<1>1. job'.op = op /\ job'.layer = l /\ job'.pos = pos
  OBVIOUS
<1>2. UNCHANGED prompt
  BY DEF posVars, prefillVars
<1>3. JobInv'
  BY <1>1, <1>2 DEF JobInv
<1>4. QED
  BY <1>2, <1>3, QuietStep

\* Attention, prefetching, the next chunk, advance and the importance of pages change no
\* contents.
LEMMA OtherCallsStep ==
  ASSUME ContentsInv, [DataNext]_allVars,
         \/ \E op \in {"hot", "f32"} : PrefillAttention(op) \/ DecodeAttention(op)
         \/ Prefetch \/ prefill_next \/ advance \/ Importance \/ UNCHANGED allVars
  PROVE  ContentsInv'
<1>0. Progress /\ JobInv
  BY DEF ContentsInv
<1>1. ASSUME NEW op \in {"hot", "f32"}, DecodeAttention(op) PROVE ContentsInv'
  <2>1. layers_saved > 0 /\ Preheat(op, layers_saved - 1, current_pos)
    BY <1>1 DEF DecodeAttention
  <2>2. layers_saved - 1 \in Layers /\ current_pos \in Positions
    BY <1>0, <2>1, Constants DEF Progress, Layers, Positions
  <2>3. /\ stage' = "page" /\ UNCHANGED <<dataVars, page_state, posVars>>
        /\ job' = [op |-> op, layer |-> layers_saved - 1, pos |-> current_pos, val |-> Zero]
    BY <2>1 DEF Preheat, ensure_pages_hot, pageVars
  <2>4. QED
    BY <2>2, <2>3, HeatStep
<1>2. ASSUME NEW op \in {"hot", "f32"}, PrefillAttention(op) PROVE ContentsInv'
  <2>1. PICK pos \in offset..(ChunkEnd - 1) : Preheat(op, layer, pos)
    BY <1>2 DEF PrefillAttention
  <2>2. prompt # 0
    BY <1>0, <2>1, ChunkPositions
  <2>3. /\ stage' = "page" /\ UNCHANGED <<dataVars, page_state, posVars>>
        /\ job' = [op |-> op, layer |-> layer, pos |-> pos, val |-> Zero]
    BY <2>1 DEF Preheat, ensure_pages_hot, pageVars
  <2>4. QED
    BY <2>2, <2>3, HeatStep
<1>3. CASE Prefetch
  <2>1. /\ stage' = "page" /\ UNCHANGED <<dataVars, page_state, posVars>>
        /\ job' = [op |-> "hot", layer |-> 0, pos |-> current_pos, val |-> Zero]
    BY <1>3 DEF Prefetch, ensure_pages_hot, pageVars
  <2>2. PICK op \in {"hot", "f32"} : op = "hot"
    OBVIOUS
  <2>3. job' = [op |-> op, layer |-> 0, pos |-> current_pos, val |-> Zero]
        /\ ~(op = "f32" /\ prompt = 0)
    BY <2>1, <2>2
  <2>4. QED
    BY <2>1, <2>3, HeatStep
<1>4. CASE advance \/ prefill_next
  <2>1. UNCHANGED <<dataVars, page_state, prompt, stage, job>> /\ stage = "idle"
    BY <1>4 DEF advance, prefill_next, vars, pageVars, callVars, prefillVars
  <2>2. JobInv'
    BY <1>0, <2>1 DEF JobInv
  <2>3. QED
    BY <2>1, <2>2, QuietStep
<1>5. CASE Importance \/ UNCHANGED allVars
  <2>1. UNCHANGED <<dataVars, page_state, posVars, callVars, job>>
    BY <1>5 DEF Importance, record_importance, reset_entropy, pageVars, allVars, vars
  <2>2. UNCHANGED <<prompt, offset, layer, at, current_pos, layers_saved, stage, pid, last, saved, job>>
    BY <2>1 DEF posVars, prefillVars, callVars, dataVars
  <2>3. JobInv'
    BY <1>0, <2>2 DEF JobInv, SaveCalled, ChunkEnd
  <2>4. QED
    BY <2>1, <2>2, <2>3, QuietStep
<1>6. QED
  BY <1>1, <1>2, <1>3, <1>4, <1>5

\* The page that the call has come to is hot: a save writes its block, the
\* attention kernels get their copy.
LEMMA TouchStep ==
  ASSUME IInv, ContentsInv, TouchData
  PROVE  ContentsInv'
<1>0. /\ Shapes /\ Progress /\ SavedInOrder /\ JobInv /\ Stored
      /\ F32OnlyWhileHot /\ CopiesCurrent
  BY DEF ContentsInv
<1>1. /\ stage = "page" /\ pid \in Pages /\ page_state[pid] = Hot
      /\ UNCHANGED <<page_state, posVars>>
  BY DEF TouchData, EnsureTouch, IInv, TypeOK, pageVars
<1>2. IF pid = last THEN stage' = "idle" /\ job' = NoJob
      ELSE UNCHANGED <<stage, last, job>>
  BY DEF TouchData, EnsureTouch
<1>3. Progress'
  BY <1>0, <1>1 DEF Progress, PrefillDone, ChunkEnd, posVars, prefillVars
<1>4. CASE job.op \in {"save", "save_at"}
  <2> DEFINE p == page_id(job.pos)
             l == job.layer
             i == slot_in_page(job.pos)
  <2>1. WriteBlock /\ UNCHANGED torn
    BY <1>4 DEF TouchData, WriteBlock
  <2>2. /\ l \in Layers /\ job.pos \in Positions /\ job.val \in Vals
        /\ pid = p /\ last = pid /\ SaveCalled(l, job.pos) /\ saved[l][job.pos] = Zero
        /\ p \in Pages /\ i \in InPage(p)
    BY <1>0, <1>4, BlockOfPosition DEF JobInv
  <2>3. JobInv'
    BY <1>2, <2>2 DEF JobInv, NoJob
  <2>4. /\ Shapes'
        /\ \A q \in Pages : \A k \in Layers, j \in InPage(q) :
             /\ q4'[q][k][j] = IF q = p /\ k = l /\ j = i
                               THEN quantize_block(q4[q][k][j], job.val) ELSE q4[q][k][j]
             /\ f32[q] # None =>
                  f32'[q][k][j] = IF job.op = "save" /\ q = p /\ k = l /\ j = i
                                  THEN job.val ELSE f32[q][k][j]
        /\ \A q \in Pages : f32[q] = None => f32'[q] = None
        /\ \A k \in Layers, pos \in Positions :
             saved'[k][pos] = IF k = l /\ pos = job.pos THEN job.val ELSE saved[k][pos]
    BY <1>0, <1>4, <2>1, WriteEffect
  <2> HIDE DEF p, l, i
  <2>5. p \notin torn => q4[p][l][i] = ZeroBlock
    BY <1>0, <2>2, BlocksOf DEF Stored, p, i
  <2>6. SavedInOrder'
    <3> SUFFICES ASSUME NEW k \in Layers, NEW pos \in Positions, saved'[k][pos] # Zero
                 PROVE  SaveCalled(k, pos)'
      BY DEF SavedInOrder
    <3>1. SaveCalled(k, pos)
      BY <1>0, <2>2, <2>4 DEF SavedInOrder
    <3>2. QED
      BY <1>1, <3>1 DEF SaveCalled, ChunkEnd, posVars, prefillVars
  <2>7. Stored'
    <3> SUFFICES ASSUME NEW k \in Layers, NEW pos \in Positions
                 PROVE  /\ page_id(pos) \notin torn =>
                             q4'[page_id(pos)][k][slot_in_page(pos)] = BlockOf(saved'[k][pos])
                        /\ saved'[k][pos] # Zero => page_state'[page_id(pos)] # Absent
      BY <2>1 DEF Stored
    <3>1. page_id(pos) \in Pages /\ slot_in_page(pos) \in InPage(page_id(pos))
      BY BlockOfPosition
    <3>2. CASE k = l /\ pos = job.pos
      <4>1. saved'[k][pos] = job.val
        BY <2>4, <3>2
      <4>2. p \notin torn => q4'[p][k][i] = quantize_block(ZeroBlock, job.val)
        BY <2>2, <2>4, <2>5, <3>2
      <4>3. page_state'[p] # Absent
        BY <1>1, <2>2, Sentinels
      <4>4. QED
        BY <2>2, <3>2, <4>1, <4>2, <4>3, BlocksOf DEF p, i
    <3>3. CASE ~(k = l /\ pos = job.pos)
      <4>1. saved'[k][pos] = saved[k][pos]
        BY <2>4, <3>3
      <4>2. ~(page_id(pos) = p /\ k = l /\ slot_in_page(pos) = i)
        BY <2>2, <3>3, BlockIsOwn DEF p, i
      <4>3. q4'[page_id(pos)][k][slot_in_page(pos)] = q4[page_id(pos)][k][slot_in_page(pos)]
        BY <2>4, <3>1, <4>2
      <4>4. QED
        BY <1>0, <1>1, <4>1, <4>3 DEF Stored
    <3>4. QED
      BY <3>2, <3>3
  <2>8. F32OnlyWhileHot'
    BY <1>0, <1>1, <2>4 DEF F32OnlyWhileHot
  <2>9. CopiesCurrent'
    <3> SUFFICES ASSUME prompt = 0, NEW q \in Pages \ torn, f32'[q] # None,
                        NEW k \in Layers, NEW j \in InPage(q)
                 PROVE  f32'[q][k][j] = dequant_block(q4'[q][k][j])
      BY <1>1, <2>1 DEF CopiesCurrent, posVars, prefillVars
    <3>1. job.op = "save" /\ f32[q] # None
      BY <1>0, <1>4, <2>4 DEF JobInv
    <3>2. f32[q][k][j] = dequant_block(q4[q][k][j])
      BY <1>0, <3>1 DEF CopiesCurrent
    <3>3. CASE q = p /\ k = l /\ j = i
      <4>1. q4'[q][k][j] = BlockOf(job.val)
        BY <2>2, <2>4, <2>5, <3>3, BlocksOf
      <4>2. f32'[q][k][j] = job.val
        BY <2>4, <3>1, <3>3
      <4>3. QED
        BY <2>2, <4>1, <4>2, BlocksOf
    <3>4. CASE ~(q = p /\ k = l /\ j = i)
      BY <2>4, <3>1, <3>2, <3>4
    <3>5. QED
      BY <3>3, <3>4
  <2>10. QED
    BY <1>3, <2>3, <2>4, <2>6, <2>7, <2>8, <2>9 DEF ContentsInv
<1>5. ASSUME UNCHANGED saved, job.op \notin {"save", "save_at"}
      PROVE  JobInv' /\ SavedInOrder'
  <2>1. JobInv'
    BY <1>0, <1>1, <1>2, <1>5 DEF JobInv, NoJob, posVars, prefillVars
  <2>2. SavedInOrder'
    BY <1>0, <1>1, <1>5 DEF SavedInOrder, SaveCalled, ChunkEnd, posVars, prefillVars
  <2>3. QED
    BY <2>1, <2>2
<1>6. CASE job.op = "f32" /\ f32[pid] = None
  <2>1. f32' = [f32 EXCEPT ![pid] = Dequantized(pid)] /\ UNCHANGED <<q4, saved, torn>>
    BY <1>6 DEF TouchData, EnsureF32
  <2>2. /\ Dequantized(pid) \in [Layers -> [InPage(pid) -> Contents]]
        /\ \A k \in Layers, j \in InPage(pid) :
             Dequantized(pid)[k][j] = dequant_block(q4[pid][k][j])
    <3>1. \A k \in Layers, j \in InPage(pid) : q4[pid][k][j] \in Blocks
      BY <1>0, <1>1 DEF Shapes
    <3>2. \A k \in Layers, j \in InPage(pid) : dequant_block(q4[pid][k][j]) \in Contents
      BY <3>1, BlocksOf
    <3>3. QED
      BY <3>2 DEF Dequantized
  <2>3. /\ Shapes' /\ f32'[pid] = Dequantized(pid)
        /\ \A q \in Pages \ {pid} : f32'[q] = f32[q]
    BY <1>0, <1>1, <2>1, <2>2, CopyReplaced
  <2>4. Stored'
    BY <1>0, <1>1, <2>1 DEF Stored
  <2>5. F32OnlyWhileHot'
    BY <1>0, <1>1, <2>3 DEF F32OnlyWhileHot
  <2>6. CopiesCurrent'
    BY <1>0, <1>1, <2>1, <2>2, <2>3 DEF CopiesCurrent, posVars, prefillVars
  <2>7. QED
    BY <1>3, <1>5, <1>6, <2>1, <2>3, <2>4, <2>5, <2>6 DEF ContentsInv
<1>7. CASE job.op \notin {"save", "save_at"} /\ ~(job.op = "f32" /\ f32[pid] = None)
  <2>1. UNCHANGED dataVars
    BY <1>7 DEF TouchData, EnsureF32, dataVars
  <2>2. Shapes' /\ Stored' /\ F32OnlyWhileHot' /\ CopiesCurrent'
    BY <1>0, <1>1, <2>1
       DEF Shapes, Stored, F32OnlyWhileHot, CopiesCurrent, dataVars, posVars, prefillVars
  <2>3. QED
    BY <1>3, <1>5, <1>7, <2>1, <2>2 DEF ContentsInv, dataVars
<1>8. QED
  BY <1>4, <1>6, <1>7

\* Inside a call, progress, job and history stand still.
LEMMA InsideCall ==
  ASSUME ContentsInv, UNCHANGED <<saved, posVars, job, pid, last>>, stage # "idle", stage' # "idle"
  PROVE  Progress' /\ SavedInOrder' /\ JobInv'
<1>1. Progress'
  BY DEF ContentsInv, Progress, PrefillDone, ChunkEnd, posVars, prefillVars
<1>2. SavedInOrder'
  BY DEF ContentsInv, SavedInOrder, SaveCalled, ChunkEnd, posVars, prefillVars
<1>3. JobInv'
  BY DEF ContentsInv, JobInv, SaveCalled, ChunkEnd, posVars, prefillVars
<1>4. QED
  BY <1>1, <1>2, <1>3

LEMMA RoomStep ==
  ASSUME ContentsInv, EnsureRoom \/ EvictScan, UNCHANGED <<dataVars, posVars, job>>
  PROVE  ContentsInv'
<1>1. /\ stage # "idle" /\ stage' # "idle"
      /\ UNCHANGED <<page_state, pid, last>>
  BY DEF EnsureRoom, RoomFor, EvictScan, pageVars, callVars
<1>2. Progress' /\ SavedInOrder' /\ JobInv'
  BY <1>1, InsideCall DEF dataVars
<1>3. Shapes' /\ Stored' /\ F32OnlyWhileHot' /\ CopiesCurrent'
  BY <1>1
     DEF ContentsInv, Shapes, Stored, F32OnlyWhileHot, CopiesCurrent, dataVars, posVars, prefillVars
<1>4. QED
  BY <1>2, <1>3 DEF ContentsInv

\* The copy of an evicted page goes with it.
LEMMA EvictStep ==
  ASSUME IInv, ContentsInv, EvictData
  PROVE  ContentsInv'
<1>0. Shapes /\ Stored /\ F32OnlyWhileHot /\ CopiesCurrent
  BY DEF ContentsInv
<1>1. /\ stage = "scan" /\ stage' = "insert" /\ best \in Pages
      /\ UNCHANGED <<q4, saved, posVars, job, pid, last>>
  BY DEF EvictData, EvictWrite, IInv, TypeOK
<1>2. Progress' /\ SavedInOrder' /\ JobInv'
  BY <1>1, InsideCall
<1>3. CASE ColdCapacity = 0
  <2>1. UNCHANGED <<f32, torn, page_state>>
    BY <1>3 DEF EvictData, EvictWrite, pageVars
  <2>2. Shapes' /\ Stored' /\ F32OnlyWhileHot' /\ CopiesCurrent'
    BY <1>0, <1>1, <2>1 DEF Shapes, Stored, F32OnlyWhileHot, CopiesCurrent, posVars, prefillVars
  <2>3. QED
    BY <1>2, <2>2 DEF ContentsInv
<1>4. CASE ColdCapacity # 0
  <2>1. f32' = [f32 EXCEPT ![best] = None] /\ torn \subseteq torn'
    BY <1>4 DEF EvictData
  <2>2. Shapes' /\ f32'[best] = None /\ \A q \in Pages \ {best} : f32'[q] = f32[q]
    BY <1>0, <1>1, <2>1, CopyReplaced
  <2>3. PICK s \in Slots : page_state' = [page_state EXCEPT ![best] = s]
    BY <1>4 DEF EvictData, EvictWrite, EvictTo
  <2>4. \A q \in Pages : page_state'[q] = IF q = best THEN s ELSE page_state[q]
    BY <2>3 DEF IInv, TypeOK
  <2>5. Stored'
    BY <1>0, <1>1, <2>1, <2>4, Sentinels, BlockOfPosition DEF Stored
  <2>6. F32OnlyWhileHot'
    BY <1>0, <2>2, <2>4 DEF F32OnlyWhileHot
  <2>7. CopiesCurrent'
    BY <1>0, <1>1, <2>1, <2>2 DEF CopiesCurrent, posVars, prefillVars
  <2>8. QED
    BY <1>2, <2>2, <2>5, <2>6, <2>7 DEF ContentsInv
<1>5. QED
  BY <1>3, <1>4

\* Only a page that was never saved to is allocated and zeroed.
LEMMA AllocStep ==
  ASSUME IInv, ContentsInv, AllocData
  PROVE  ContentsInv'
<1> DEFINE z == resolve_flat(pid)
           p == zone_page_offsets(z) + npages[z]
<1>0. Shapes /\ Stored /\ F32OnlyWhileHot /\ CopiesCurrent
  BY DEF ContentsInv
<1>1. /\ stage = "insert" /\ stage' = "page" /\ page_state[pid] = Absent
      /\ UNCHANGED <<saved, torn, posVars, job, pid, last>>
      /\ q4' = [q4 EXCEPT ![p] = Filled(p, ZeroBlock)] /\ f32' = [f32 EXCEPT ![p] = None]
      /\ page_state' = [page_state EXCEPT ![p] = Hot]
  BY DEF AllocData, EnsureAlloc
<1>2. p \in Pages /\ page_state[p] = Absent
  BY <1>1, NextPage DEF IInv
<1>3. Progress' /\ SavedInOrder' /\ JobInv'
  BY <1>1, InsideCall
<1> HIDE DEF p
<1>4. /\ Shapes'
      /\ \A q \in Pages \ {p} : q4'[q] = q4[q] /\ f32'[q] = f32[q]
      /\ \A l \in Layers, i \in InPage(p) : q4'[p][l][i] = ZeroBlock
      /\ f32'[p] = None
  <2>1. f32'[p] = None
    BY <1>0, <1>1, <1>2 DEF Shapes
  <2>2. QED
    BY <1>0, <1>1, <1>2, <2>1, BlocksOf, PageReplaced
<1>5. \A q \in Pages : page_state'[q] = IF q = p THEN Hot ELSE page_state[q]
  BY <1>1, <1>2 DEF IInv, TypeOK
<1>6. Stored'
  <2> SUFFICES ASSUME NEW l \in Layers, NEW pos \in Positions
               PROVE  /\ page_id(pos) \notin torn =>
                           q4'[page_id(pos)][l][slot_in_page(pos)] = BlockOf(saved'[l][pos])
                      /\ saved'[l][pos] # Zero => page_state'[page_id(pos)] # Absent
    BY <1>1 DEF Stored
  <2>1. page_id(pos) \in Pages /\ slot_in_page(pos) \in InPage(page_id(pos))
    BY BlockOfPosition
  <2>2. CASE page_id(pos) = p
    <3>1. saved[l][pos] = Zero
      BY <1>0, <1>2, <2>2 DEF Stored
    <3>2. q4'[page_id(pos)][l][slot_in_page(pos)] = ZeroBlock
      BY <1>4, <2>1, <2>2
    <3>3. QED
      BY <1>1, <3>1, <3>2, BlocksOf
  <2>3. CASE page_id(pos) # p
    BY <1>0, <1>1, <1>4, <1>5, <2>1, <2>3 DEF Stored
  <2>4. QED
    BY <2>2, <2>3
<1>7. F32OnlyWhileHot'
  BY <1>0, <1>4, <1>5 DEF F32OnlyWhileHot
<1>8. CopiesCurrent'
  BY <1>0, <1>1, <1>4 DEF CopiesCurrent, posVars, prefillVars
<1>9. QED
  BY <1>3, <1>4, <1>6, <1>7, <1>8 DEF ContentsInv

\* The file has the image of the page, so the reload brings it back; of a torn page it
\* brings what the file holds.
LEMMA ReloadStep ==
  ASSUME IInv, WholeImages, ContentsInv, ReloadData
  PROVE  ContentsInv'
<1>0. Shapes /\ Stored /\ F32OnlyWhileHot /\ CopiesCurrent
  BY DEF ContentsInv
<1>1. /\ stage = "insert" /\ stage' = "page" /\ pid \in Pages
      /\ page_state[pid] \in Slots /\ page_state' = [page_state EXCEPT ![pid] = Hot]
      /\ UNCHANGED <<f32, saved, torn, posVars, job, pid, last>>
  BY DEF ReloadData, EnsureReload, IInv, TypeOK
<1>2. \/ UNCHANGED q4
      \/ pid \in torn /\ q4' = [q4 EXCEPT ![pid] = Filled(pid, GarbageBlock)]
  <2>1. pid \notin torn => \A u \in Region(resolve_flat(pid), page_state[pid]) : cold_file[u] = pid
    BY <1>1 DEF WholeImages, ColdPages
  <2>2. QED
    BY <2>1 DEF ReloadData
<1>3. Progress' /\ SavedInOrder' /\ JobInv'
  BY <1>1, InsideCall
<1>4. \A q \in Pages : page_state'[q] = IF q = pid THEN Hot ELSE page_state[q]
  BY <1>1 DEF IInv, TypeOK
<1>5. Shapes' /\ \A q \in Pages \ torn : q4'[q] = q4[q]
  <2>1. CASE UNCHANGED q4
    BY <1>0, <1>1, <2>1 DEF Shapes
  <2>2. CASE pid \in torn /\ q4' = [q4 EXCEPT ![pid] = Filled(pid, GarbageBlock)]
    BY <1>0, <1>1, <2>2, BlocksOf, PageReplaced
  <2>3. QED
    BY <1>2, <2>1, <2>2
<1>6. CopiesCurrent'
  BY <1>0, <1>1, <1>5 DEF CopiesCurrent, posVars, prefillVars
<1>7. Stored' /\ F32OnlyWhileHot'
  BY <1>0, <1>1, <1>4, <1>5, Sentinels, BlockOfPosition DEF Stored, F32OnlyWhileHot
<1>8. QED
  BY <1>3, <1>5, <1>6, <1>7 DEF ContentsInv

LEMMA ContentsStep ==
  IInv /\ WholeImages /\ ContentsInv /\ [DataNext]_allVars => ContentsInv'
<1> SUFFICES ASSUME IInv, WholeImages, ContentsInv, [DataNext]_allVars PROVE ContentsInv'
  OBVIOUS
<1>1. CASE save \/ save_at
  BY <1>1, CallsStep
<1>2. CASE \/ \E op \in {"hot", "f32"} : PrefillAttention(op) \/ DecodeAttention(op)
           \/ Prefetch \/ prefill_next \/ advance \/ Importance \/ UNCHANGED allVars
  BY <1>2, OtherCallsStep
<1>3. CASE DataStep
  BY <1>3, TouchStep, EvictStep, AllocStep, ReloadStep, RoomStep DEF DataStep
<1>4. QED
  BY <1>1, <1>2, <1>3 DEF DataNext

LEMMA ContentsInit == DataInit => ContentsInv
<1> SUFFICES ASSUME DataInit PROVE ContentsInv
  OBVIOUS
<1>1. \A p \in Pages : /\ q4[p] \in [Layers -> [InPage(p) -> Blocks]]
                       /\ \A l \in Layers, i \in InPage(p) : q4[p][l][i] = ZeroBlock
  BY BlocksOf DEF DataInit, Filled
<1>2. Shapes
  BY <1>1 DEF DataInit, Shapes
<1>3. Progress
  <2>1. prompt \in 0..MaxSeqLen /\ prompt \in Nat
    BY Constants DEF DataInit
  <2>2. offset = 0 /\ at = 0 /\ layer = 0 /\ current_pos = 0 /\ layers_saved = 0
    BY DEF DataInit
  <2>3. ChunkEnd \in Nat /\ 0 \in Layers
    BY <2>1, <2>2, Constants DEF ChunkEnd, Layers
  <2>4. QED
    BY <2>1, <2>2, <2>3, Constants DEF Progress
<1>4. saved = [l \in Layers |-> [pos \in Positions |-> Zero]]
  BY DEF DataInit
<1>5. SavedInOrder
  BY <1>4 DEF SavedInOrder
<1>6. Stored
  BY <1>1, <1>4, BlockOfPosition, BlocksOf DEF Stored
<1>7. JobInv
  BY DEF DataInit, Init, JobInv, NoJob
<1>8. F32OnlyWhileHot /\ CopiesCurrent
  BY DEF DataInit, F32OnlyWhileHot, CopiesCurrent
<1>9. QED
  BY <1>2, <1>3, <1>5, <1>6, <1>7, <1>8 DEF ContentsInv

LEMMA ContentsImply == SlotsOwned /\ ContentsInv => DataInv
<1> SUFFICES ASSUME SlotsOwned, ContentsInv PROVE DataInv
  OBVIOUS
<1>1. DataTypeOK
  BY DEF ContentsInv, Shapes, Progress, JobInv, DataTypeOK, Contents
<1>2. SavedIsKept
  <2> SUFFICES ASSUME NEW l \in Layers, NEW pos \in Positions, saved[l][pos] # Zero,
                      page_id(pos) \notin torn
               PROVE  dequant_block(q4[page_id(pos)][l][slot_in_page(pos)]) = saved[l][pos]
    BY DEF SavedIsKept
  <2>1. saved[l][pos] \in Vals
    BY DEF ContentsInv, Shapes
  <2>2. QED
    BY <2>1, BlocksOf DEF ContentsInv, Stored
<1>3. QED
  BY <1>1, <1>2 DEF DataInv, ContentsInv

----------------------------------------------------------------------------
(* The images on the file *)

\* Only the eviction counts pages as torn.
LEMMA TornStands ==
  [DataNext]_allVars => EvictData \/ UNCHANGED torn
BY DEF DataNext, save, save_at, prefill_next, PrefillAttention, DecodeAttention, Preheat, Prefetch,
       advance, DataStep, TouchData, WriteBlock, EnsureF32, AllocData, ReloadData, Importance,
       allVars, dataVars

\* An eviction writes over images of other zones only, and these pages count as torn.
LEMMA EvictKeepsImages ==
  ASSUME IInv, CountInv, SlotsOwned, WholeImages, SlotLeft, EvictData
  PROVE  WholeImages'
<1>1. CASE ColdCapacity = 0
  BY <1>1 DEF EvictData, EvictWrite, pageVars, coldVars, WholeImages, ColdPages
<1>2. CASE ColdCapacity # 0
  <2> DEFINE z == resolve_flat(pid)
  <2>1. PICK s \in FreeSlots : EvictTo(z, s) /\ best \in HotPages(z) /\ z \in Zones
    BY <1>2, EvictsToFree DEF EvictData
  <2>2. /\ s \in Slots /\ ~cold_slot_used[s]
        /\ best \in Pages /\ best \notin ColdPages /\ resolve_flat(best) = z
    BY <2>1, Sentinels DEF FreeSlots, HotPages, ColdPages
  <2>3. /\ page_state' = [page_state EXCEPT ![best] = s]
        /\ cold_file' = [u \in FileUnits |-> IF u \in Region(z, s) THEN best ELSE cold_file[u]]
        /\ torn' = torn \cup TornBy(best)
    BY <1>2, <2>1 DEF EvictTo, EvictData
  <2>4. /\ ColdPages' = ColdPages \cup {best}
        /\ \A p \in Pages : page_state'[p] = IF p = best THEN s ELSE page_state[p]
    BY <2>2, <2>3 DEF IInv, TypeOK, ColdPages
  <2> HIDE DEF z
  <2>5. ASSUME NEW p \in ColdPages \ torn', NEW u \in Region(resolve_flat(p), page_state[p])
        PROVE  u \in FileUnits /\ cold_file'[u] = p
    <3>1. /\ p \in Pages /\ p \notin torn /\ p \notin TornBy(best)
          /\ page_state[p] \in Slots /\ page_state[p] # s
      BY <2>2, <2>3 DEF SlotsOwned, ColdPages
    <3>2. Region(resolve_flat(p), page_state[p]) \cap Region(z, s) = {}
      <4>1. CASE resolve_flat(p) = z
        <5>1. PageUnits[z] \in Nat /\ s \in Nat /\ page_state[p] \in Nat
          BY <2>1, <2>2, <3>1, KVPagesAssumption DEF KVPagesAssumption, Slots
        <5>2. QED
          BY <3>1, <4>1, <5>1, RegionsApart DEF Region
      <4>2. CASE resolve_flat(p) # z
        <5>1. page_state'[best] = s
          BY <2>2, <2>4
        <5>2. QED
          BY <2>2, <3>1, <4>2, <5>1 DEF TornBy
      <4>3. QED
        BY <4>1, <4>2
    <3>3. u \in FileUnits /\ cold_file[u] = p
      BY <2>5, <3>1 DEF WholeImages
    <3>4. QED
      BY <2>3, <2>5, <3>2, <3>3
  <2>6. ASSUME NEW u \in Region(z, s) PROVE u \in FileUnits /\ cold_file'[u] = best
    BY <2>1, <2>2, <2>3, <2>6, RegionInFile
  <2>7. ASSUME NEW p \in ColdPages' \ torn', NEW u \in Region(resolve_flat(p), page_state'[p])
        PROVE  u \in FileUnits /\ cold_file'[u] = p
    <3>1. CASE p = best
      BY <2>2, <2>4, <2>6, <2>7, <3>1
    <3>2. CASE p # best
      <4>1. p \in ColdPages \ torn' /\ page_state'[p] = page_state[p]
        BY <2>4, <2>7, <3>2 DEF ColdPages
      <4>2. QED
        BY <2>5, <2>7, <4>1
    <3>3. QED
      BY <3>1, <3>2
  <2>8. QED
    BY <2>7 DEF WholeImages
<1>3. QED
  BY <1>1, <1>2

\* The other steps write nothing to the file, and no page becomes cold.
LEMMA ImagesStand ==
  ASSUME IInv, [Next]_vars, ~EvictWrite
  PROVE  /\ UNCHANGED cold_file
         /\ \A p \in ColdPages' : p \in ColdPages /\ page_state'[p] = page_state[p]
<1>0. TypeOK
  BY DEF IInv
<1>1. ASSUME UNCHANGED <<page_state, cold_file>>
      PROVE  /\ UNCHANGED cold_file
             /\ \A p \in ColdPages' : p \in ColdPages /\ page_state'[p] = page_state[p]
  BY <1>1 DEF ColdPages
<1>2. CASE EnsureAlloc
  <2> DEFINE p == zone_page_offsets(resolve_flat(pid)) + npages[resolve_flat(pid)]
  <2>1. page_state' = [page_state EXCEPT ![p] = Hot] /\ UNCHANGED cold_file
    BY <1>2 DEF EnsureAlloc, coldVars
  <2> HIDE DEF p
  <2>2. QED
    BY <1>0, <2>1, Sentinels DEF TypeOK, ColdPages
<1>3. CASE EnsureReload
  <2>1. page_state' = [page_state EXCEPT ![pid] = Hot] /\ UNCHANGED cold_file
    BY <1>3 DEF EnsureReload
  <2>2. QED
    BY <1>0, <2>1, Sentinels DEF TypeOK, ColdPages
<1>4. [Next]_vars /\ ~EvictWrite =>
        EnsureAlloc \/ EnsureReload \/ UNCHANGED <<page_state, cold_file>>
  BY DEF Next, EnsureStep, ensure_pages_hot, record_importance, reset_entropy, EvictScan,
         EnsureTouch, EnsureRoom, RoomFor, vars, pageVars, coldVars
<1>5. QED
  BY <1>1, <1>2, <1>3, <1>4

LEMMA WholeStep ==
  ASSUME IInv, CountInv, SlotsOwned, WholeImages, SlotLeft, [DataNext]_allVars, [Next]_vars,
         EvictWrite => EvictData \/ UNCHANGED <<page_state, cold_file>>
  PROVE  WholeImages'
<1>1. CASE EvictData
  BY <1>1, EvictKeepsImages
<1>2. CASE ~EvictData
  <2>1. UNCHANGED torn
    BY <1>2, TornStands
  <2>2. /\ UNCHANGED cold_file
        /\ \A p \in ColdPages' : p \in ColdPages /\ page_state'[p] = page_state[p]
    <3>1. CASE EvictWrite
      BY <1>2, <3>1 DEF ColdPages
    <3>2. CASE ~EvictWrite
      BY <3>2, ImagesStand
    <3>3. QED
      BY <3>1, <3>2
  <2>3. QED
    BY <2>1, <2>2 DEF WholeImages
<1>3. QED
  BY <1>1, <1>2

\* A step of the pages that evicts is the eviction of the contents.
LEMMA EvictWriteIsData ==
  ASSUME [DataNext]_allVars, EvictWrite
  PROVE  EvictData \/ UNCHANGED <<page_state, cold_file>>
<1>1. CASE TouchData
  BY <1>1 DEF TouchData, EnsureTouch, EvictWrite
<1>2. CASE AllocData \/ ReloadData
  BY <1>2 DEF AllocData, ReloadData, EnsureAlloc, EnsureReload, EvictWrite
<1>3. CASE EnsureRoom \/ EvictScan
  BY <1>3 DEF EnsureRoom, RoomFor, EvictScan, pageVars, coldVars
<1>4. CASE UNCHANGED allVars
  BY <1>4 DEF allVars, vars, pageVars, coldVars
<1>5. DataNext /\ ~DataStep => stage = "idle"
  BY DEF DataNext, save, save_at, prefill_next, PrefillAttention, DecodeAttention, Preheat, Prefetch,
         advance, Importance, record_importance, reset_entropy, ensure_pages_hot
<1>6. stage = "scan"
  BY DEF EvictWrite
<1>7. QED
  BY <1>1, <1>2, <1>3, <1>4, <1>5, <1>6 DEF DataStep

----------------------------------------------------------------------------
(* The theorems *)

\* Pages and contents together.
CacheInv == IInv /\ CountInv /\ SlotsOwned /\ WholeImages /\ ContentsInv

LEMMA CacheInit == DataInit => CacheInv
<1>1. Init => WholeImages
  BY Sentinels DEF Init, WholeImages, ColdPages
<1>2. QED
  BY <1>1, InitInv, CountInit, SlotsInit, ContentsInit DEF DataInit, CacheInv

LEMMA CacheStep ==
  CacheInv /\ SlotLeft /\ [DataNext]_allVars => CacheInv'
<1> SUFFICES ASSUME CacheInv, SlotLeft, [DataNext]_allVars PROVE CacheInv'
  OBVIOUS
<1>0. IInv /\ CountInv /\ SlotsOwned /\ WholeImages /\ ContentsInv
  BY DEF CacheInv
<1>1. [Next]_vars
  BY <1>0, StepIsPaging DEF ContentsInv
<1>2. IInv'
  BY <1>0, <1>1, TypeStep, ListsStep, PushedStep, CallStep DEF IInv
<1>3. CountInv' /\ SlotsOwned'
  BY <1>0, <1>1, CountStep, SlotsStep
<1>4. WholeImages'
  BY <1>0, <1>1, WholeStep, EvictWriteIsData
<1>5. ContentsInv'
  BY <1>0, ContentsStep
<1>6. QED
  BY <1>2, <1>3, <1>4, <1>5 DEF CacheInv

\* While evictions find a free slot, what was saved last at a position is what its block
\* decodes to, through every sequence of saves, evictions and reloads of any length, but
\* for the pages whose image a page of another zone was written into; and FP32 copies are
\* those of hot pages.
THEOREM ContentsKept == DataSpec /\ []SlotLeft => []DataInv
<1>1. CacheInv => DataInv
  BY ContentsImply DEF CacheInv
<1>2. QED
  BY <1>1, CacheInit, CacheStep, PTL DEF DataSpec

\* The attention of a sequence that is decoded from its first token on reads what was saved
\* last, in the pages that no other zone tore.
THEOREM DecodingReadsSaved == DataSpec /\ []SlotLeft => DecodeReadsSaved
<1>1. ASSUME ContentsInv, ContentsInv', [DataNext]_allVars
      PROVE  [prompt = 0 => ReadsSaved]_allVars
  <2> SUFFICES ASSUME DataNext, prompt = 0, job.op = "f32", stage' = "idle",
                      NEW t \in 0..job.pos, f32'[page_id(t)] # None, page_id(t) \notin torn
               PROVE  f32'[page_id(t)][job.layer][slot_in_page(t)] = saved[job.layer][t]
    BY <1>1 DEF ReadsSaved
  <2>1. job.layer \in Layers /\ t \in Positions
    BY <1>1, Constants DEF ContentsInv, JobInv, Positions
  <2>2. page_id(t) \in Pages /\ slot_in_page(t) \in InPage(page_id(t))
    BY <2>1, BlockOfPosition
  <2>3. stage # "idle"
    BY <1>1 DEF ContentsInv, JobInv
  <2>4. UNCHANGED prompt /\ UNCHANGED saved /\ UNCHANGED torn
    <3>1. ~save /\ ~save_at /\ ~advance /\ ~prefill_next
      BY <2>3 DEF save, save_at, advance, prefill_next, ensure_pages_hot
    <3>2. /\ ~Importance /\ ~Prefetch
          /\ \A op \in {"hot", "f32"} : ~PrefillAttention(op) /\ ~DecodeAttention(op)
      BY <2>3 DEF Importance, record_importance, reset_entropy, PrefillAttention,
                  DecodeAttention, Preheat, Prefetch, ensure_pages_hot
    <3>3. DataStep
      BY <3>1, <3>2 DEF DataNext
    <3>4. TouchData => UNCHANGED <<prompt, saved, torn>>
      BY DEF TouchData, EnsureF32, posVars, prefillVars, dataVars
    <3>5. ~EvictData
      BY DEF EvictData, EvictWrite
    <3>6. QED
      BY <3>3, <3>4, <3>5 DEF DataStep, AllocData, ReloadData, dataVars, posVars, prefillVars
  <2>5. f32'[page_id(t)][job.layer][slot_in_page(t)]
          = dequant_block(q4'[page_id(t)][job.layer][slot_in_page(t)])
    BY <1>1, <2>1, <2>2, <2>4 DEF ContentsInv, CopiesCurrent
  <2>6. q4'[page_id(t)][job.layer][slot_in_page(t)] = BlockOf(saved[job.layer][t])
    BY <1>1, <2>1, <2>4 DEF ContentsInv, Stored
  <2>7. saved[job.layer][t] \in Vals \cup {Zero}
    BY <1>1, <2>1 DEF ContentsInv, Shapes
  <2>8. QED
    BY <2>5, <2>6, <2>7, BlocksOf
<1>2. CacheInv => ContentsInv
  BY DEF CacheInv
<1>3. QED
  BY <1>1, <1>2, CacheInit, CacheStep, PTL DEF DataSpec, DecodeReadsSaved

----------------------------------------------------------------------------
(* Sequences within the first zone *)

\* The cache is made for sequences that end before the second zone starts
\* (4096 positions in the code), with a slot for every page of the first zone
\* beyond the limit and one more.  The default cold_capacity has a slot for
\* every page of all zones beyond the limit, which is far more.
ShortSequences ==
  /\ MaxSeqLen <= ZoneStarts[1]
  /\ ColdCapacity = 0 \/ NumPages[0] - RamPageLimit < ColdCapacity

FirstZoneOnly ==
  /\ \A p \in Pages : page_state[p] # Absent => resolve_flat(p) = 0
  /\ stage # "idle" => resolve_flat(last) = 0

LEMMA FirstZonePages ==
  ASSUME NEW p \in Pages
  PROVE  /\ resolve_flat(p) = 0 => p \in 0..(NumPages[0] - 1)
         /\ \A q \in Pages : q <= p /\ resolve_flat(p) = 0 => resolve_flat(q) = 0
BY KVPagesAssumption
   DEF KVPagesAssumption, Pages, total_pages, resolve_flat, zone_page_offsets, Zones

LEMMA FirstZoneSuffices ==
  ShortSequences /\ FirstZoneOnly => SlotLeft
<1> SUFFICES ASSUME ShortSequences, FirstZoneOnly PROVE SlotLeft
  OBVIOUS
<1>1. NumPages[0] \in Nat /\ RamPageLimit \in Nat /\ ColdCapacity \in Nat
  BY KVPagesAssumption DEF KVPagesAssumption, Zones
<1>2. UsedPages \in SUBSET (0..(NumPages[0] - 1))
  BY FirstZonePages DEF FirstZoneOnly, UsedPages
<1>3. /\ IsFiniteSet(0..(NumPages[0] - 1))
      /\ Cardinality(0..(NumPages[0] - 1)) = NumPages[0]
  BY <1>1, FS_Interval, SMTT(40)
<1>4. Cardinality(UsedPages) <= NumPages[0]
  BY <1>2, <1>3, FS_Subset, ZenonT(40)
<1>5. QED
  BY <1>1, <1>4, UsedFinite DEF ShortSequences, SlotLeft

\* The pages of one zone do not tear each other's images.
LEMMA FirstZoneWhole ==
  ASSUME IInv, FirstZoneOnly, torn = {}, [DataNext]_allVars
  PROVE  torn' = {}
<1>1. CASE UNCHANGED torn
  BY <1>1
<1>2. CASE EvictData
  <2>1. best \in Pages /\ resolve_flat(best) = 0
    <3>1. best \in HotPages(resolve_flat(pid))
      BY <1>2 DEF EvictData, EvictWrite, IInv, CallInv
    <3>2. QED
      BY <3>1, Sentinels DEF HotPages, FirstZoneOnly
  <2>2. \A q \in ColdPages : resolve_flat(q) = 0
    BY Sentinels DEF ColdPages, FirstZoneOnly
  <2>3. TornBy(best) = {}
    BY <2>1, <2>2 DEF TornBy
  <2>4. QED
    BY <1>2, <2>3 DEF EvictData
<1>3. QED
  BY <1>1, <1>2, TornStands

LEMMA FirstZoneStep ==
  ShortSequences /\ IInv /\ Progress /\ FirstZoneOnly /\ [DataNext]_allVars => FirstZoneOnly'
<1> SUFFICES ASSUME ShortSequences, IInv, Progress, FirstZoneOnly, [DataNext]_allVars
             PROVE  FirstZoneOnly'
  OBVIOUS
<1>0. TypeOK /\ PushedInOrder /\ DOMAIN page_state = Pages
  BY DEF IInv, TypeOK
<1>1. \A pos \in Positions : page_id(pos) \in Pages /\ resolve_flat(page_id(pos)) = 0
  <2> SUFFICES ASSUME NEW pos \in Positions
               PROVE  page_id(pos) \in Pages /\ resolve_flat(page_id(pos)) = 0
    OBVIOUS
  <2>1. ZoneStarts[1] \in Nat
    BY KVDataAssumption DEF KVDataAssumption, Zones
  <2>2. pos < ZoneStarts[1]
    BY <2>1, Constants DEF ShortSequences, Positions
  <2>3. QED
    BY <2>2, BlockOfPosition DEF zone_index
<1>2. ASSUME UNCHANGED <<page_state, stage, last>> PROVE FirstZoneOnly'
  BY <1>2 DEF FirstZoneOnly
<1>3. ASSUME NEW start, NEW pos \in Positions, ensure_pages_hot(start, page_id(pos))
      PROVE  FirstZoneOnly'
  BY <1>1, <1>3 DEF ensure_pages_hot, FirstZoneOnly, pageVars
<1>4. CASE save
  <2>1. current_pos \in Positions
    BY <1>4, NextOfDecoding DEF save
  <2>2. QED
    BY <1>3, <1>4, <2>1 DEF save
<1>5. CASE save_at
  <2>1. at \in Positions
    BY <1>5, NextOfPrefill DEF save_at
  <2>2. QED
    BY <1>3, <1>5, <2>1 DEF save_at
<1>6. ASSUME NEW op, PrefillAttention(op) \/ DecodeAttention(op) PROVE FirstZoneOnly'
  <2>1. CASE PrefillAttention(op)
    <3>1. PICK pos \in offset..(ChunkEnd - 1) : Preheat(op, layer, pos)
      BY <2>1 DEF PrefillAttention
    <3>2. pos \in Positions
      BY ChunkPositions
    <3>3. QED
      BY <1>3, <3>1, <3>2 DEF Preheat
  <2>2. CASE DecodeAttention(op)
    <3>1. layers_saved > 0 /\ Preheat(op, layers_saved - 1, current_pos)
      BY <2>2 DEF DecodeAttention
    <3>2. current_pos \in Positions
      BY <3>1, Constants DEF Progress, Positions
    <3>3. QED
      BY <1>3, <3>1, <3>2 DEF Preheat
  <2>3. QED
    BY <1>6, <2>1, <2>2
<1>7. CASE advance \/ prefill_next \/ Importance \/ UNCHANGED allVars
  BY <1>2, <1>7
     DEF advance, prefill_next, Importance, record_importance, reset_entropy, allVars, vars,
         pageVars, callVars
<1>8. CASE Prefetch
  <2>1. current_pos \in Positions
    BY <1>8, NextOfDecoding DEF Prefetch
  <2>2. PICK p \in 0..page_id(current_pos) : ensure_pages_hot(p, p)
    BY <1>8 DEF Prefetch
  <2>3. p \in Pages /\ resolve_flat(p) = 0
    BY <1>1, <2>1, PagesUpTo, FirstZonePages
  <2>4. QED
    BY <2>2, <2>3 DEF ensure_pages_hot, FirstZoneOnly, pageVars
<1>9. CASE EnsureTouch \/ EnsureRoom \/ EvictScan
  BY <1>9 DEF EnsureTouch, EnsureRoom, RoomFor, EvictScan, FirstZoneOnly, pageVars, callVars
<1>10. CASE EvictWrite
  <2>1. stage = "scan" /\ UNCHANGED last /\ best \in HotPages(resolve_flat(pid))
    BY <1>10 DEF EvictWrite, IInv, CallInv
  <2>2. \A p \in Pages : page_state'[p] # Absent => page_state[p] # Absent
    BY <1>0, <1>10, <2>1, Sentinels DEF EvictWrite, EvictTo, pageVars, HotPages
  <2>3. QED
    BY <2>1, <2>2 DEF FirstZoneOnly
<1>11. ASSUME stage = "insert", UNCHANGED last,
              NEW p \in Pages, resolve_flat(p) = resolve_flat(pid),
              page_state' = [page_state EXCEPT ![p] = Hot]
       PROVE  FirstZoneOnly'
  <2>1. resolve_flat(pid) = 0
    BY <1>0, <1>11, FirstZonePages DEF TypeOK, FirstZoneOnly
  <2>2. QED
    BY <1>0, <1>11, <2>1 DEF FirstZoneOnly
<1>12. CASE EnsureAlloc
  BY <1>0, <1>11, <1>12, NextPage DEF EnsureAlloc
<1>13. CASE EnsureReload
  BY <1>0, <1>11, <1>13 DEF EnsureReload, TypeOK
<1>14. QED
  BY <1>4, <1>5, <1>6, <1>7, <1>8, <1>9, <1>10, <1>12, <1>13
     DEF DataNext, DataStep, TouchData, EvictData, AllocData, ReloadData

\* Nothing is left to assume of the states for sequences that stay in the first
\* zone: no image is torn, every saved vector is kept and decoding reads what was saved.
THEOREM ShortSequencesKept ==
  ASSUME ShortSequences
  PROVE  DataSpec => [](DataInv /\ torn = {}) /\ DecodeReadsSaved
<1>1. DataInit => FirstZoneOnly /\ torn = {}
  BY DEF DataInit, Init, FirstZoneOnly
<1>2. CacheInv => IInv /\ Progress /\ DataInv
  BY ContentsImply DEF CacheInv, ContentsInv
<1>3. IInv /\ Progress /\ FirstZoneOnly /\ torn = {} /\ [DataNext]_allVars
        => FirstZoneOnly' /\ (torn = {})'
  BY FirstZoneStep, FirstZoneWhole
<1>4. FirstZoneOnly => SlotLeft
  BY FirstZoneSuffices
<1>5. QED
  BY <1>1, <1>2, <1>3, <1>4, CacheInit, CacheStep, DecodingReadsSaved, PTL DEF DataSpec
=============================================================================
