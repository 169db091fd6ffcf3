------------------------------ MODULE GpuLayers ------------------------------
(***************************************************************************)
(* The layer loop of the executor over PerLayerGpuState                    *)
(* (swamp-engine/src/scheduler.rs, the GPU paths of executor.rs) with the  *)
(* GpuComputeContext below it (swamp-gpu/src/lib.rs): weights are uploaded *)
(* on demand, every projection and the attention are tried on the GPU and  *)
(* recomputed on the CPU when the GPU path reports failure.  One thread    *)
(* runs it; the choices are what Vulkan calls return.                      *)
(*                                                                         *)
(* Data are abstracted to their origin: an output vector of a layer was    *)
(* computed by the CPU, is a copy of the device's scratch buffer, or was   *)
(* not written in this layer.  What the scratch buffer held is not said:   *)
(* a command buffer records the barriers of its nodes and no dispatch      *)
(* (Recorded in ComputeGraph), so nothing in the repository writes it.     *)
(***************************************************************************)
EXTENDS ComputeGraph, Integers, FiniteSetsExt

CONSTANTS
    Ctx,          \* the context of this PerLayerGpuState
    NumLayers,
    Window,       \* window_size: positions the device KV ring holds
    PromptLen,    \* tokens of the prompt (prefilled when more than one)
    ChunkSize,    \* PREFILL_CHUNK_SIZE: tokens that go through all layers together
    LastPos,      \* bound: position of the last token decoded
    MaxK          \* bound: the prefetch window the AIMD ramp may choose

\* A model has layers, and the bound lets a token be decoded after the prompt
ASSUME GpuAssumption ==
    /\ NumLayers \in Nat \ {0}
    /\ PromptLen \in Nat /\ LastPos \in Nat /\ PromptLen <= LastPos
    /\ ChunkSize \in Nat \ {0}
    /\ Ctx \in Contexts

VARIABLES
    bufs,      \* of the buffers GpuComputeContext::new allocates, how many were
    prefix,    \* per layer: how many of the nine weight buffers are not null
    loaded,    \* layer_loaded
    hits, misses,   \* prefetch_hits, prefetch_misses
    ring,      \* the device KV ring, one for all layers: the <<layer, position>>
               \* each slot was last written for, or Junk
    fence,     \* of the graph's one fence: "signalled", "pending" (the queue has
               \* it and it timed out once), or "lost" (reset, but not submitted)
    prefetchK, \* the executor's prefetch_k
    pc,        \* the next operation of the layer loop
    layer, pos,
    ahead,     \* the offset of the next layer to prefetch
    origin     \* history: output |-> "none", "cpu" or "device", for this layer

layerVars == <<bufs, prefix, loaded, hits, misses, ring, fence, prefetchK,
               pc, layer, pos, ahead, origin>>
gpuVars == <<layerVars, graphVars>>

Layers == 0..(NumLayers - 1)
Outputs == {"qkv", "attn", "wo", "gateup", "down"}
Fresh == [o \in Outputs |-> "none"]
Junk == <<>>
Fences == {"signalled", "pending", "lost"}

\* GpuComputeContext::new allocates, in this order and giving up at the first
\* failure without freeing: ten scratch buffers, the staging buffer, and the K
\* and V rings
ContextBuffers == 13

\* upload_layer_weights fills, in this order: q, k, v, o, gate, up, down,
\* attn_norm, ffn_norm.  Nothing reads the two norm buffers.  An upload may stop
\* after any of them; these are the counts some guard tells apart.
WeightBuffers == 9
UploadCounts == {0, 3, 4, 6, WeightBuffers}

\* is_operational / ctx.is_some(): no device, or a failed allocation, and new()
\* still returns a PerLayerGpuState, with no context
HasCtx == bufs = ContextBuffers

GpuInit ==
    /\ GraphInit
    /\ bufs \in {0, 10, 11, 12, ContextBuffers}
    /\ prefix = [l \in Layers |-> 0]
    /\ loaded = [l \in Layers |-> FALSE]
    /\ hits = 0 /\ misses = 0
    /\ ring = [w \in 0..(Window - 1) |-> Junk]
    /\ fence = "signalled"
    /\ prefetchK \in 1..MaxK
    /\ pc = IF PromptLen > 1 THEN "prefill" ELSE "ensure"
    /\ layer = 0 /\ pos = 0 /\ ahead = 0
    /\ origin = Fresh

-----------------------------------------------------------------------------
\* Operations of PerLayerGpuState

\* Mutant: the layer counts as loaded whatever the upload returned
Resident_always(n) == TRUE

\* upload_layer_weights returned true
Resident(n) == n = WeightBuffers

\* ensure_layer_loaded: a layer that is loaded is a hit.  Otherwise its tensors
\* are read (from the shard or the model) and uploaded one after the other; the
\* first that fails leaves the ones before it in place and counts a miss.
EnsureLoaded(l) ==
    \/ ~HasCtx /\ UNCHANGED <<prefix, loaded, hits, misses>>
    \/ /\ HasCtx /\ loaded[l]
       /\ hits' = hits + 1
       /\ UNCHANGED <<prefix, loaded, misses>>
    \/ /\ HasCtx /\ ~loaded[l]
       /\ \E n \in UploadCounts :
           /\ prefix' = [prefix EXCEPT ![l] = Max({@, n})]
           /\ loaded' = [loaded EXCEPT ![l] = Resident(n)]
           /\ misses' = IF Resident(n) THEN misses ELSE misses + 1
       /\ UNCHANGED hits

Uid(op) == <<pos, layer, op>>

\* Mutant: the dependencies are numbered within the call
GemvNodes_local(ops) ==
    [i \in DOMAIN ops |->
        Node(Uid(ops[i]), "gemv", IF i = 1 THEN {} ELSE {i - 1})]

\* gemv_qkv_async, gemv_gate_up_async, gemv_one: a chain of nodes, each
\* depending on the index add_node returned for the one before
GemvNodes(ops) ==
    [i \in DOMAIN ops |->
        Node(Uid(ops[i]), "gemv", IF i = 1 THEN {} ELSE {Len(nodes) + i - 1})]

\* What build(), submit() and wait() make of the fence: submit() resets it before
\* queue_submit, so it is lost when the queue refuses; it stays as it was when
\* the build or the reset failed.  wait() gives up after ten seconds.
AfterSubmit(taken) == IF taken THEN {"signalled", "pending"} ELSE {fence, "lost"}

\* submit_and_wait, which leaves the fence at f
Submit(ns, count, f) ==
    /\ SubmitGraph(Ctx, ns, count)
    /\ f \in IF count = 0 THEN {fence} ELSE AfterSubmit(submitted' # Empty)

\* sync() waits for the fence, found at f, and says whether it got it: of a lost
\* one it never does, of the others it may not
Sync(f, synced) ==
    /\ synced => f # "lost"
    /\ fence' = IF synced THEN "signalled" ELSE f

\* The nodes go into the graph without being counted, so submit_and_wait finds
\* node_count as it was and returns at once; its result is not looked at, the
\* scratch buffers are copied back and the call reports success.
Gemv(ops, f) == Submit(nodes \o GemvNodes(ops), nodeCount[Ctx], f)

\* Mutant: the attention node is not counted either
AttentionCount_none == nodeCount[Ctx]

AttentionCount == nodeCount[Ctx] + 1

\* execute_attention_async: one counted node (attn_len > 0 as seq_len >= 1)
Attention(f) ==
    Submit(Append(nodes, Node(Uid("attn"), "attention", {})), AttentionCount, f)

RingSlot(p) == p % Window

\* upload_kv_async: the copies' results are ignored, so the slot holds this
\* position of this layer or what it held
UploadKV ==
    \/ UNCHANGED ring
    \/ ring' = [ring EXCEPT ![RingSlot(pos)] = <<layer, pos>>]

-----------------------------------------------------------------------------
\* The executor: one step per operation of a layer

Goto(next) == pc' = next /\ UNCHANGED <<layer, pos, ahead, bufs, prefetchK>>
KeepWeights == UNCHANGED <<prefix, loaded, hits, misses>>

\* The attention of prefill_slice for one token of one layer: per_layer_gpu is
\* Some whenever the feature is on, the results of the three calls are ignored,
\* and there is no other path
PrefillAttention ==
    /\ pc = "prefill"
    /\ IF HasCtx
       THEN /\ UploadKV
            /\ \E f \in Fences, synced \in BOOLEAN : Attention(f) /\ Sync(f, synced)
            /\ origin' = [Fresh EXCEPT !["attn"] = "device"]
       ELSE UNCHANGED <<ring, fence, graphVars>> /\ origin' = Fresh
    /\ Goto("prefilled")
    /\ KeepWeights

\* The chunk that the current position is in
ChunkStart == pos - (pos % ChunkSize)
ChunkEnd == Min({ChunkStart + ChunkSize, PromptLen})

\* Next token of the chunk, next layer, next chunk, or on to decoding
PrefillNext ==
    /\ pc = "prefilled"
    /\ \/ /\ pos + 1 < ChunkEnd
          /\ pos' = pos + 1 /\ UNCHANGED layer /\ pc' = "prefill"
       \/ /\ pos + 1 = ChunkEnd /\ layer + 1 < NumLayers
          /\ pos' = ChunkStart /\ layer' = layer + 1 /\ pc' = "prefill"
       \/ /\ pos + 1 = ChunkEnd /\ layer + 1 = NumLayers
          /\ pos' = pos + 1 /\ layer' = 0
          /\ pc' = IF pos + 1 < PromptLen THEN "prefill" ELSE "ensure"
    /\ origin' = Fresh
    /\ UNCHANGED <<ahead, bufs, prefetchK, ring, fence, graphVars>>
    /\ KeepWeights

\* Policy: should_skip_layer leaves the layer out altogether
SkipLayer ==
    /\ pc = "ensure"
    /\ Goto("next")
    /\ KeepWeights
    /\ UNCHANGED <<ring, fence, origin, graphVars>>

\* The fused path reports false, upload_x and download_x do nothing; a sync() and
\* ensure_layer_loaded, neither of whose results is looked at
Ensure ==
    /\ pc = "ensure"
    /\ \/ ~HasCtx /\ UNCHANGED fence
       \/ HasCtx /\ \E synced \in BOOLEAN : Sync(fence, synced)
    /\ EnsureLoaded(layer)
    /\ Goto("qkv")
    /\ UNCHANGED <<ring, origin, graphVars>>

\* Mutant: only a failed launch falls back, not a failed sync()
Origin_launch(launched, synced) == IF launched THEN "device" ELSE "cpu"

\* ok && gpu.sync(), otherwise the CPU computes the output
Origin(launched, synced) == IF launched /\ synced THEN "device" ELSE "cpu"

\* A projection: launched when there is a context and the layer's weight buffers
\* are not null (enough of the nine)
Project(at, output, ops, needed, next) ==
    /\ pc = at
    /\ \E launched \in (IF HasCtx /\ prefix[layer] >= needed THEN {TRUE} ELSE {FALSE}),
          synced \in BOOLEAN :
        /\ IF launched THEN \E f \in Fences : Gemv(ops, f) /\ Sync(f, synced)
           ELSE UNCHANGED <<fence, graphVars>>
        /\ origin' = [origin EXCEPT ![output] = Origin(launched, synced)]
    /\ Goto(next)
    /\ KeepWeights
    /\ UNCHANGED ring

ProjectQKV == Project("qkv", "qkv", <<"q", "k", "v">>, 3, "attn")
\* execute_gemv_async takes the first buffer that is not null of o, down, gate
ProjectO == Project("o", "wo", <<"o">>, 4, "gateup")
ProjectGateUp == Project("gateup", "gateup", <<"gate", "up">>, 6, "down")
ProjectDown == Project("down", "down", <<"down">>, 4, "prefetch")

\* RoPE and the save into the CPU cache, then attention with fallback
DecodeAttention ==
    /\ pc = "attn"
    /\ \E synced \in BOOLEAN :
        /\ IF HasCtx
           THEN UploadKV /\ \E f \in Fences : Attention(f) /\ Sync(f, synced)
           ELSE UNCHANGED <<ring, fence, graphVars>>
        /\ origin' = [origin EXCEPT !["attn"] = Origin(HasCtx, synced)]
    /\ pc' = "o"
    /\ ahead' = 0
    /\ UNCHANGED <<layer, pos, bufs, prefetchK>>
    /\ KeepWeights

\* ensure_layer_loaded for the next prefetch_k layers
Prefetch ==
    /\ pc = "prefetch"
    /\ ahead < prefetchK
    /\ ahead' = ahead + 1
    /\ IF layer + ahead + 1 < NumLayers THEN EnsureLoaded(layer + ahead + 1) ELSE KeepWeights
    /\ UNCHANGED <<pc, layer, pos, bufs, prefetchK, ring, fence, origin, graphVars>>

PrefetchDone ==
    /\ pc = "prefetch"
    /\ ahead = prefetchK
    /\ Goto("next")
    /\ KeepWeights
    /\ UNCHANGED <<ring, fence, origin, graphVars>>

\* Mutant: the layer index is not bounded by num_layers
NextLayer_unbounded ==
    /\ pc = "next"
    /\ layer' = layer + 1 /\ pc' = "ensure"
    /\ origin' = Fresh
    /\ ahead' = 0
    /\ UNCHANGED <<pos, bufs, prefetchK, ring, fence, graphVars>>
    /\ KeepWeights

NextLayer ==
    /\ pc = "next"
    /\ IF layer + 1 < NumLayers
       THEN layer' = layer + 1 /\ pc' = "ensure" /\ UNCHANGED pos
       ELSE /\ layer' = 0
            /\ pos' = pos + 1
            /\ pc' = IF pos < LastPos THEN "token" ELSE "done"
    /\ origin' = Fresh
    /\ ahead' = 0
    /\ UNCHANGED <<bufs, prefetchK, ring, fence, graphVars>>
    /\ KeepWeights

\* Between tokens: every twentieth step drains the counters and the AIMD ramp
\* chooses the window
NextToken ==
    /\ pc = "token"
    /\ \/ UNCHANGED <<hits, misses, prefetchK>>
       \/ hits' = 0 /\ misses' = 0 /\ prefetchK' \in 1..MaxK
    /\ pc' = "ensure"
    /\ UNCHANGED <<bufs, prefix, loaded, ring, fence, layer, pos, ahead, origin, graphVars>>

GpuNext ==
    \/ PrefillAttention
    \/ PrefillNext
    \/ SkipLayer
    \/ Ensure
    \/ ProjectQKV
    \/ DecodeAttention
    \/ ProjectO
    \/ ProjectGateUp
    \/ ProjectDown
    \/ Prefetch
    \/ PrefetchDone
    \/ NextLayer
    \/ NextToken

GpuSpec == GpuInit /\ [][GpuNext]_gpuVars

-----------------------------------------------------------------------------
\* Properties

GpuTypeOK ==
    /\ bufs \in 0..ContextBuffers
    /\ prefix \in [Layers -> 0..WeightBuffers]
    /\ ring \in [0..(Window - 1) -> (Layers \X (0..LastPos)) \cup {Junk}]
    /\ fence \in Fences
    /\ origin \in [Outputs -> {"none", "cpu", "device"}]
    /\ layer \in Layers /\ pos \in 0..(LastPos + 1)

\* layer_loaded is never set for a layer some of whose buffers are still null,
\* however many uploads of it failed on the way.
LoadedIsResident == \A l \in Layers : loaded[l] => prefix[l] = WeightBuffers

\* The graph does not grow without bound although the projections' nodes are
\* never counted: the attention of every layer carries them off.
GraphBounded == Len(nodes) <= 7

\* Every chained projection of a submitted command buffer has the barrier on the
\* output of its own predecessor, also when the nodes of earlier calls were
\* still in the graph and shifted its indices.
Predecessor == [k |-> "q", v |-> "k", up |-> "gate"]
ChainsHaveBarriers ==
    \A u \in DOMAIN submitted :
        submitted[u] = IF u[3] \in DOMAIN Predecessor
                       THEN {<<u[1], u[2], Predecessor[u[3]]>>} ELSE {}

\* In decoding no output is left unwritten, and without a context each is the CPU's:
\* when a layer is through, whichever calls failed on the way.
OutputsWritten ==
    (pc = "prefetch") => \A o \in Outputs : origin[o] # "none" /\ (~HasCtx => origin[o] = "cpu")

\* After a submission that the queue refused, decoding takes nothing more from the
\* device before the next one that it takes: not the attention that was refused, nor
\* any of the four projections up to the next attention, which share its fence
\* although they never submit.
AfterLoss == [attn  |-> {"o", "gateup", "down", "prefetch"},
              wo    |-> {"gateup", "down", "prefetch"},
              gateup |-> {"down", "prefetch"},
              down  |-> {"prefetch"},
              qkv   |-> {"attn"}]
LostFenceFallsBack ==
    (fence = "lost") => \A o \in Outputs : (pc \in AfterLoss[o]) => (origin[o] = "cpu")

\* The executor's GPU state through uploads that stop half way and launches and waits
\* that fail: residency, the graph and its barriers, and the fallback of decoding.
GpuInv ==
    /\ GpuTypeOK
    /\ LoadedIsResident
    /\ GraphBounded
    /\ ChainsHaveBarriers
    /\ OutputsWritten
    /\ LostFenceFallsBack

\* "GPU acceleration via GpuComputeContext (runtime-fallback)": the attention a
\* layer goes on with was computed somewhere, in prefill as in decoding.
AttentionComputed == pc \in {"prefilled", "o"} => origin["attn"] # "none"

OpsOf == [qkv |-> {"q", "k", "v"}, attn |-> {"attn"}, wo |-> {"o"},
          gateup |-> {"gate", "up"}, down |-> {"down"}]

\* "Falls back gracefully (returns false) if GPU is unavailable": an output taken from
\* the device was handed to it, so none of its nodes still waits in the graph.
DeviceWasAsked ==
    \A o \in Outputs : origin[o] = "device" =>
        \A i \in DOMAIN nodes : nodes[i].uid \notin {Uid(op) : op \in OpsOf[o]}
=============================================================================
