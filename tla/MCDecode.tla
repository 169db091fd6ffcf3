------------------------------ MODULE MCDecode ------------------------------
(***************************************************************************)
(* The parts around a decode step, for TLC, one at a time: `part' says     *)
(* which one moves, the others stay as they start.  The parts of a decode  *)
(* step share no state that the properties are about.                      *)
(***************************************************************************)
EXTENDS Speculation, Sampler, VirtualNpu, ModelFile, Gemv, QuantBlocks, HostArena

CONSTANT MaxAllocations \* bound on the allocations of a history of the arena

VARIABLES part, block   \* block: the format, kernel and element count looked at

mcVars == <<draftVars, specVars, samplerVars, npuVars, model, gemvVars, arenaVars, part, block>>

MCHashes == {{}, {1}, {1, 2, 3}}
MCArchs == <<"llama", "qwen2", "phi3">>
MCBytes == <<<<1>>, <<2>>, <<1>>, <<2, 2>>, <<1>>, <<>>>>

\* Layers whose tensors have the same sizes and differ in the first, the last, or none.
MCLayer(a, b) == <<<<a>>>> \o Tail(MCBytes) \o <<<<b>>>>
MCLayers == UNION {[1..n -> {MCLayer(a, b) : a, b \in 1..2}] : n \in 0..4}
Blank == [headerEnd |-> 0, length |-> 0, tensors |-> {}, arch |-> "llama", keys |-> {},
          layers |-> <<>>, ffnRows |-> 4, experts |-> 2]
MCModels ==
    {[Blank EXCEPT !.layers = ls] : ls \in MCLayers}
      \cup {[Blank EXCEPT !.headerEnd = h, !.length = n, !.ffnRows = rows, !.experts = x,
                          !.tensors = {[offset |-> o, nbytes |-> 2 * rows]}] :
            h \in 1..5, n \in {4, 8, 12, 15, 20}, o \in {0, 4}, rows \in 1..5, x \in 1..3}
      \cup {[Blank EXCEPT !.arch = a, !.keys = ks] :
            a \in Range(MCArchs), ks \in SUBSET (Range(MCArchs) \X {"block_count", "head_count"})}

ASSUME MCModelsOpened == \A f \in MCModels : Opened(f) /\ OffsetsFit(f) /\ RingsTellSizes(f)

MCBlocks == {[format |-> f, kernel |-> "q4k_scalar", n |-> n] :
                f \in Formats, n \in {0, 1, 31, 32, 33, 255, 256, 257}}
            \cup {[format |-> "Q4_0", kernel |-> k, n |-> 0] : k \in Kernels}

\* The part that does not move starts in one fixed state.
Fixed(p, Init, Still) == IF part = p THEN Init ELSE Still
StillSampler == request = [w |-> [t \in TokenIds |-> 1], k |-> 0, p |-> 0] /\ sampled = 0
StillGemv == /\ job = [driver |-> "linear", isa |-> "scalar", dtype |-> "Q4_K", rows |-> <<1, 1>>, threads |-> 1]
             /\ call = 0 /\ out = Outputs(job) /\ pending = [t \in {0} |-> {}] /\ faulted = FALSE

MCInit ==
    /\ part \in {"draft", "speculate", "cache", "sample", "npu", "file", "gemv", "arena", "block"}
    /\ DraftingInit /\ (part /= "draft" => pos = Min(StartPositions))
    /\ SpeculationInit /\ NpuInit /\ ArenaInit
    /\ Fixed("sample", SamplerInit, StillSampler)
    /\ Fixed("gemv", GemvInit, StillGemv)
    /\ Fixed("file", model \in MCModels, model = Blank)
    /\ Fixed("block", block \in MCBlocks, block = [format |-> "Q4_0", kernel |-> "q4k_scalar", n |-> 0])

DraftStep == part = "draft" /\ DraftingNext
SpeculateStep == part = "speculate" /\ SpeculateNext
CacheStep == part = "cache" /\ CacheNext
SampleStep == part = "sample" /\ Sample
NpuStep == part = "npu" /\ NpuNext
GemvStep == part = "gemv" /\ GemvNext
ArenaStep ==
    /\ part = "arena"
    /\ ArenaNext
    /\ Len(live') <= MaxAllocations /\ Len(blocks') <= MaxAllocations

MCNext ==
    \/ DraftStep /\ UNCHANGED <<specVars, samplerVars, npuVars, gemvVars, arenaVars, model, part, block>>
    \/ (SpeculateStep \/ CacheStep) /\ UNCHANGED <<draftVars, samplerVars, npuVars, gemvVars, arenaVars, model, part, block>>
    \/ SampleStep /\ UNCHANGED <<draftVars, specVars, npuVars, gemvVars, arenaVars, model, part, block>>
    \/ NpuStep /\ UNCHANGED <<draftVars, specVars, samplerVars, gemvVars, arenaVars, model, part, block>>
    \/ GemvStep /\ UNCHANGED <<draftVars, specVars, samplerVars, npuVars, arenaVars, model, part, block>>
    \/ ArenaStep /\ UNCHANGED <<draftVars, specVars, samplerVars, npuVars, gemvVars, model, part, block>>

MCSpec == MCInit /\ [][MCNext]_mcVars

-----------------------------------------------------------------------------
\* The bits a dequantizer reads for the elements of a block tile the block: no two
\* quanta, scales or minimums share a bit, no bit is left over, and the bytes
\* reserved for n elements hold all their blocks.
BlockTiled == part = "block" => Tiles(block.format) /\ Covers(block.format, block.n)

\* The scalar fused kernels multiply every element of x with the quantum, scale and
\* minimum that the dequantizer of the format gives for that element.
ScalarKernelsAgree == part = "block" /\ block.kernel \in ScalarKernels => Agrees(block.kernel)

\* A product: each row is computed by one thread, from elements that are each paired
\* with their own quantum, scale and minimum.
KernelInv == GemvInv /\ BlockTiled /\ ScalarKernelsAgree

\* What the fused kernels are for: every path computes the same product.
SimdAgrees == part = "block" => Agrees(block.kernel)
=============================================================================
