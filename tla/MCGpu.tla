-------------------------------- MODULE MCGpu --------------------------------
(***************************************************************************)
(* The two programs over the GPU layer, for TLC: the executor, which       *)
(* uploads weights through PerLayerGpuState, and benchmark_streaming,      *)
(* which drives HyperStreamEngine and nothing else.                        *)
(***************************************************************************)
EXTENDS GpuLayers, WeightStream

VARIABLE program

MCAllNames == <<"q", "o">>
MCCoreNames == <<"q">>
MCAbsent == {<<2, "o">>}
MCTooBig == {<<1, "o">>}

mcVars == <<gpuVars, streamVars, program>>

MCInit ==
    /\ GpuInit
    /\ StreamInit
    /\ program \in {"executor", "benchmark"}
    /\ program = "benchmark" => bufs = 0

MCNext ==
    \/ program = "executor" /\ GpuNext /\ UNCHANGED <<streamVars, program>>
    \/ program = "benchmark" /\ StreamNext /\ UNCHANGED <<gpuVars, program>>

MCSpec == MCInit /\ [][MCNext]_mcVars
=============================================================================
