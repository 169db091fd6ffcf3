CONSTANTS
    Ctx = ctx
    Contexts = {ctx}
    NumLayers = 2
    Window = 2
    PromptLen = 3
    ChunkSize = 2
    LastPos = 3
    MaxK = 1
    StreamLayers = 3
    AllNames <- MCAllNames
    CoreNames <- MCCoreNames
    Absent <- MCAbsent
    TooBig <- MCTooBig
    MaxTimeline = 5
    MaxAhead = 2
SPECIFICATION MCSpec
INVARIANTS GpuInv StreamInv
CHECK_DEADLOCK FALSE
