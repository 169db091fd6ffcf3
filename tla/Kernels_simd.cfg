CONSTANTS
    Hashes <- MCHashes
    NumBits = 4
    Tokens = {1, 2}
    Capacity = 3
    DraftLength = 1
    SaveEvery = 2
    StartPositions = {3}
    MaxPos = 5
    MaxObservations = 5
    Candidates = 2
    Window = 2
    Stride = 2
    Matches = 2
    TooNear = 2
    Lookback = 1
    Lookahead = 5
    MaxPages = 4
    PageTokens = 2
    LcHashes = {1, 2}
    LcTokens = {1, 2}
    LcCapacity = 2
    MaxInserts = 5
    MaxDraft = 3
    MaxSteps = 3
    Vocabulary = 4
    Weights = {0, 1, 2}
    Nan = 9
    TopKs = {0, 1, 2, 4}
    TopPs = {0, 1, 2, 3, 4}
    PDenominator = 4
    Recorders = {r1, r2}
    Samples = {0, 1, 4}
    NRows = 1
    BudgetNs = 2
    MinThreads = 1
    MaxThreads = 3
    StartThreads = 2
    MaxRecords = 3
    Alignment = 4
    RingPadding = 4
    OffsetLimit = 64
    Archs <- MCArchs
    MetaFields = {"block_count", "head_count"}
    Drivers = {"linear", "multi", "batch", "gemvs", "ring", "fallback"}
    Isas = {"scalar", "avx2", "vnni"}
    DTypes = {"Q4_K", "Q6_K", "dense"}
    Heights = {1, 2, 3}
    ThreadCounts = {1, 2}
    MaxCalls = 2
    BlockSize = 4
    Sizes = {1, 2, 3, 5}
    MaxAllocations = 3
SPECIFICATION MCSpec
INVARIANT SimdAgrees
CHECK_DEADLOCK FALSE
