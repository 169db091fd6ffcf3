SPECIFICATION DataSpec
INVARIANTS DataInv
PROPERTIES DecodeReadsSaved
CONSTANTS
  NumPages <- PagesOfStarts
  PageUnits <- Sizes
  RamPageLimit = 1
  ColdCapacity = 3
  ScanDepth = 8
  MaxImportance = 1
  MaxRange = 5
  None = None
  Absent = Absent
  Hot = Hot
  ZoneStarts <- Starts
  BlockSizes <- Sizes
  MaxSeqLen = 7
  NumLayers = 2
  Prompts = {0, 5}
  ChunkSize = 2
  Weighted = {0}
  MaySkip <- LastOfThird
  a = a
  b = b
  Vectors <- OneEach
  Bits <- BitsOf
  Zero = Zero
  Garbage = Garbage
CHECK_DEADLOCK FALSE
