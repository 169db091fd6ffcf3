SPECIFICATION DataSpec
CONSTANTS
  NumPages <- PagesOfStarts
  PageUnits <- Sizes
  RamPageLimit = 4
  ColdCapacity = 3
  ScanDepth = 8
  MaxImportance = 0
  MaxRange = 5
  None = None
  Absent = Absent
  Hot = Hot
  ZoneStarts <- Starts
  BlockSizes <- Sizes
  MaxSeqLen = 7
  NumLayers = 2
  Prompts = {0, 5}
  ChunkSize = 2
  Weighted = {}
  MaySkip <- Never
  a = a
  b = b
  Vectors <- OneEach
  Bits <- BitsOf
  Zero = Zero
  Garbage = Garbage
PROPERTIES AttentionReadsSaved
CHECK_DEADLOCK FALSE
