SPECIFICATION FairSpec
INVARIANTS TypeOK LruWellFormed HotPagesBounded SlotsOwned ColdImagesIntact
PROPERTIES EnsuredWindowHot CallReturns ImplementsLru
CONSTANTS
  NumPages <- OneZone4
  PageUnits <- UnitSizes
  RamPageLimit = 3
  ColdCapacity = 2
  ScanDepth = 2
  MaxImportance = 1
  MaxRange = 4
  None = None
  Absent = Absent
  Hot = Hot
