SPECIFICATION FairSpec
CONSTANTS
  NumPages <- OneZone4
  PageUnits <- UnitSizes
  RamPageLimit = 2
  ColdCapacity = 3
  ScanDepth = 2
  MaxImportance = 1
  MaxRange = 4
  None = None
  Absent = Absent
  Hot = Hot
PROPERTIES EnsuredRangeIsHot
