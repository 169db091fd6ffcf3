SPECIFICATION FairSpec
CONSTANTS
  NumPages <- ThreeZonesPages
  PageUnits <- DoublingSizes
  RamPageLimit = 1
  ColdCapacity = 3
  ScanDepth = 8
  MaxImportance = 0
  MaxRange = 2
  None = None
  Absent = Absent
  Hot = Hot
INVARIANTS ColdImagesIntact
