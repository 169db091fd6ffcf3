\* Two generations of one process at a time.
SPECIFICATION FileSpec
CONSTANTS
  Generations = {g1, g2}
  MaxActive = 2
  NumPages = 3
  RamPageLimit = 1
  ColdCapacity = 4
  Absent = Absent
  Hot = Hot
  NoImage = NoImage
INVARIANTS OwnImages
CHECK_DEADLOCK FALSE
