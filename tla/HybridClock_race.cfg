\* Two threads calling now(): the documented guarantee does not hold.
SPECIFICATION ClockSpec
CONSTANTS
  Threads = {t1, t2}
  LogicalModulus = 8
  Scales <- OneScale
  Received <- NoTimestamps
  MaxTsc = 1
  MaxCalls = 4
  None = None
INVARIANTS StrictlyAfter
CHECK_DEADLOCK FALSE
