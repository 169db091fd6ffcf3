\* Two threads on one clock, now() and witness(), recalibrations anywhere.
SPECIFICATION ClockSpec
INVARIANTS WallNotBehind SerialCallsOrdered
PROPERTIES WallClockMonotonic
CONSTANTS
  Threads = {t1, t2}
  LogicalModulus = 4
  Scales <- TwoScales
  Received <- SomeReceived
  MaxTsc = 2
  MaxCalls = 4
  None = None
SYMMETRY ThreadSymmetry
CHECK_DEADLOCK FALSE
