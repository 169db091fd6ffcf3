SPECIFICATION ServerSpec
INVARIANTS OpenHasTimer TripIsAnswered QueueBounded OneHolder CountersInv
CONSTANTS
  Callers = {1, 2, 3}
  Threshold = 2
  MaxFailures = 3
  MaxTimers = 3
  Streams = {1}
  LongPrompts = {2}
  QueueLimit = 1
  MaxBatch = 2
  MaxTokens = 1
  Trailer = 1
  Priorities = {0, 1}
  Workers = {w1, w2}
  w1 = w1
  w2 = w2
SYMMETRY PoolThreads
