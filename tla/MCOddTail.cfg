SPECIFICATION FairSpec
CONSTANTS
  Bits = 4
  Generator = 19
  Vector = 8
  Batch = 3
  MaxCache = 3
  Ahead = 2
  MaxFaults = 0
  Jobs <- OddTailJobs
INVARIANTS
  OutputsAreTrue
CHECK_DEADLOCK FALSE
