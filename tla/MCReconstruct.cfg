SPECIFICATION FairSpec
CONSTANTS
  Bits = 4
  Generator = 19
  Vector = 8
  Batch = 3
  MaxCache = 3
  Ahead = 2
  MaxFaults = 1
  Jobs <- MCJobs
INVARIANTS
  TypeOK
  OutputsAreTrue
  FailsForCause
  CacheIsSound
  EnginesAgree
PROPERTIES
  ReconstructionEnds
CHECK_DEADLOCK FALSE
