SPECIFICATION Spec
CONSTANTS
  Bits = 4
  Generator = 19
  ByteGenerator = 7
  Vector = 8
  Batch = 3
  MaxFaults = 1
  MaxCrashes = 1
  MaxRuns = 2
  Jobs <- MCJobs
INVARIANTS
  StaysRecoverable
  OneMissingIsRepaired
PROPERTIES
  BystandersStay
CHECK_DEADLOCK FALSE
