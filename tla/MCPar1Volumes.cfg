SPECIFICATION Spec
CONSTANTS
  Bits = 4
  Generator = 19
  ByteGenerator = 7
  Vector = 8
  Batch = 3
  MaxFaults = 0
  MaxCrashes = 0
  MaxRuns = 1
  Jobs <- VolumesJobs
INVARIANTS
  EnoughIsRepaired
CHECK_DEADLOCK FALSE
