SPECIFICATION Spec
CONSTANTS
  CrcBits = 4
  ByteBits = 2
  ByteLog = 1
  Polynomial = 12
  BlockSize = 4
  Leeway = 1
  MaxLength = 6
  MaxFaults = 1
  Jobs <- MCJobs
INVARIANTS
  TypeOK
  WindowIsOfFile
  RecordsAreTrue
  BlocksAreFound
  IntactIsPresent
  CellsSuffice
  IntactPacketsLoad
  PromiseIsKept
  OkMeansFound
PROPERTIES
  EveryStepMovesOn
