SPECIFICATION Spec
CONSTANTS
  Overhead = 24
  MaxChunk = 8388608
  Batch = 2
  HeadCells = 2
  ExponentLimit = 7
  Index = Index
  MaxBlocks = 7
  MaxVolumes = 3
  SourcePaths <- Paths
  BasePath <- Base
  Slash = 9
  GivenNames <- Names
  Beside <- Others
  Garbage = Garbage
  MaxFaults = 0
  MaxChanges = 1
  MaxAppear = 0
  MaxThere = 0
  CommandLines <- ChunkedLines
  Kilo = 4
  MaxWord = 2000
  DefaultBlocks = 5
  DefaultMemory = 1000
INVARIANT
  RecordedMd5IsOfSource
CHECK_DEADLOCK FALSE
