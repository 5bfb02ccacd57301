SPECIFICATION FairSpec
CONSTANTS
  a = a
  b = b
  c = c
  x = x
  y = y
  bak1 = bak1
  bak2 = bak2
  bak3 = bak3
  tmp = tmp
  s1 = s1
  c1 = c1
  Junk = Junk
  Absent = Absent
  Zero = c1
  File <- MCFile
  Path <- MCPath
  Rank <- MCRank
  Loaded <- MCLoaded
  Data <- MCData
  Block <- MCBlock
  Backup <- MCBackup
  Temp <- MCTemp
  Singular = {}
  Miscomputed = {Junk}
  InitialDisks <- MCDisks
  Extras <- MCExtras
  Foreign = {y}
  RenameOnly = TRUE
  Recovery = 1
  Purge = TRUE
  MaxFaults = 1
  MaxCrashes = 1
  MaxRuns = 2
INVARIANTS
  RenamedSetIsValid
  RenamesComplete
PROPERTIES
  RestoreLosesNothing
CHECK_DEADLOCK FALSE
