SPECIFICATION Spec
CONSTANTS
  a = a
  b = b
  x = x
  aBak = aBak
  bBak = bBak
  tmp = tmp
  a1 = a1
  b1 = b1
  z = z
  Junk = Junk
  Absent = Absent
  Zero = z
  File <- MCFile
  Path <- MCPath
  Rank <- MCRank
  Loaded <- MCLoaded
  Data <- MCData
  Block <- MCBlock
  Backup <- MCBackup
  Temp <- MCTemp
  Singular = {}
  Miscomputed = {Junk}
  InitialDisks <- MCDisks
  Extras <- OneExtra
  Foreign = {}
  RenameOnly = FALSE
  Recovery = 1
  Purge = FALSE
  MaxFaults = 0
  MaxCrashes = 0
  MaxRuns = 1
INVARIANT
  FoundBlocksSuffice
CHECK_DEADLOCK FALSE
