SPECIFICATION FairSpec
CONSTANTS
  a = a
  b = b
  tmp = tmp
  a1 = a1
  a2 = a2
  b1 = b1
  z = z
  Junk = Junk
  Absent = Absent
  Zero = z
  File <- MCFile
  Path <- MCPath
  Rank <- MCRank
  Loaded <- MCLoaded
  Data <- MCData
  Block <- MCBlock
  Backup <- MCBackup
  Temp <- MCTemp
  Singular <- MCSingular
  Miscomputed = {Junk}
  InitialDisks <- MCDisks
  Extras <- MCExtras
  Foreign = {}
  RenameOnly = FALSE
  Recovery = 2
  Purge = FALSE
  MaxFaults = 1
  MaxCrashes = 1
  MaxRuns = 2
INVARIANTS
  TempFilesRemoved
PROPERTIES
  BlocksNeverLost
  MendsAtomically
  RepairableIsRepaired
CHECK_DEADLOCK FALSE
