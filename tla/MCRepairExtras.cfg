SPECIFICATION FairSpec
CONSTANTS
  a = a
  b = b
  x = x
  aBak = aBak
  bBak = bBak
  aTmp = aTmp
  bTmp = bTmp
  a1 = a1
  a2 = a2
  b1 = b1
  z = z
  Junk = Junk
  Absent = Absent
  Zero = z
  File <- MCFile
  Path <- MCPath
  Rank <- MCRank
  Loaded <- MCLoaded
  Data <- MCData
  Block <- MCBlock
  Backup <- MCBackup
  Temp <- MCTemp
  Singular <- MCSingular
  Miscomputed <- MCMiscomputed
  InitialDisks <- MCDisks
  Extras <- MCExtras
  Foreign = {x}
  RenameOnly = FALSE
  Recovery = 2
  Purge = TRUE
  MaxFaults = 1
  MaxCrashes = 1
  MaxRuns = 2
INVARIANTS
  TypeOK
  MendedFilesAreWhole
  SuccessMeansRecovered
  PurgeKeepsData
PROPERTIES
  IntactFilesStay
  CommandsEnd
CHECK_DEADLOCK FALSE
