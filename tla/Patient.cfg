SPECIFICATION Spec
CONSTANTS
  d1 = d1
  d2 = d2
  None = None
  NoDatabase = NoDatabase
  MultiRange = 37
  Versions <- ReleasesAndLatest
  Databases <- OneDatabase
  Topologies <- Either
  ExtraRanges <- Either
  DatabaseEdits = FALSE
  Hasty = FALSE
  MaxGeneration = 3
  MaxFaults = 1
INVARIANTS
  OneWorkload
  InstalledIsMigrated
  RequestedIsCurrent
PROPERTIES
  ImplementsProtocol
CHECK_DEADLOCK FALSE
