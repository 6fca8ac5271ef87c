SPECIFICATION Spec
CONSTANTS
  d1 = d1
  d2 = d2
  None = None
  NoDatabase = NoDatabase
  MultiRange = 37
  Versions <- TwoReleases
  Databases <- TwoDatabases
  Topologies <- Never
  ExtraRanges <- Never
  DatabaseEdits = TRUE
  Hasty = FALSE
  MaxGeneration = 3
  MaxFaults = 0
INVARIANTS
  SchemaReady
CHECK_DEADLOCK FALSE
