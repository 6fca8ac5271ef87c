SPECIFICATION FairSpec
CONSTANTS
  d1 = d1
  d2 = d2
  None = None
  NoDatabase = NoDatabase
  MultiRange = 37
  Versions <- TwoReleases
  Databases <- OneDatabase
  Topologies <- Never
  ExtraRanges <- Never
  DatabaseEdits = FALSE
  Hasty = TRUE
  MaxGeneration = 3
  MaxFaults = 1
INVARIANTS
  SchemaReady
  ReadyMeansInstalled
  QuiescentIsTruthful
PROPERTIES
  InstalledNeverGoesBack
  Converges
CHECK_DEADLOCK FALSE
