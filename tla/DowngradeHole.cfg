SPECIFICATION Spec
CONSTANTS
  d1 = d1
  d2 = d2
  None = None
  NoDatabase = NoDatabase
  MultiRange = 37
  Versions <- TwoReleases
  Databases <- OneDatabase
  Topologies <- Never
  ExtraRanges <- Never
  DatabaseEdits = FALSE
  Hasty = TRUE
  MaxGeneration = 3
  MaxFaults = 0
PROPERTIES
  NoDowngrade
CHECK_DEADLOCK FALSE
