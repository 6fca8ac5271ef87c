SPECIFICATION Spec
CONSTANTS
  Database = FALSE
  MaxContainers = 2
  MaxVolumes = 1
  FirstSpecs <- MCFirstSpecs
  UserContainers <- SparseContainers
  UserInits <- MCInits
  UserVolumes <- SparseVolumes
  MaxEdits = 1
  MaxFaults = 0
INVARIANTS
  DefaultsKept
CHECK_DEADLOCK FALSE
