SPECIFICATION FairSpec
CONSTANTS
  Roles = {"config"}
  Prepared = {}
  Renames = TRUE
  Replacing = TRUE
  OwnContent = FALSE
  MaxContent = 1
  MaxEdits = 3
  MaxFaults = 1
INVARIANTS
  PodsAreCurrent
  NothingLeft
PROPERTIES
  UserSecretsKept
  NetworkingFirst
  Settles
CHECK_DEADLOCK FALSE
