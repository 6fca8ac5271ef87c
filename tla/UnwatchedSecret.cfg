SPECIFICATION Spec
CONSTANTS
  Roles = {"config"}
  Prepared = {"default"}
  Renames = FALSE
  Replacing = FALSE
  OwnContent = TRUE
  MaxContent = 1
  MaxEdits = 2
  MaxFaults = 0
INVARIANTS
  PodsAreCurrent
CHECK_DEADLOCK FALSE
