SPECIFICATION FairSpec
CONSTANTS
  Generated = {g1, g2}
  Chosen = {mine}
  None = None
  Networked = TRUE
  MaxUid = 2
  MaxPassword = 1
  MaxEdits = 3
  MaxFaults = 1
INVARIANTS
  CredentialsCurrent
PROPERTIES
  NameKept
  PasswordKept
  OwnersExist
  Settles
CHECK_DEADLOCK FALSE
