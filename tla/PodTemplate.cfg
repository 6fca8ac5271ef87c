SPECIFICATION FairSpec
CONSTANTS
  Database = TRUE
  MaxContainers = 2
  MaxVolumes = 2
  FirstSpecs <- MCFirstSpecs
  UserContainers <- MCContainers
  UserInits <- MCInits
  UserVolumes <- MCVolumes
  MaxEdits = 2
  MaxFaults = 1
INVARIANTS
  TemplateFollowsSpec
  DefaultsKept
PROPERTIES
  LabelsKept
  Settles
CHECK_DEADLOCK FALSE
