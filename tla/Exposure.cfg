SPECIFICATION FairSpec
CONSTANTS
  Initial <- Manifests
  MaxEvents = 2
INVARIANTS
  MountsBacked
  FilesMounted
  ApiAuthenticated
  OneAddress
  FilesResolve
  RoutesResolve
  MonitorFollows
PROPERTIES
  Settles
CHECK_DEADLOCK FALSE
