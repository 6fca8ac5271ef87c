SPECIFICATION FairSpec
CONSTANTS
  older = older
  newer = newer
  pinned = pinned
  None = None
  Default = Default
  Operators <- Both
  OperatorVersion <- TheirVersion
  OperatorImage <- TheirImage
  Choices <- EmptyNewerOrLatest
  Elections = {TRUE, FALSE}
  MaxEvents = 1
INVARIANTS
  RunsOnItsSchema
  RefusalIsReported
  ReadyIsAgreed
PROPERTIES
  NeverGoesBack
  Settles
CHECK_DEADLOCK FALSE
