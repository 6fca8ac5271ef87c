SPECIFICATION Spec
CONSTANTS
  Bits4 = 2
  Bits6 = 1
  MaxExtra = 2
  MaxEdits = 4
INVARIANTS
  PoolsDisjoint
  PoolsInSubnet
  OwnRouters
  AllServed
CHECK_DEADLOCK FALSE
