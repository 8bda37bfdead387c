SPECIFICATION Spec
CONSTANTS
  Blocks = {b1, b2, b3, b4, b5}
  HBlocks = 2
  PageCount = 4
  LeastSpare = 1
  MaxPages = 1
  Reprepare = FALSE
  INVALID = INVALID
  NoBlock = NoBlock
SYMMETRY Symmetry
CHECK_DEADLOCK FALSE
INVARIANTS
  LinkMatchesPages
  ListsPartition
  CleanFindsPage
