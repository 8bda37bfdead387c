SPECIFICATION Spec
CONSTANTS
  Blocks = {b1, b2, b3}
  HBlocks = 1
  PageCount = 4
  LeastSpare = 0
  MaxPages = 2
  Reprepare = FALSE
  INVALID = INVALID
  NoBlock = NoBlock
SYMMETRY Symmetry
CHECK_DEADLOCK FALSE
INVARIANTS
  CleanLeavesNothing
  RangeCovers
  ProgramHasRoom
