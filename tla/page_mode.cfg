SPECIFICATION Spec
CONSTANTS
  Blocks = 8
  PagesPerBlock = 3
  Zones = 1
  GroupsPerZone = 2
  PagesPerGroup = 1
  SecsPerPage = 2
  LinksPerPage = 6
  Total = 4
  MaxOps = 5
  MaxStarts = 1
CHECK_DEADLOCK FALSE
INVARIANTS
  ReadsLastWrite
  SpareIsFree
  EobDescribesBlock
  FlashNamesTables
