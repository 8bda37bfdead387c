SPECIFICATION Spec
CONSTANTS
  Capacity = 2
  MaxIo = 3
CHECK_DEADLOCK FALSE
INVARIANTS
  ThreadHasItsObjects
  EndsWithoutDisk
PROPERTY CtrlCEnds
