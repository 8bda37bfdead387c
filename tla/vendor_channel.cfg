SPECIFICATION Spec
CONSTANTS
  Probed <- MCProbed
  Signature = "LT2244"
  InfoValid = TRUE
  TabPage = 2
  SearchEnd = 2
  IspPages = 1
  IspLen = 1
  DummyWrites = {"scratch"}
  Retry = 3
  MaxCommands = 1
  MaxLost = 6
  MaxUser = 2
CHECK_DEADLOCK FALSE
INVARIANTS
  UserSectorsIntact
  GivesUpOnlyAfterLosses
  RunsItsCommandOnce
