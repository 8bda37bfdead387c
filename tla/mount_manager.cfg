SPECIFICATION Spec
CONSTANTS
  Clients = {c1, c2, c3}
  Devices = {d1, d2, d3}
  MaxDisks = 2
  NULL = NULL
  Placeholder = Placeholder
SYMMETRY Symmetry
CONSTRAINT NoClashYet
CHECK_DEADLOCK FALSE
INVARIANTS
  CountAccounts
  PlaceholderOwned
  SlotHasItsDevice
  MapIntact
  NoUseAfterDelete
PROPERTY ScanFailsOnlyInRace
