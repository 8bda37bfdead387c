SPECIFICATION FairSpec
CONSTANTS
  Producers = {p1, p2}
  Consumers = {c1, c2}
  Requests = {r1, r2, r3}
  Capacity = 2
  NULL = NULL
  NoThread = NoThread
CHECK_DEADLOCK FALSE
INVARIANTS
  SizeAccounts
  RingIndices
  FifoUnlessRaced
PROPERTIES
  RaceNeedsOverlap
  ImplementsFifo
  StoredIsPopped
