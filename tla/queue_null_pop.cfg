SPECIFICATION Spec
CONSTANTS
  Producers = {p1}
  Consumers = {c1}
  Requests = {r1, r2}
  Capacity = 2
  NULL = NULL
  NoThread = NoThread
CHECK_DEADLOCK FALSE
INVARIANT PopReturnsRequest
