SPECIFICATION FairSpec
CONSTANTS
  rd = rd
  wr = wr
  io = io
  big = big
  loc = loc
  bye = bye
  Requests <- MCRequests
  Kind <- MCKind
  Length <- MCLength
  BufSize = 2
  Capacity = 2
  MayOutlive = FALSE
  NULL = NULL
CHECK_DEADLOCK FALSE
INVARIANTS
  Conserved
  ReplyHasRequest
  TransferInOrder
  ServedInFull
PROPERTIES
  Answered
  ReleaseAnswers
  ImplementsService
