SPECIFICATION Spec
CONSTANTS
  Requests <- AllRequests
  UseAuthorization = TRUE
  Limit = 2
  MaxRequests = 4
INVARIANTS
  LimitRespected
  OneOperationEach
  InOrder
PROPERTIES
  NothingAfterClose
  QueuedIsWritten
  FullReadsAgain
CHECK_DEADLOCK FALSE
