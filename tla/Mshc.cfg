CONSTANTS
  Words = 3
  FifoDepth = 2
  FifoMark = 1
  ReadTimeOut = 2
  MaxRequests = 3
SPECIFICATION FairSpec
INVARIANTS ReadsOwnData WriteIsStored EarlyErrorReported
PROPERTIES ReadReturns
CHECK_DEADLOCK FALSE
