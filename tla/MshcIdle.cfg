CONSTANTS
  Words = 2
  FifoDepth = 2
  FifoMark = 1
  ReadTimeOut = 2
  MaxRequests = 3
SPECIFICATION Spec
INVARIANTS IdleWhenIssued
CHECK_DEADLOCK FALSE
