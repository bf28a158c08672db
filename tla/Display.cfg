SPECIFICATION Spec
CONSTANTS
  Frames = {4096, 16384}
INVARIANTS TypeOK ScanBacked ModeDescribesScan Balanced OneClock
PROPERTIES TablesWhileOff ScreenPromise
CHECK_DEADLOCK FALSE
