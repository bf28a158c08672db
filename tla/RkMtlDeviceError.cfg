CONSTANTS
  RESPONSE_TIMEOUT = 4
  MTL_POLL_WAIT_TIME = 2
  MaxMessages = 3
  DoorbellMayFail = TRUE
SPECIFICATION Spec
INVARIANTS DeviceErrorMeansBusy
CHECK_DEADLOCK FALSE
