CONSTANTS
  RESPONSE_TIMEOUT = 5
  MTL_POLL_WAIT_TIME = 2
  MaxMessages = 4
  DoorbellMayFail = TRUE
SPECIFICATION FairSpec
INVARIANTS TypeOK ReplyIsMine OneOwner
PROPERTIES CallsReturn ChannelComesBack
CHECK_DEADLOCK FALSE
