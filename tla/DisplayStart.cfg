SPECIFICATION Spec
CONSTANTS
  Frames = {4096, 16384}
INVARIANTS StartedWithMode
CHECK_DEADLOCK FALSE
