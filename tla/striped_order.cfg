SPECIFICATION Spec
CONSTANTS
  Chunks = 2
  Streams = 2
  Verify = TRUE
  RetryMax = 0
  MaxClicks = 0
  MaxSockets = 2
  Events = {}
INVARIANTS UndisturbedIsAccepted
CHECK_DEADLOCK FALSE
