SPECIFICATION FairSpec
CONSTANTS
  Chunks = 2
  Streams = 2
  Verify = TRUE
  RetryMax = 1
  MaxClicks = 2
  MaxSockets = 3
  Events <- AllEvents
INVARIANTS DeliveredIsWhole StripesAreAligned
PROPERTIES PausedSendsNothing EveryTransferEnds
\* both peers stop when the transfer has ended
CHECK_DEADLOCK FALSE
