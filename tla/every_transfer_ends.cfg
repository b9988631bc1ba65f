SPECIFICATION FairSpec
CONSTANTS
  Chunks = 2
  RetryMax = 1
  Verify = TRUE
  ResumePartial = TRUE
  TLS = FALSE
  MaxQueue = 2
  Events <- BusyDay
PROPERTIES EveryTransferEnds
\* both peers stop when the transfer has ended
CHECK_DEADLOCK FALSE
