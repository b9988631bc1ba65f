SPECIFICATION Spec
CONSTANTS
  Chunks = 2
  RetryMax = 1
  Verify = TRUE
  ResumePartial = TRUE
  TLS = FALSE
  MaxQueue = 2
  Events <- CalmEvents
PROPERTIES ImplementsDelivery
\* both peers stop when the transfer has ended
CHECK_DEADLOCK FALSE
