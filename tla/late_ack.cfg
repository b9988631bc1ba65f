SPECIFICATION Spec
CONSTANTS
  Chunks = 2
  RetryMax = 1
  Verify = FALSE
  ResumePartial = TRUE
  TLS = FALSE
  MaxQueue = 1
  Events = {"ackTimeout", "oldPart"}
INVARIANTS FileIntegrity
\* both peers stop when the transfer has ended
CHECK_DEADLOCK FALSE
