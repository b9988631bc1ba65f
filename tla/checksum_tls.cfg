SPECIFICATION Spec
CONSTANTS
  Chunks = 2
  RetryMax = 1
  Verify = TRUE
  ResumePartial = TRUE
  TLS = TRUE
  MaxQueue = 2
  Events <- TlsEvents
INVARIANTS FileIntegrity
\* both peers stop when the transfer has ended
CHECK_DEADLOCK FALSE
