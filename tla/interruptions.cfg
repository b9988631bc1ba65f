SPECIFICATION Spec
CONSTANTS
  Chunks = 2
  RetryMax = 1
  Verify = FALSE
  ResumePartial = TRUE
  TLS = FALSE
  MaxQueue = 1
  Events <- Interruptions
INVARIANTS TypeOK FileIntegrity DigestIsWhole StreamAligned HeaderComesFirst
  FinishedDownloadIsWhole
PROPERTIES DeliveredFileIsStable LossIsRetried CancelIsFinal DeliveredOnce
  InterruptionsKeepBytes
\* both peers stop when the transfer has ended
CHECK_DEADLOCK FALSE
