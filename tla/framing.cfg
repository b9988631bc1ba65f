SPECIFICATION FairSpec
CONSTANTS
  Sizes <- PayloadSizes
  Limits <- PacketLimits
  MaxPackets = 3
  MaxRetries = 1
INVARIANTS TypeOK OnlyATinyPacketWaits
PROPERTIES ImplementsStream
\* the peer writes no more and the transfer may end
CHECK_DEADLOCK FALSE
