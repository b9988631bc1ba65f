SPECIFICATION FairSpec
CONSTANTS
  MaxConnections = 3
  Ids = {1, 2}
  Cap = 2
  TLS = TRUE
  Users <- AllUsers
INVARIANTS TypeOK CapHolds StreamsGoToTheLatest EndedDownloadsTakeNoStreams
PROPERTIES SelectionStays SlotsComeBack
\* peers may stop connecting
CHECK_DEADLOCK FALSE
