SPECIFICATION FairSpec
CONSTANTS
  MaxUploads = 3
  MaxTimers = 2
  MaxChoices = {1, 2}
  FolderMax = 1
  Lookahead = 1
  BatchFiles = 2
  Folders <- SomeFolders
  Receivers = 1
  Users = {"pause", "cancel", "clear", "select", "settings"}
INVARIANTS TypeOK
PROPERTIES SlotsWithinLimit CancelAllStopsEverything OldestFirst
  QueueAdvances FolderIsMapped
\* a user may stop sending
CHECK_DEADLOCK FALSE
