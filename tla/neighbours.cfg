SPECIFICATION FairSpec
CONSTANTS
  Ports = {1, 2}
  DefaultPort = 1
  Folders <- TwoFolders
  DefaultFolder = "home"
  Addresses <- TwoAddresses
  MaxCerts = 2
  Peers <- TwoPeers
  Home <- Homes
  MaxLaunches = 2
  MaxInbox = 1
  Scenarios <- AllScenarios
INVARIANTS TypeOK TrustedFilesAreNotMisdelivered CredentialsMatch LiveSettingsAreStored
PROPERTIES ListCatchesUp
\* the peers may have quit for good
CHECK_DEADLOCK FALSE
