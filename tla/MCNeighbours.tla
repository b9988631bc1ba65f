---------------------------- MODULE MCNeighbours ----------------------------
(***************************************************************************)
(* The instance of Neighbours that TLC checks.  The settings, the moves of *)
(* addresses and the trouble with credentials are scenarios of their own.  *)
(***************************************************************************)
EXTENDS Neighbours

TwoAddresses == {1, 2}
TwoFolders == {"home", "usb"}

TwoPeers == {"ann", "bob"}
Homes == [ann |-> 1, bob |-> 2]

Scenario(folk, happens) == [peers |-> folk, events |-> happens]

AllScenarios ==
  { Scenario({}, {"storage", "folder", "restart"}),
    Scenario({"ann"}, {"network", "restart"}),
    Scenario(TwoPeers, {"move"}),
    Scenario({"ann"}, {"relaunch", "crash", "disk", "pins"}),
    Scenario({"ann"}, {"relaunch", "reinstall", "store"}),
    Scenario({"ann"}, {"move", "relaunch"}) }
=============================================================================
