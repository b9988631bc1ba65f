---------------------------- MODULE MCSendQueue ----------------------------
(***************************************************************************)
(* The instances of SendQueue that TLC checks.                             *)
(***************************************************************************)
EXTENDS SendQueue

\* a folder with a file that is left out and one that cannot be sent
SomeFolders == {<<"good", "excluded", "bad", "good">>}
=============================================================================
