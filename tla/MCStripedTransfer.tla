------------------------- MODULE MCStripedTransfer -------------------------
(***************************************************************************)
(* The instances of StripedTransfer that TLC checks.                       *)
(***************************************************************************)
EXTENDS StripedTransfer

\* all but a retry that overtakes the set-up of the data sockets
AllEvents ==
  {"senderPause", "receiverPause", "cancel", "break", "streamBreak", "busyStream", "fallback"}
=============================================================================
