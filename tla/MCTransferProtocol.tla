------------------------- MODULE MCTransferProtocol -------------------------
(***************************************************************************)
(* The instances of TransferProtocol that TLC checks: each configuration   *)
(* picks one of the sets of events below.  A set leaves out what makes its *)
(* property fail by itself (those failures have runs of their own) and     *)
(* what only multiplies states without touching the question asked.        *)
(***************************************************************************)
EXTENDS TransferProtocol

\* everything that ends or disturbs a connection, and both users pressing pause and
\* resume, on a peer that does not verify checksums
Interruptions ==
  {"break", "busy", "refuse", "reject", "writeError", "readError", "oldPart",
   "senderPause", "receiverPause", "senderCancel", "receiverCancel"}

\* what can put wrong bytes into a .part
BadParts ==
  {"break", "ackTimeout", "foreignPart", "oldPart", "receiverPause", "receiverCancel"}

\* the same and all else, on the one connection an upload has with TLS
TlsEvents ==
  BadParts \cup {"senderPause", "senderCancel", "pinMismatch", "idle", "busy"}

\* connections that do not break
CalmEvents ==
  {"senderPause", "receiverPause", "senderCancel", "receiverCancel", "busy", "reject",
   "refuse", "oldPart"}

\* no one pauses for ever, and the idle timer runs
BusyDay ==
  {"senderCancel", "receiverCancel", "busy", "reject", "refuse", "break", "idle",
   "readError"}
=============================================================================
