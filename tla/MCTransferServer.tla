-------------------------- MODULE MCTransferServer --------------------------
(***************************************************************************)
(* The instances of TransferServer that TLC checks.                        *)
(***************************************************************************)
EXTENDS TransferServer

AllUsers == {"pause", "cancel", "clear", "delete", "select"}
=============================================================================
