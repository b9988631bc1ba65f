------------------------- MODULE MCTransferJournal -------------------------
(***************************************************************************)
(* The instances of TransferJournal that TLC checks.                       *)
(***************************************************************************)
EXTENDS TransferJournal

\* each process has an upload of its own: uploads 2 and 3 those of processes 1 and 2
EachUploads == [u \in Uploads |-> u - 1]
=============================================================================
