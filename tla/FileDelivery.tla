---------------------------- MODULE FileDelivery ----------------------------
(***************************************************************************)
(* What one upload promises its two users, whatever happens underneath:    *)
(* the file appears in the download folder once and whole, or not at all;  *)
(* an upload reported finished has been delivered; and what has been       *)
(* reported at the end is not taken back.                                  *)
(***************************************************************************)
VARIABLES
  outcome,  \* what the upload's row shows
  file      \* the file under its own name in the download folder

deliveryVars == <<outcome, file>>

Init == outcome = "running" /\ file = "absent"

\* the downloaded file gets its name
Deliver ==
  /\ file = "absent"
  /\ file' = "whole"
  /\ UNCHANGED outcome

\* the receiver has confirmed it
Succeed ==
  /\ outcome = "running" /\ file = "whole"
  /\ outcome' = "finished"
  /\ UNCHANGED file

\* the upload fails or is cancelled, perhaps too late to stop the delivery
GiveUp ==
  /\ outcome = "running"
  /\ outcome' \in {"failed", "cancelled"}
  /\ UNCHANGED file

Next == Deliver \/ Succeed \/ GiveUp

Spec == Init /\ [][Next]_deliveryVars
=============================================================================
