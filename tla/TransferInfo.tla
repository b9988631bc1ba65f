---------------------------- MODULE TransferInfo ----------------------------
(***************************************************************************)
(* The life cycle of one transfer (src/src/model/transferinfo.cpp).  Both  *)
(* the Sender and the Receiver own a TransferInfo and drive it with        *)
(* setState() and fail(); every button of the transfer list asks it        *)
(* canPause(), canResume() or canCancel() first.                           *)
(*                                                                         *)
(* The operators below work on any record with the fields state and last   *)
(* (mState and mLastState), so that the modules of the two endpoints can   *)
(* keep them beside the endpoint's own fields.                             *)
(***************************************************************************)

TransferState ==
  {"Idle", "Queued", "Waiting", "Disconnected", "Paused", "Cancelled",
   "Transfering", "Finish", "Failed"}

\* Transfer::isTerminalState()
Terminal == {"Cancelled", "Finish", "Failed", "Disconnected"}

IsTerminal(x) == x.state \in Terminal

CanResume(x) == x.state = "Paused"

CanPause(x) == x.state \in {"Waiting", "Transfering"}

CanCancel(x) == x.state \in {"Queued", "Waiting", "Transfering", "Paused"}

(***************************************************************************)
(* The transitions setState() accepts, by the state it is called in.  It   *)
(* refuses any other silently.                                             *)
(***************************************************************************)
Accepted ==
  [s \in TransferState |->
     CASE s = "Idle"        -> {"Waiting", "Queued"}
       [] s = "Queued"      -> {"Waiting", "Cancelled"}
       [] s = "Waiting"     -> {"Transfering", "Cancelled", "Paused", "Failed"}
       [] s = "Transfering" -> {"Disconnected", "Finish", "Cancelled", "Paused", "Failed"}
       [] s = "Paused"      -> {"Waiting", "Transfering", "Cancelled", "Disconnected"}
       [] OTHER             -> {}]

(***************************************************************************)
(* The state setState(new) leads to.  A paused transfer that is asked to   *)
(* run again goes back to mLastState, not to the state it is asked for.    *)
(***************************************************************************)
NextState(x, new) ==
  CASE new \notin Accepted[x.state] -> x.state
    [] new \in Accepted[x.state] /\ x.state = "Paused" /\ new \in {"Waiting", "Transfering"} -> x.last
    [] OTHER -> new

(***************************************************************************)
(* setState(): mLastState takes the old state even when the transition is  *)
(* refused; a call with the current state changes nothing.                 *)
(***************************************************************************)
SetState(x, new) ==
  IF new = x.state THEN x
  ELSE [x EXCEPT !.state = NextState(x, new), !.last = x.state]

(***************************************************************************)
(* fail(): from any state but Finish and Cancelled, and without a trace in *)
(* mLastState.                                                             *)
(***************************************************************************)
Fail(x) ==
  IF x.state \in {"Finish", "Cancelled"} THEN x ELSE [x EXCEPT !.state = "Failed"]
=============================================================================
