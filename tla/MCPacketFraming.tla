--------------------------- MODULE MCPacketFraming ---------------------------
(***************************************************************************)
(* The instance of PacketFraming that TLC checks: empty packets, packets   *)
(* too short for the reader's loop, one that is long enough, and one above *)
(* the lower of the two limits.                                            *)
(***************************************************************************)
EXTENDS PacketFraming

PayloadSizes == {0, 2, 5, 7}
PacketLimits == {6, 8}
=============================================================================
