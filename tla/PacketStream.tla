---------------------------- MODULE PacketStream ----------------------------
(***************************************************************************)
(* What a reader of packets promises, however TCP cuts them up: it takes   *)
(* the packets of the connection in the order they were written, each one  *)
(* once and whole, until a packet ends the transfer, the reader is stopped *)
(* or the next packet is larger than it is willing to take.  A packet need *)
(* not be taken before another one follows it.                             *)
(***************************************************************************)
EXTENDS Naturals, Sequences

CONSTANT Packet

VARIABLES
  sent,   \* the packets written to the connection
  taken,  \* those handed to their handlers
  over,   \* why the reader listens no more, or "no"
  limit   \* the largest payload it takes

vars == <<sent, taken, over, limit>>

Init == sent = <<>> /\ taken = <<>> /\ over = "no" /\ limit \in Nat

Send == (\E p \in Packet : sent' = Append(sent, p)) /\ UNCHANGED <<taken, over, limit>>

Waits == over = "no" /\ Len(taken) < Len(sent)

Following == sent[Len(taken) + 1]

Take ==
  /\ Waits
  /\ taken' = Append(taken, Following)
  /\ over' = IF Following.kind = "end" THEN "end" ELSE "no"
  /\ UNCHANGED <<sent, limit>>

TakeFollowed == Len(taken) + 1 < Len(sent) /\ Take

Refuse ==
  /\ Waits /\ Following.size > limit
  /\ over' = "refused"
  /\ UNCHANGED <<sent, taken, limit>>

Stop == over = "no" /\ over' = "stopped" /\ UNCHANGED <<sent, taken, limit>>

\* a new connection starts a new stream
Reconnect == over = "no" /\ sent' = <<>> /\ taken' = <<>> /\ UNCHANGED <<over, limit>>

SetLimit == limit' \in Nat /\ UNCHANGED <<sent, taken, over>>

Next == Send \/ Take \/ Refuse \/ Stop \/ Reconnect \/ SetLimit

Spec == Init /\ [][Next]_vars /\ WF_vars(TakeFollowed)
=============================================================================
