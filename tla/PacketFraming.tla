---------------------------- MODULE PacketFraming ----------------------------
(***************************************************************************)
(* How packets are read back from the bytes of a TCP connection            *)
(* (src/src/transfer/transfer.cpp), and from those of a data socket        *)
(* (src/src/transfer/receiver.cpp).  A packet is its payload's size in 4   *)
(* bytes, its type in 1, and the payload.  Bytes arrive in any portions.   *)
(*                                                                         *)
(* One connection is modelled, of either kind.  A data socket starts as a  *)
(* control connection: its first packet, the attach header, is read by a   *)
(* Receiver of its own, which hands the socket over to the download's      *)
(* Receiver but not the bytes it has read.                                 *)
(***************************************************************************)
EXTENDS Integers, SequencesExt

CONSTANTS
  Sizes,       \* payload sizes of the packets
  Limits,      \* values MaxPacketSize is set to
  MaxPackets,  \* bounds the packets of one connection
  MaxRetries   \* bounds the reconnects

ASSUME FramingAssumption ==
  /\ Sizes \subseteq Nat /\ \E max \in Sizes : \A n \in Sizes : n <= max
  /\ Limits \subseteq Nat \ {0} /\ Limits # {}
  /\ MaxPackets \in Nat \ {0} /\ MaxRetries \in Nat

VARIABLES
  data,     \* a data socket, not a control connection
  sent,     \* the packets written to the connection
  wire,     \* bytes under way
  reader,   \* who reads: "control" (Transfer) or "data" (Receiver's data sockets)
  mBuff,    \* its buffer
  size,     \* mPacketSize: of the packet whose size is already out of the buffer, or -1
  looping,  \* the reader is in its loop over the buffer
  taken,    \* packets handed to their handlers
  over,     \* why nothing is read any more, or "no"
  limit,    \* MaxPacketSize
  retries

writer == <<data, sent, retries>>
buffer == <<mBuff, size>>
vars == <<data, sent, wire, reader, mBuff, size, looping, taken, over, limit, retries>>

\* sizeof(mPacketSize) and mHeaderSize
SizeBytes == 4
HeaderSize == SizeBytes + 1

(***************************************************************************)
(* Packets by what their handlers do to the reader: "attach" hands the     *)
(* socket over, "end" ends the transfer (Finish, Cancel), the others are   *)
(* "more".  A byte is known by the packet it belongs to and its place      *)
(* there.                                                                  *)
(***************************************************************************)
Packet == [kind : {"attach", "more", "end"}, size : Sizes]

Byte == [packet : 1 .. MaxPackets, at : 1 .. HeaderSize + Max(Sizes)]

Bytes(n, p) == [i \in 1 .. HeaderSize + p.size |-> [packet |-> n, at |-> i]]

\* the size found at the head of a buffer; -1 stands for what is read off the mark
SizeIn(buff) ==
  IF /\ buff[1].packet \in DOMAIN sent
     /\ \A i \in 1 .. SizeBytes : buff[i] = [packet |-> buff[1].packet, at |-> i]
    THEN sent[buff[1].packet].size ELSE -1

ValidType(buff) == buff[1].at = HeaderSize /\ buff[1].packet \in DOMAIN sent

Drop(buff, n) == SubSeq(buff, n + 1, Len(buff))

Init ==
  /\ data \in BOOLEAN
  /\ sent = <<>> /\ wire = <<>> /\ taken = <<>>
  /\ reader = "control" /\ mBuff = <<>> /\ size = -1
  /\ looping = FALSE /\ over = "no"
  /\ limit \in Limits
  /\ retries = 0

-----------------------------------------------------------------------------
(***************************************************************************)
(* The peer.  It waits for the attach to be acknowledged before it writes  *)
(* to a data socket, so for the hand-over to be done.                      *)
(***************************************************************************)

MayWrite(p) ==
  IF ~data THEN p.kind # "attach"
  ELSE /\ p.size > SizeBytes
       /\ IF sent = <<>> THEN p.kind = "attach" ELSE p.kind = "more" /\ reader = "data"

WritePacket ==
  /\ Len(sent) < MaxPackets
  /\ \E p \in Packet :
       /\ MayWrite(p)
       /\ sent' = Append(sent, p)
       /\ wire' = wire \o Bytes(Len(sent) + 1, p)
  /\ UNCHANGED <<data, retries, reader, buffer, looping, taken, over, limit>>

(***************************************************************************)
(* The reader.                                                             *)
(***************************************************************************)

\* failTransfer(), and fail() on a data socket
FailReader(why) ==
  /\ over' = why /\ looping' = FALSE
  /\ mBuff' = <<>> /\ size' = -1
  /\ UNCHANGED <<reader, taken>>

\* onReadyRead() and processStripedSocketReadyRead() up to their loops
ReadyRead ==
  /\ ~looping /\ over = "no"
  /\ \E n \in 1 .. Len(wire) :
       mBuff' = mBuff \o SubSeq(wire, 1, n) /\ wire' = Drop(wire, n)
  /\ looping' = TRUE
  /\ UNCHANGED <<writer, reader, size, taken, over, limit>>

\* mutant: an empty packet at the end of the buffer is left there
StopsAtAHeader ==
  /\ looping /\ Len(mBuff) <= HeaderSize
  /\ looping' = FALSE
  /\ UNCHANGED <<writer, wire, reader, buffer, taken, over, limit>>

\* the loops end when less than a header is left
NothingToRead ==
  /\ looping /\ Len(mBuff) < HeaderSize
  /\ looping' = FALSE
  /\ UNCHANGED <<writer, wire, reader, buffer, taken, over, limit>>

TooLarge(n) == n < 0 \/ n > limit

\* processPacket() with the packet that rest starts with
Take(rest, n) ==
  LET p == sent[rest[1].packet]
  IN  /\ taken' = Append(taken, p)
      /\ size' = -1
      /\ over' = IF p.kind = "end" THEN "end" ELSE "no"
      /\ IF p.kind = "attach"
           THEN reader' = "data" /\ mBuff' = <<>> /\ looping' = FALSE
           ELSE reader' = reader /\ mBuff' = Drop(rest, n + 1) /\ looping' = (p.kind = "more")

ConsumeNextPacket ==
  LET n == IF size < 0 THEN SizeIn(mBuff) ELSE size
      rest == IF size < 0 THEN Drop(mBuff, SizeBytes) ELSE mBuff
      whole == Len(rest) >= n + 1
      refused == \/ size < 0 /\ TooLarge(n)
                 \/ whole /\ ~ValidType(rest)
  IN  /\ looping /\ reader = "control" /\ Len(mBuff) >= HeaderSize
      /\ \/ refused /\ FailReader("refused")
         \/ /\ ~refused /\ ~whole
            /\ mBuff' = rest /\ size' = n /\ looping' = FALSE
            /\ UNCHANGED <<reader, taken, over>>
         \/ ~refused /\ whole /\ Take(rest, n)
      /\ UNCHANGED <<writer, wire, limit>>

\* the loop of processStripedSocketReadyRead(), which takes the size in a turn of its own
ReadStripedPacket ==
  /\ looping /\ reader = "data" /\ Len(mBuff) >= HeaderSize
  /\ \/ size < 0 /\ TooLarge(SizeIn(mBuff)) /\ FailReader("refused")
     \/ /\ size < 0 /\ ~TooLarge(SizeIn(mBuff))
        /\ size' = SizeIn(mBuff) /\ mBuff' = Drop(mBuff, SizeBytes)
        /\ UNCHANGED <<reader, looping, taken, over>>
     \/ /\ size >= 0 /\ Len(mBuff) < size + 1
        /\ looping' = FALSE /\ UNCHANGED <<reader, buffer, taken, over>>
     \/ size >= 0 /\ Len(mBuff) >= size + 1 /\ Take(mBuff, size)
  /\ UNCHANGED <<writer, wire, limit>>

\* a cancel, an idle timeout or an I/O error of the reading side
StopReading ==
  /\ ~looping /\ over = "no"
  /\ FailReader("stopped")
  /\ UNCHANGED <<writer, wire, limit>>

\* mutant: retryConnect() without clearReadBuffer()
RetryKeepsBuffer ==
  /\ ~data /\ ~looping /\ over = "no"
  /\ retries < MaxRetries
  /\ sent' = <<>> /\ wire' = <<>> /\ taken' = <<>>
  /\ retries' = retries + 1
  /\ UNCHANGED <<data, reader, buffer, looping, over, limit>>

\* retryConnect() of a Sender whose connection was lost, half a packet unread
RetryConnect ==
  /\ ~data /\ ~looping /\ over = "no"
  /\ retries < MaxRetries
  /\ sent' = <<>> /\ wire' = <<>> /\ taken' = <<>>
  /\ mBuff' = <<>> /\ size' = -1
  /\ retries' = retries + 1
  /\ UNCHANGED <<data, reader, looping, over, limit>>

\* mutant: the setter takes any value
SetAnyPacketSize ==
  /\ ~looping
  /\ limit' \in Limits \cup {0}
  /\ UNCHANGED <<writer, wire, reader, buffer, looping, taken, over>>

\* the user saves the settings
SetMaxPacketSize ==
  /\ ~looping
  /\ limit' \in Limits \ {limit}
  /\ UNCHANGED <<writer, wire, reader, buffer, looping, taken, over>>

Next ==
  \/ WritePacket \/ ReadyRead \/ NothingToRead \/ ConsumeNextPacket \/ ReadStripedPacket
  \/ StopReading \/ RetryConnect \/ SetMaxPacketSize

Spec == Init /\ [][Next]_vars

\* bytes on their way arrive, and the event loop runs the reader's slot to its end
FairSpec ==
  Spec /\ WF_vars(ReadyRead) /\ WF_vars(NothingToRead \/ ConsumeNextPacket \/ ReadStripedPacket)

-----------------------------------------------------------------------------
\* every variable has its type, and MaxPacketSize one of its values
TypeOK ==
  /\ data \in BOOLEAN /\ looping \in BOOLEAN
  /\ over \in {"no", "end", "stopped", "refused"}
  /\ sent \in Seq(Packet) /\ taken \in Seq(Packet)
  /\ wire \in Seq(Byte) /\ mBuff \in Seq(Byte)
  /\ size \in Sizes \cup {-1}
  /\ reader \in {"control", "data"}
  /\ limit \in Limits /\ retries \in 0 .. MaxRetries

(***************************************************************************)
(* When all bytes have been read, every packet has been taken but for one  *)
(* case: the loop of onReadyRead() asks for a whole header even when the   *)
(* size of the last packet is already out of the buffer, so that a last    *)
(* packet of one to three bytes that came in two portions waits for the    *)
(* next packet.  Data packets can be that short, but Finish follows them.  *)
(***************************************************************************)
OnlyATinyPacketWaits ==
  over = "no" /\ ~looping /\ wire = <<>> =>
    \/ Len(taken) = Len(sent)
    \/ /\ reader = "control" /\ Len(taken) + 1 = Len(sent)
       /\ sent[Len(sent)].size + 1 \in 2 .. SizeBytes

(***************************************************************************)
(* Whatever the portions in which bytes arrive, and over reconnects in the *)
(* middle of a packet and the hand-over of data sockets, the handlers see  *)
(* the packets that were written, in order, whole and once; all of those   *)
(* that another one follows; and no packet is refused but one that is      *)
(* larger than MaxPacketSize.                                              *)
(***************************************************************************)
Stream == INSTANCE PacketStream
ImplementsStream == Stream!Spec
=============================================================================
