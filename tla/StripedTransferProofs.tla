------------------------ MODULE StripedTransferProofs ------------------------
(***************************************************************************)
(* Proofs about StripedTransfer: its types, the alignment of chunks and    *)
(* offsets, that a pause sends nothing and that what is delivered is the   *)
(* file, for any number of chunks, streams, retries, pauses and sockets,   *)
(* and any trouble but a retry that overtakes the set-up of the data       *)
(* sockets ("slowAttach").                                                 *)
(***************************************************************************)
EXTENDS StripedTransfer, SequenceTheorems, WellFoundedInduction, TLAPS

-----------------------------------------------------------------------------
(***************************************************************************)
(* The invariant, by the parts of the system.                              *)
(***************************************************************************)

(***************************************************************************)
(* The Sender s, with su for setup.  While it waits for an OffsetAck the   *)
(* file is at its beginning, no timer of the striped pump is pending and   *)
(* nothing waits in setupDataSockets(); so the digest is of the whole file *)
(* and the first chunk is the one at offset 0.                             *)
(***************************************************************************)
SenderOK(s, su) ==
  /\ s \in Sender /\ s.state # "Idle" /\ s.last # "Idle"
  /\ s.retry => s.attempt < RetryMax
  /\ s.hashFrom = 0
  /\ s.waiting => s.pos = 0 /\ s.stripers = 0 /\ su = <<>>
  /\ s.active > 1 /\ ~s.waiting /\ ~IsTerminal(s) => s.next = s.pos

\* packets to the Receiver: the digest of a Finish is of the whole file
UpPacket == {p \in Packet : p.type = "Finish" => p.n = 0}

Stream == [attempt : 0 .. RetryMax, queue : Seq([at : Nat, n : Chunk]), open : BOOLEAN]

NetOK ==
  /\ link \in {"up", "down", "off"} /\ up \in Seq(UpPacket) /\ down \in Seq(Packet)
  /\ streams \in Seq(Stream) /\ setup \in Seq(0 .. Streams)

ReceiverOK(r) == r \in Receiver /\ r.pos <= r.high /\ r.digest = 0

FilesOK ==
  /\ part \in [Chunk -> 0 .. Chunks] /\ final \in [Chunk -> 0 .. Chunks]
  /\ DeliveredIsWhole

StripedInv ==
  /\ SenderOK(snd, setup) /\ NetOK /\ ReceiverOK(rcv) /\ FilesOK
  /\ clicks \in 0 .. MaxClicks

-----------------------------------------------------------------------------
(***************************************************************************)
(* Packets.                                                                *)
(***************************************************************************)

LEMMA PacketTypes ==
  /\ UpPacket \subseteq Packet
  /\ P("Header", 0) \in UpPacket /\ P("Cancel", 0) \in UpPacket /\ P("Finish", 0) \in UpPacket
  /\ \A n \in 0 .. Chunks : P("Data", n) \in UpPacket /\ P("OffsetAck", n) \in Packet
  /\ P("FinishAck", 0) \in Packet /\ P("Cancel", 0) \in Packet
  /\ P("Pause", 0) \in Packet /\ P("Resume", 0) \in Packet
  BY StripedAssumption DEF P, UpPacket, Packet, StripedAssumption

LEMMA ToReceiverType ==
  ASSUME NetOK, NEW p \in UpPacket, ToReceiver(p)
  PROVE  up' \in Seq(UpPacket)
  BY DEF NetOK, ToReceiver

-----------------------------------------------------------------------------
(***************************************************************************)
(* The Sender's helpers.                                                   *)
(***************************************************************************)

(***************************************************************************)
(* A record that differs from a good one only in what the invariant does   *)
(* not speak of, or has ended, is good.                                    *)
(***************************************************************************)
LEMMA SameCourse ==
  ASSUME NEW s, NEW su, SenderOK(s, su), NEW t \in Sender,
         t.state # "Idle", t.last # "Idle", IsTerminal(s) => IsTerminal(t),
         t.retry => s.retry, t.attempt = s.attempt,
         t.active = s.active \/ t.active = 1, t.next = s.next, t.pos = s.pos,
         t.hashFrom = s.hashFrom, t.waiting = s.waiting, t.stripers = s.stripers
  PROVE  SenderOK(t, su)
  BY DEF SenderOK

LEMMA CloseDataSocketsOK ==
  ASSUME NEW s, NEW su, SenderOK(s, su)
  PROVE  SenderOK(CloseDataSockets(s), su)
<1> DEFINE t == [s EXCEPT !.sockets = <<>>]
<1>1. /\ t \in Sender /\ t.state = s.state /\ t.last = s.last /\ t.retry = s.retry
      /\ t.attempt = s.attempt /\ t.active = s.active /\ t.next = s.next /\ t.pos = s.pos
      /\ t.hashFrom = s.hashFrom /\ t.waiting = s.waiting /\ t.stripers = s.stripers
  <2>1. s \in Sender BY DEF SenderOK
  <2>2. <<>> \in Seq(1 .. MaxSockets) OBVIOUS
  <2> QED BY <2>1, <2>2 DEF Sender
<1>2. CloseDataSockets(s) = t BY DEF CloseDataSockets
<1> HIDE DEF t
<1> QED BY <1>1, <1>2, SameCourse DEF SenderOK, IsTerminal

LEMMA ScheduleOK ==
  ASSUME NEW s, NEW su, SenderOK(s, su)
  PROVE  SenderOK(ScheduleSendData(s), su)
<1> DEFINE t == [s EXCEPT !.scheduled = TRUE, !.pumps = @ + 1]
<1>1. /\ t \in Sender /\ t.state = s.state /\ t.last = s.last /\ t.retry = s.retry
      /\ t.attempt = s.attempt /\ t.active = s.active /\ t.next = s.next /\ t.pos = s.pos
      /\ t.hashFrom = s.hashFrom /\ t.waiting = s.waiting /\ t.stripers = s.stripers
  <2>1. s \in Sender /\ s.pumps + 1 \in Nat BY DEF SenderOK, Sender
  <2> QED BY <2>1 DEF Sender
<1>2. ScheduleSendData(s) \in {s, t} BY DEF ScheduleSendData
<1> HIDE DEF t
<1> QED BY <1>1, <1>2, SameCourse DEF SenderOK, IsTerminal

\* setState() neither reopens a transfer nor makes it idle
LEMMA SetStateOK ==
  ASSUME NEW s, NEW su, SenderOK(s, su), NEW new \in TransferState \ {"Idle"}
  PROVE  /\ SenderOK(SetState(s, new), su)
         /\ SetState(s, new).waiting = s.waiting /\ SetState(s, new).cancelled = s.cancelled
<1>1. s.state \in TransferState \ {"Idle"} /\ s.last \in TransferState \ {"Idle"}
  BY DEF SenderOK, Sender
<1>2. CASE new = s.state BY <1>2 DEF SetState
<1>3. CASE new # s.state
  <2> DEFINE n == NextState(s, new)
             t == [s EXCEPT !.state = n, !.last = s.state]
  <2>1. n \in TransferState \ {"Idle"} /\ (IsTerminal(s) => n = s.state)
    BY <1>1 DEF NextState, IsTerminal, Terminal, Accepted, TransferState
  <2>2. SetState(s, new) = t BY <1>3 DEF SetState
  <2> HIDE DEF n
  <2>3. /\ t \in Sender /\ t.state = n /\ t.last = s.state /\ t.retry = s.retry
        /\ t.attempt = s.attempt /\ t.active = s.active /\ t.next = s.next /\ t.pos = s.pos
        /\ t.hashFrom = s.hashFrom /\ t.waiting = s.waiting /\ t.stripers = s.stripers
        /\ t.cancelled = s.cancelled
    BY <1>1, <2>1 DEF SenderOK, Sender
  <2> HIDE DEF t
  <2> QED BY <1>1, <2>1, <2>2, <2>3, SameCourse DEF IsTerminal
<1> QED BY <1>2, <1>3

LEMMA FailOK ==
  ASSUME NEW s, NEW su, SenderOK(s, su)
  PROVE  SenderOK(Fail(s), su)
<1> DEFINE t == [s EXCEPT !.state = "Failed"]
<1>1. /\ t \in Sender /\ t.state = "Failed" /\ t.last = s.last /\ t.retry = s.retry
      /\ t.attempt = s.attempt /\ t.active = s.active /\ t.next = s.next /\ t.pos = s.pos
      /\ t.hashFrom = s.hashFrom /\ t.waiting = s.waiting /\ t.stripers = s.stripers
  BY DEF SenderOK, Sender, TransferState
<1>2. Fail(s) \in {s, t} BY DEF Fail
<1> HIDE DEF t
<1> QED BY <1>1, <1>2, SameCourse DEF SenderOK, IsTerminal, Terminal

LEMMA CompleteUploadOK ==
  ASSUME NEW s, NEW su, SenderOK(s, su)
  PROVE  SenderOK(CompleteUpload(s), su)
<1> DEFINE t == [s EXCEPT !.finishing = FALSE, !.scheduled = FALSE]
<1>1. /\ t \in Sender /\ t.state = s.state /\ t.last = s.last /\ t.retry = s.retry
      /\ t.attempt = s.attempt /\ t.active = s.active /\ t.next = s.next /\ t.pos = s.pos
      /\ t.hashFrom = s.hashFrom /\ t.waiting = s.waiting /\ t.stripers = s.stripers
  BY DEF SenderOK, Sender
<1>2. CompleteUpload(s) = IF IsTerminal(s) THEN s ELSE SetState(t, "Finish")
  BY DEF CompleteUpload
<1> HIDE DEF t
<1>3. SenderOK(t, su) BY <1>1, SameCourse DEF SenderOK, IsTerminal
<1>4. "Finish" \in TransferState \ {"Idle"} BY DEF TransferState
<1> QED BY <1>2, <1>3, <1>4, SetStateOK

\* finish() sends the digest of the whole file
LEMMA FinishOK ==
  ASSUME NEW s, NEW su, SenderOK(s, su), NetOK, Finish(s)
  PROVE  SenderOK(snd', su) /\ up' \in Seq(UpPacket)
<1> DEFINE t == [s EXCEPT !.finishing = TRUE]
<1>1. /\ t \in Sender /\ t.state = s.state /\ t.last = s.last /\ t.retry = s.retry
      /\ t.attempt = s.attempt /\ t.active = s.active /\ t.next = s.next /\ t.pos = s.pos
      /\ t.hashFrom = s.hashFrom /\ t.waiting = s.waiting /\ t.stripers = s.stripers
  BY DEF SenderOK, Sender
<1>2. CASE snd' = s /\ UNCHANGED up
  BY <1>2 DEF NetOK
<1>3. CASE snd' = t /\ ToReceiver(P("Finish", s.hashFrom))
  <2>1. s.hashFrom = 0 BY DEF SenderOK
  <2>2. up' \in Seq(UpPacket) BY <1>3, <2>1, PacketTypes, ToReceiverType
  <2> HIDE DEF t
  <2> QED BY <1>1, <1>3, <2>2, SameCourse DEF SenderOK, IsTerminal
<1> QED BY <1>2, <1>3 DEF Finish

-----------------------------------------------------------------------------
(***************************************************************************)
(* The pumps.                                                              *)
(***************************************************************************)

\* a chunk of the single stream
LEMMA AdvanceOK ==
  ASSUME NEW s, NEW su, SenderOK(s, su), s.left # 0, s.pos < Chunks, ~s.waiting
  PROVE  /\ Advance(s) \in Sender /\ Advance(s).pos \in Chunk
         /\ Advance(s).state = s.state /\ Advance(s).last = s.last
         /\ Advance(s).retry = s.retry /\ Advance(s).attempt = s.attempt
         /\ Advance(s).active = s.active /\ Advance(s).next = s.next
         /\ Advance(s).pos = s.pos + 1 /\ Advance(s).hashFrom = 0
         /\ ~Advance(s).waiting
<1>1. s \in Sender BY DEF SenderOK
<1>2. s.left - 1 \in 0 .. Chunks /\ s.pos + 1 \in 0 .. Chunks /\ s.pos + 1 \in Chunk
  BY <1>1, StripedAssumption DEF Sender, Chunk, StripedAssumption
<1> DEFINE t == [s EXCEPT !.left = @ - 1, !.pos = @ + 1]
<1>3. /\ t \in Sender /\ t.state = s.state /\ t.last = s.last /\ t.retry = s.retry
      /\ t.attempt = s.attempt /\ t.active = s.active /\ t.next = s.next /\ t.pos = s.pos + 1
      /\ t.hashFrom = s.hashFrom /\ t.waiting = s.waiting
  BY <1>1, <1>2 DEF Sender
<1>4. s.hashFrom = 0 BY DEF SenderOK
<1>5. Advance(s) = t BY DEF Advance
<1> HIDE DEF t
<1> QED BY <1>2, <1>3, <1>4, <1>5

(***************************************************************************)
(* A chunk of a striped upload: offset and position advance together.      *)
(***************************************************************************)
LEMMA ChunkWrittenOK ==
  ASSUME NEW s, NEW su, SenderOK(s, su), NEW ss \in Seq(Stream), NEW i,
         s.left # 0, s.pos < Chunks, ~s.waiting, NetOK, ChunkWritten(s, ss, i)
  PROVE  /\ SenderOK(snd', su) /\ up' \in Seq(UpPacket) /\ streams' \in Seq(Stream)
         /\ UNCHANGED link
<1>0. PICK t :
        /\ t = [Advance(s) EXCEPT !.next = @ + 1, !.index = @ + 1]
        /\ IF t.left = 0 THEN Finish(t)
           ELSE /\ snd' = [t EXCEPT !.scheduled = TRUE, !.stripers = @ + 1]
                /\ UNCHANGED up
        /\ streams' = IF ss[i].open
                      THEN [ss EXCEPT ![i].queue = Append(@, [at |-> t.next, n |-> t.pos])] ELSE ss
        /\ UNCHANGED link
  BY Zenon DEF ChunkWritten
<1> DEFINE a == Advance(s)
<1>1. /\ a \in Sender /\ a.pos \in Chunk /\ a.state = s.state /\ a.last = s.last
      /\ a.retry = s.retry /\ a.attempt = s.attempt /\ a.active = s.active
      /\ a.next = s.next /\ a.pos = s.pos + 1 /\ a.hashFrom = 0 /\ ~a.waiting
  BY AdvanceOK
<1>a. t = [a EXCEPT !.next = @ + 1, !.index = @ + 1] BY <1>0
<1> HIDE DEF a
<1>2. /\ t \in Sender /\ t.pos \in Chunk /\ t.state = s.state /\ t.last = s.last
      /\ t.retry = s.retry /\ t.attempt = s.attempt /\ t.active = s.active
      /\ t.next = s.next + 1 /\ t.pos = s.pos + 1 /\ t.hashFrom = 0 /\ ~t.waiting
  <2>1. a.next + 1 \in Nat /\ a.index + 1 \in Nat BY <1>1 DEF Sender
  <2> QED BY <1>1, <1>a, <2>1 DEF Sender
<1>3. SenderOK(t, su)
  BY <1>2 DEF SenderOK, IsTerminal
<1>4. /\ \/ t.left = 0 /\ Finish(t)
         \/ snd' = [t EXCEPT !.scheduled = TRUE, !.stripers = @ + 1] /\ UNCHANGED up
      /\ UNCHANGED link
  BY <1>0
<1>s. \/ streams' = [ss EXCEPT ![i].queue = Append(@, [at |-> t.next, n |-> t.pos])]
      \/ streams' = ss
  BY <1>0
<1>5. SenderOK(snd', su) /\ up' \in Seq(UpPacket)
  <2>1. CASE Finish(t) BY <1>3, <2>1, FinishOK
  <2>2. CASE snd' = [t EXCEPT !.scheduled = TRUE, !.stripers = @ + 1] /\ UNCHANGED up
    <3>1. t.stripers + 1 \in Nat BY <1>2 DEF Sender
    <3>2. /\ snd' \in Sender /\ snd'.state = t.state /\ snd'.last = t.last
          /\ snd'.retry = t.retry /\ snd'.attempt = t.attempt /\ snd'.active = t.active
          /\ snd'.next = t.next /\ snd'.pos = t.pos /\ snd'.hashFrom = 0 /\ ~snd'.waiting
      BY <1>2, <2>2, <3>1 DEF Sender
    <3> QED BY <1>3, <2>2, <3>2 DEF SenderOK, IsTerminal, NetOK
  <2> QED BY <1>4, <2>1, <2>2
<1>6. streams' \in Seq(Stream)
  <2>1. CASE i \in DOMAIN ss
    <3>1. ss[i] \in Stream BY <2>1
    <3>2. [at |-> t.next, n |-> t.pos] \in [at : Nat, n : Chunk] BY <1>2 DEF Sender
    <3>3. Append(ss[i].queue, [at |-> t.next, n |-> t.pos]) \in Seq([at : Nat, n : Chunk])
      BY <3>1, <3>2 DEF Stream
    <3> DEFINE w == [ss[i] EXCEPT !.queue = Append(@, [at |-> t.next, n |-> t.pos])]
    <3>4. w \in Stream BY <3>1, <3>3 DEF Stream
    <3>5. streams' \in {ss, [ss EXCEPT ![i] = w]} BY <1>s
    <3> HIDE DEF w
    <3>6. [ss EXCEPT ![i] = w] \in Seq(Stream) BY <2>1, <3>4
    <3> QED BY <3>5, <3>6
  <2>2. CASE i \notin DOMAIN ss
    BY <1>s, <2>2
  <2> QED BY <2>1, <2>2
<1> QED BY <1>4, <1>5, <1>6

LEMMA SendChunkOK ==
  ASSUME NEW s, NEW su, SenderOK(s, su), NEW ss \in Seq(Stream),
         ~s.waiting, NetOK, SendChunk(s, ss)
  PROVE  /\ SenderOK(snd', su) /\ up' \in Seq(UpPacket) /\ streams' \in Seq(Stream)
         /\ link' \in {"up", "down", "off"}
<1>0. s \in Sender /\ link \in {"up", "down", "off"} /\ up \in Seq(UpPacket)
  BY DEF SenderOK, NetOK
<1>1. CASE Finish(s) /\ streams' = ss /\ UNCHANGED link
  BY <1>0, <1>1, FinishOK
<1>2. CASE snd' = s /\ streams' = ss /\ UNCHANGED <<link, up>>
  BY <1>0, <1>2
<1>3. CASE snd' = [s EXCEPT !.crashed = TRUE] /\ streams' = ss /\ UNCHANGED <<link, up>>
  <2>1. /\ snd' \in Sender /\ snd'.state = s.state /\ snd'.last = s.last
        /\ snd'.retry = s.retry /\ snd'.attempt = s.attempt /\ snd'.active = s.active
        /\ snd'.next = s.next /\ snd'.pos = s.pos /\ snd'.hashFrom = s.hashFrom
        /\ snd'.waiting = s.waiting /\ snd'.stripers = s.stripers
    BY <1>0, <1>3 DEF Sender
  <2> QED BY <1>0, <1>3, <2>1, SameCourse DEF SenderOK, IsTerminal
<1>4. CASE snd' = Fail(s) /\ streams' = ss /\ UNCHANGED <<link, up>>
  BY <1>0, <1>4, FailOK
<1>5. ASSUME NEW i, ChunkRefused(s, ss, i)
      PROVE  /\ SenderOK(snd', su) /\ up' \in Seq(UpPacket) /\ streams' \in Seq(Stream)
             /\ link' \in {"up", "down", "off"}
  <2>1. SenderOK(snd', su)
    BY <1>5, CloseDataSocketsOK, FailOK DEF ChunkRefused
  <2>2. up' \in Seq(UpPacket)
    BY <1>5, PacketTypes, ToReceiverType DEF ChunkRefused
  <2> QED BY <1>0, <1>5, <2>1, <2>2 DEF ChunkRefused
<1>6. ASSUME NEW i, ChunkWritten(s, ss, i), s.left # 0, ~(s.pos >= Chunks)
      PROVE  /\ SenderOK(snd', su) /\ up' \in Seq(UpPacket) /\ streams' \in Seq(Stream)
             /\ link' \in {"up", "down", "off"}
  <2>1. s.pos < Chunks BY <1>0, <1>6, StripedAssumption DEF Sender, StripedAssumption
  <2> QED BY <1>0, <1>6, <2>1, ChunkWrittenOK
<1> QED BY <1>1, <1>2, <1>3, <1>4, <1>5, <1>6 DEF SendChunk

LEMMA SendStripedDataOK ==
  ASSUME NEW s, SenderOK(s, setup), ~s.waiting, NetOK, SendStripedData(s), UNCHANGED down
  PROVE  SenderOK(snd', setup') /\ NetOK'
<1>1. CASE SendChunk(s, streams) /\ UNCHANGED setup
  BY <1>1, SendChunkOK DEF NetOK
<1>2. CASE /\ UNCHANGED <<streams, link, up, setup>>
           /\ snd' = ScheduleSendData([s EXCEPT !.active = 1])
  <2> DEFINE t == [s EXCEPT !.active = 1]
  <2>1. /\ t \in Sender /\ t.state = s.state /\ t.last = s.last /\ t.retry = s.retry
        /\ t.attempt = s.attempt /\ t.active = 1 /\ t.next = s.next /\ t.pos = s.pos
        /\ t.hashFrom = s.hashFrom /\ t.waiting = s.waiting /\ t.stripers = s.stripers
    BY DEF SenderOK, Sender
  <2>2. snd' = ScheduleSendData(t) BY <1>2
  <2> HIDE DEF t
  <2>3. SenderOK(t, setup) BY <2>1, SameCourse DEF SenderOK, IsTerminal
  <2> QED BY <1>2, <2>2, <2>3, ScheduleOK DEF NetOK
<1>3. CASE UNCHANGED <<streams, link, up>> /\ snd' = s /\ setup' = Append(setup, 0)
  <2>1. setup' \in Seq(0 .. Streams)
    BY <1>3, StripedAssumption DEF NetOK, StripedAssumption
  <2>2. SenderOK(snd', setup') BY <1>3 DEF SenderOK
  <2> QED BY <1>3, <2>1, <2>2 DEF NetOK
<1> QED BY <1>1, <1>2, <1>3 DEF SendStripedData

LEMMA SendSingleOK ==
  ASSUME NEW s, SenderOK(s, setup), ~s.waiting, s.left # 0, ~(s.active > 1), NetOK,
         SendSingle(s), UNCHANGED down
  PROVE  SenderOK(snd', setup') /\ NetOK'
<1>0. s \in Sender /\ UNCHANGED <<streams, link, setup>>
  BY DEF SenderOK, SendSingle
<1>1. CASE s.pos >= Chunks
  BY <1>0, <1>1, ScheduleOK DEF SendSingle, NetOK
<1>2. CASE ~(s.pos >= Chunks)
  <2> DEFINE t == Advance(s)
             u == [t EXCEPT !.finishing = TRUE]
  <2>0. s.pos < Chunks BY <1>0, <1>2, StripedAssumption DEF Sender, StripedAssumption
  <2>1. /\ t \in Sender /\ t.pos \in Chunk /\ t.state = s.state /\ t.last = s.last
        /\ t.retry = s.retry /\ t.attempt = s.attempt /\ t.active = s.active
        /\ t.hashFrom = 0 /\ ~t.waiting
    BY <2>0, AdvanceOK
  <2>2. /\ \/ snd' = ScheduleSendData(t)
           \/ snd' = u
        /\ \/ ToReceiver(P("Data", t.pos))
           \/ UNCHANGED up
           \/ up' = up \o <<P("Data", t.pos), P("Finish", t.hashFrom)>>
    BY <1>2 DEF SendSingle
  <2> HIDE DEF t
  <2>3. SenderOK(t, setup)
    BY <2>1 DEF SenderOK
  <2>4. /\ u \in Sender /\ u.state = t.state /\ u.last = t.last /\ u.retry = t.retry
        /\ u.attempt = t.attempt /\ u.active = t.active /\ u.next = t.next /\ u.pos = t.pos
        /\ u.hashFrom = t.hashFrom /\ u.waiting = t.waiting /\ u.stripers = t.stripers
    BY <2>1 DEF Sender
  <2>5. SenderOK(snd', setup)
    <3> HIDE DEF u
    <3>1. SenderOK(u, setup) BY <2>3, <2>4, SameCourse DEF SenderOK, IsTerminal
    <3> QED BY <2>2, <2>3, <3>1, ScheduleOK
  <2>6. P("Data", t.pos) \in UpPacket /\ P("Finish", t.hashFrom) \in UpPacket
    <3>1. t.pos \in 0 .. Chunks BY <2>1 DEF Chunk
    <3> QED BY <2>1, <3>1, PacketTypes
  <2>7. up' \in Seq(UpPacket)
    <3>1. <<P("Data", t.pos), P("Finish", t.hashFrom)>> \in Seq(UpPacket) BY <2>6
    <3>2. CASE UNCHANGED up BY <3>2 DEF NetOK
    <3>3. CASE ToReceiver(P("Data", t.pos)) BY <2>6, <3>3, ToReceiverType
    <3>4. CASE up' = up \o <<P("Data", t.pos), P("Finish", t.hashFrom)>>
      BY <3>1, <3>4 DEF NetOK
    <3> QED BY <2>2, <3>2, <3>3, <3>4
  <2> QED BY <1>0, <2>5, <2>7 DEF NetOK
<1> QED BY <1>1, <1>2

-----------------------------------------------------------------------------
(***************************************************************************)
(* The steps of the Sender.                                                *)
(***************************************************************************)

LEMMA SendDataOK ==
  ASSUME SenderOK(snd, setup), NetOK, SendData
  PROVE  SenderOK(snd', setup') /\ NetOK'
<1>1. PICK s :
        /\ s = [snd EXCEPT !.pumps = @ - 1, !.scheduled = FALSE]
        /\ IF link = "off" \/ IsTerminal(s) \/ s.left = 0 \/ s.cancelled \/ s.paused
              \/ s.pausedByReceiver \/ s.waiting
           THEN snd' = s /\ UNCHANGED <<streams, link, up, setup>>
           ELSE IF s.active > 1 THEN SendStripedData(s) ELSE SendSingle(s)
  BY Zenon DEF SendData
<1>2. SenderOK(s, setup)
  <2>1. snd \in Sender /\ snd.pumps - 1 \in Nat BY DEF SenderOK, Sender, SendData
  <2>2. /\ s \in Sender /\ s.state = snd.state /\ s.last = snd.last /\ s.retry = snd.retry
        /\ s.attempt = snd.attempt /\ s.active = snd.active /\ s.next = snd.next
        /\ s.pos = snd.pos /\ s.hashFrom = snd.hashFrom /\ s.waiting = snd.waiting
        /\ s.stripers = snd.stripers
    BY <1>1, <2>1 DEF Sender
  <2> QED BY <2>2, SameCourse DEF SenderOK, IsTerminal
<1>3. UNCHANGED down BY DEF SendData, SenderFrame
<1>4. CASE snd' = s /\ UNCHANGED <<streams, link, up, setup>>
  BY <1>2, <1>3, <1>4 DEF NetOK
<1>5. CASE ~s.waiting /\ SendStripedData(s)
  BY <1>2, <1>3, <1>5, SendStripedDataOK
<1>6. CASE ~s.waiting /\ s.left # 0 /\ ~(s.active > 1) /\ SendSingle(s)
  BY <1>2, <1>3, <1>6, SendSingleOK
<1> QED BY <1>1, <1>4, <1>5, <1>6

LEMMA StripeTimerOK ==
  ASSUME SenderOK(snd, setup), NetOK, StripeTimer
  PROVE  SenderOK(snd', setup') /\ NetOK'
<1> DEFINE s == [snd EXCEPT !.stripers = @ - 1, !.scheduled = FALSE]
<1>1. snd \in Sender /\ snd.stripers - 1 \in Nat /\ ~snd.waiting
  BY DEF SenderOK, Sender, StripeTimer
<1>2. /\ s \in Sender /\ s.state = snd.state /\ s.last = snd.last /\ s.retry = snd.retry
      /\ s.attempt = snd.attempt /\ s.active = snd.active /\ s.next = snd.next
      /\ s.pos = snd.pos /\ s.hashFrom = snd.hashFrom /\ ~s.waiting
  BY <1>1 DEF Sender
<1>3. SendStripedData(s) /\ UNCHANGED down BY DEF StripeTimer, SenderFrame
<1> HIDE DEF s
<1>4. SenderOK(s, setup) BY <1>1, <1>2 DEF SenderOK, IsTerminal
<1> QED BY <1>2, <1>3, <1>4, SendStripedDataOK

\* a call of setupDataSockets() ends
LEMMA FrontOfSetup ==
  ASSUME NetOK, setup # <<>>
  PROVE  Front(setup) \in Seq(0 .. Streams)
<1>1. setup \in Seq(0 .. Streams) BY DEF NetOK
<1>2. Len(setup) \in Nat /\ \A k \in 1 .. Len(setup) - 1 : k \in 1 .. Len(setup) BY <1>1
<1>3. \A k \in 1 .. Len(setup) - 1 : setup[k] \in 0 .. Streams BY <1>1, <1>2, ElementOfSeq
<1> QED BY <1>2, <1>3, SubSeqProperties DEF Front

LEMMA StreamOpensOK ==
  ASSUME SenderOK(snd, setup), NetOK, ReceiverOK(rcv), StreamOpens
  PROVE  SenderOK(snd', setup') /\ NetOK'
<1>0. PICK adopted \in BOOLEAN :
        LET ss == Append(streams, [attempt |-> rcv.attempt, queue |-> <<>>, open |-> adopted])
            s == [snd EXCEPT !.sockets = Append(@, Len(ss))]
        IN  IF Opened + 1 < snd.active
            THEN /\ setup' = [setup EXCEPT ![Len(setup)] = @ + 1]
                 /\ snd' = s /\ streams' = ss /\ UNCHANGED <<link, up>>
            ELSE setup' = Front(setup) /\ SendChunk(s, ss)
  BY Zenon DEF StreamOpens
<1>1. PICK ss, s :
        /\ ss = Append(streams, [attempt |-> rcv.attempt, queue |-> <<>>, open |-> adopted])
        /\ s = [snd EXCEPT !.sockets = Append(@, Len(ss))]
        /\ IF Opened + 1 < snd.active
           THEN /\ setup' = [setup EXCEPT ![Len(setup)] = @ + 1]
                /\ snd' = s /\ streams' = ss /\ UNCHANGED <<link, up>>
           ELSE setup' = Front(setup) /\ SendChunk(s, ss)
  BY <1>0, Zenon
<1>2. setup # <<>> /\ Len(streams) < MaxSockets /\ UNCHANGED down /\ snd \in Sender
  BY DEF StreamOpens, SenderFrame, SenderOK
<1>3. ss \in Seq(Stream)
  <2>1. [attempt |-> rcv.attempt, queue |-> <<>>, open |-> adopted] \in Stream
    BY <1>1 DEF ReceiverOK, Receiver, Stream
  <2> QED BY <1>1, <2>1 DEF NetOK
<1>4. Len(ss) \in 1 .. MaxSockets
  BY <1>1, <1>2, StripedAssumption DEF NetOK, StripedAssumption
<1>5. /\ s \in Sender /\ s.state = snd.state /\ s.last = snd.last /\ s.retry = snd.retry
      /\ s.attempt = snd.attempt /\ s.active = snd.active /\ s.next = snd.next
      /\ s.pos = snd.pos /\ s.hashFrom = snd.hashFrom /\ s.waiting = snd.waiting
      /\ s.stripers = snd.stripers
  <2>1. Append(snd.sockets, Len(ss)) \in Seq(1 .. MaxSockets) BY <1>2, <1>4 DEF Sender
  <2> QED BY <1>1, <1>2, <2>1 DEF Sender
<1>6. SenderOK(s, setup) /\ ~s.waiting
  <2>1. SenderOK(s, setup) BY <1>5, SameCourse DEF SenderOK, IsTerminal
  <2> QED BY <2>1, <1>2 DEF SenderOK
<1>7. CASE /\ Opened + 1 < snd.active
           /\ setup' = [setup EXCEPT ![Len(setup)] = @ + 1]
           /\ snd' = s /\ streams' = ss /\ UNCHANGED <<link, up>>
  <2>1. setup \in Seq(0 .. Streams) /\ Len(setup) \in 1 .. Len(setup) /\ Opened = setup[Len(setup)]
    BY <1>2 DEF NetOK, Opened, Last
  <2>a. setup[Len(setup)] \in 0 .. Streams BY <2>1, ElementOfSeq
  <2>b. snd.active \in {1, Streams} /\ Streams \in Nat BY <1>2, StripedAssumption DEF Sender, StripedAssumption
  <2>c. Opened \in 0 .. Streams /\ Opened + 1 < snd.active BY <1>7, <2>1, <2>a
  <2>d. Opened + 1 \in 0 .. Streams BY <2>b, <2>c
  <2>2. setup[Len(setup)] + 1 \in 0 .. Streams BY <2>1, <2>d
  <2>3. setup' \in Seq(0 .. Streams) BY <1>7, <2>1, <2>2
  <2>4. SenderOK(snd', setup') BY <1>6, <1>7 DEF SenderOK
  <2> QED BY <1>2, <1>3, <1>7, <2>3, <2>4 DEF NetOK
<1>8. CASE setup' = Front(setup) /\ SendChunk(s, ss)
  <2>1. /\ SenderOK(snd', setup) /\ up' \in Seq(UpPacket) /\ streams' \in Seq(Stream)
        /\ link' \in {"up", "down", "off"}
    BY <1>3, <1>6, <1>8, SendChunkOK
  <2>2. SenderOK(snd', setup') BY <1>2, <2>1 DEF SenderOK
  <2> QED BY <1>2, <1>8, <2>1, <2>2, FrontOfSetup DEF NetOK
<1> QED BY <1>1, <1>7, <1>8

LEMMA SetupFailsOK ==
  ASSUME SenderOK(snd, setup), NetOK, SetupFails
  PROVE  SenderOK(snd', setup') /\ NetOK'
<1> DEFINE c == CloseDataSockets(snd)
           t == [c EXCEPT !.active = 1]
<1>1. /\ setup # <<>> /\ snd' = ScheduleSendData(t) /\ setup' = Front(setup)
      /\ UNCHANGED <<streams, link, up, down>>
  BY DEF SetupFails, SenderFrame
<1>2. SenderOK(c, setup) BY CloseDataSocketsOK
<1> HIDE DEF c
<1>3. /\ t \in Sender /\ t.state = c.state /\ t.last = c.last /\ t.retry = c.retry
      /\ t.attempt = c.attempt /\ t.active = 1 /\ t.next = c.next
      /\ t.pos = c.pos /\ t.hashFrom = c.hashFrom /\ t.waiting = c.waiting
      /\ t.stripers = c.stripers
  BY <1>2 DEF SenderOK, Sender
<1> HIDE DEF t
<1>4. SenderOK(t, setup) BY <1>2, <1>3, SameCourse DEF SenderOK, IsTerminal
<1>5. SenderOK(snd', setup) BY <1>1, <1>4, ScheduleOK
<1>6. SenderOK(snd', setup') BY <1>1, <1>5 DEF SenderOK
<1> QED BY <1>1, <1>6, FrontOfSetup DEF NetOK

\* a new attempt starts from the beginning, with no timer of the old one left
LEMMA RetryConnectOK ==
  ASSUME SenderOK(snd, setup), NetOK, RetryConnect, "slowAttach" \notin Events
  PROVE  SenderOK(snd', setup') /\ NetOK'
<1>1. PICK s :
        /\ s = [snd EXCEPT !.retry = FALSE]
        /\ IF s.state \in {"Cancelled", "Finish"} \/ s.cancelled
           THEN snd' = s /\ UNCHANGED control
           ELSE /\ snd' = SetState([CloseDataSockets(s) EXCEPT
                             !.attempt = @ + 1, !.waiting = TRUE, !.pausedByReceiver = FALSE,
                             !.finishing = FALSE, !.scheduled = FALSE, !.index = 0,
                             !.pos = 0, !.hashFrom = 0, !.left = Chunks], "Transfering")
                /\ link' = "up" /\ up' = <<P("Header", 0)>> /\ down' = <<>>
  BY Zenon DEF RetryConnect
<1>2. /\ snd \in Sender /\ snd.stripers = 0 /\ snd.attempt < RetryMax /\ setup = <<>>
      /\ UNCHANGED <<streams, setup>>
  BY DEF RetryConnect, SenderOK, Sender
<1>3. /\ s \in Sender /\ s.state = snd.state /\ s.last = snd.last /\ s.retry = FALSE
      /\ s.attempt = snd.attempt /\ s.active = snd.active /\ s.next = snd.next
      /\ s.pos = snd.pos /\ s.hashFrom = snd.hashFrom /\ s.waiting = snd.waiting
      /\ s.stripers = snd.stripers
  BY <1>1, <1>2 DEF Sender
<1>4. SenderOK(s, setup) BY <1>3, SameCourse DEF SenderOK, IsTerminal
<1>5. CASE snd' = s /\ UNCHANGED control
  BY <1>2, <1>4, <1>5 DEF NetOK, control
<1>6. CASE /\ snd' = SetState([CloseDataSockets(s) EXCEPT
                          !.attempt = @ + 1, !.waiting = TRUE, !.pausedByReceiver = FALSE,
                          !.finishing = FALSE, !.scheduled = FALSE, !.index = 0,
                          !.pos = 0, !.hashFrom = 0, !.left = Chunks], "Transfering")
           /\ link' = "up" /\ up' = <<P("Header", 0)>> /\ down' = <<>>
  <2> DEFINE c == CloseDataSockets(s)
             t == [c EXCEPT !.attempt = @ + 1, !.waiting = TRUE, !.pausedByReceiver = FALSE,
                            !.finishing = FALSE, !.scheduled = FALSE, !.index = 0,
                            !.pos = 0, !.hashFrom = 0, !.left = Chunks]
  <2>1. SenderOK(c, setup) BY <1>4, CloseDataSocketsOK
  <2>2. c.attempt = s.attempt /\ c.stripers = s.stripers /\ c.retry = s.retry
    BY <1>3 DEF CloseDataSockets, Sender
  <2>3. snd' = SetState(t, "Transfering") BY <1>6
  <2> HIDE DEF c
  <2>4. c.attempt + 1 \in 0 .. RetryMax /\ Chunks \in 0 .. Chunks /\ 0 \in 0 .. Chunks
    BY <1>2, <1>3, <2>2, StripedAssumption DEF Sender, StripedAssumption
  <2>5. c \in Sender /\ c.state # "Idle" /\ c.last # "Idle" BY <2>1 DEF SenderOK
  <2>6. /\ t \in Sender /\ t.state = c.state /\ t.last = c.last /\ t.retry = c.retry
        /\ t.pos = 0 /\ t.hashFrom = 0 /\ t.waiting /\ t.stripers = c.stripers
    BY <2>4, <2>5 DEF Sender
  <2> HIDE DEF t
  <2>7. SenderOK(t, setup) BY <1>2, <1>3, <2>2, <2>5, <2>6 DEF SenderOK
  <2>8. SenderOK(snd', setup) BY <2>3, <2>7, SetStateOK DEF TransferState
  <2>9. up' \in Seq(UpPacket) /\ down' \in Seq(Packet) BY <1>6, PacketTypes
  <2> QED BY <1>2, <1>6, <2>8, <2>9 DEF NetOK
<1> QED BY <1>1, <1>5, <1>6

\* packets of the Receiver; what SenderReads leaves
LEMMA ReadOK ==
  ASSUME NetOK, NEW type, SenderReads(type)
  PROVE  /\ down' \in Seq(Packet) /\ Head(down) \in Packet /\ Head(down).type = type
         /\ UNCHANGED <<streams, setup>>
<1>1. down \in Seq(Packet) /\ down # <<>> BY DEF NetOK, SenderReads
<1> QED BY <1>1, HeadTailProperties DEF SenderReads

\* the digest begins where the file is: at its beginning
LEMMA ApplyOffsetAckOK ==
  ASSUME NEW s, NEW su, SenderOK(s, su), s.waiting, NEW n \in 0 .. Chunks
  PROVE  SenderOK(ApplyOffsetAck(s, n), su)
<1> DEFINE c == IF n > 0 THEN CloseDataSockets(s) ELSE s
           active == IF n > 0 THEN 1 ELSE Streams
           pos == IF n > 0 THEN n ELSE c.pos
           hashFrom == IF n > 0 THEN 0 ELSE s.pos
           t == [c EXCEPT !.active = active, !.index = 0, !.waiting = FALSE, !.pos = pos,
                          !.hashFrom = hashFrom, !.left = Chunks - n, !.next = n]
<1>1. SenderOK(c, su) /\ c.pos = s.pos
  <2>1. CloseDataSockets(s).pos = s.pos BY DEF CloseDataSockets, SenderOK, Sender
  <2> QED BY <2>1, CloseDataSocketsOK
<1>2. s.pos = 0 BY DEF SenderOK
<1>3. ApplyOffsetAck(s, n) = ScheduleSendData(t) BY Zenon DEF ApplyOffsetAck
<1> HIDE DEF c
<1>4. /\ active \in {1, Streams} /\ pos = n /\ hashFrom = 0 /\ Chunks - n \in 0 .. Chunks
      /\ n \in Nat /\ 0 \in 0 .. Chunks /\ n \in 0 .. Chunks
  BY <1>1, <1>2, StripedAssumption DEF StripedAssumption
<1> HIDE DEF active, pos, hashFrom
<1>5. c \in Sender /\ c.state # "Idle" /\ c.last # "Idle" /\ (c.retry => c.attempt < RetryMax)
  BY <1>1 DEF SenderOK
<1>6. /\ t \in Sender /\ t.state = c.state /\ t.last = c.last /\ t.retry = c.retry
      /\ t.attempt = c.attempt /\ t.pos = n /\ t.next = n /\ t.hashFrom = 0 /\ ~t.waiting
  BY <1>4, <1>5 DEF Sender
<1> HIDE DEF t
<1>7. SenderOK(t, su) BY <1>5, <1>6 DEF SenderOK
<1> QED BY <1>3, <1>7, ScheduleOK

LEMMA ProcessAcksOK ==
  ASSUME SenderOK(snd, setup), NetOK, ProcessOffsetAck \/ ProcessFinishAck
  PROVE  SenderOK(snd', setup') /\ NetOK'
<1>1. CASE ProcessOffsetAck
  <2>1. /\ down' \in Seq(Packet) /\ Head(down).n \in 0 .. Chunks
        /\ UNCHANGED <<streams, setup, link, up>>
    BY <1>1, ReadOK DEF ProcessOffsetAck, Packet
  <2>2. SenderOK(snd', setup)
    BY <1>1, <2>1, ApplyOffsetAckOK DEF ProcessOffsetAck
  <2> QED BY <2>1, <2>2 DEF NetOK
<1>2. CASE ProcessFinishAck
  <2>1. down' \in Seq(Packet) /\ UNCHANGED <<streams, setup, link, up>>
    BY <1>2, ReadOK DEF ProcessFinishAck
  <2>2. SenderOK(snd', setup)
    BY <1>2, CompleteUploadOK DEF ProcessFinishAck
  <2> QED BY <2>1, <2>2 DEF NetOK
<1> QED BY <1>1, <1>2

\* a cancelled transfer has ended: nothing is said of what it would send
LEMMA CancelledOK ==
  ASSUME NEW s \in Sender, NEW su, ~IsTerminal(s), s.state # "Idle", ~s.waiting,
         s.hashFrom = 0, s.retry => s.attempt < RetryMax
  PROVE  SenderOK(SetState(s, "Cancelled"), su)
<1> DEFINE t == [s EXCEPT !.state = "Cancelled", !.last = s.state]
<1>1. SetState(s, "Cancelled") = t
  BY DEF SetState, NextState, Accepted, IsTerminal, Terminal, Sender, TransferState
<1>2. /\ t \in Sender /\ t.state = "Cancelled" /\ t.last = s.state /\ t.retry = s.retry
      /\ t.attempt = s.attempt /\ t.hashFrom = 0 /\ ~t.waiting
  BY DEF Sender, TransferState
<1> HIDE DEF t
<1> QED BY <1>1, <1>2 DEF SenderOK, IsTerminal, Terminal

LEMMA SenderProcessCancelOK ==
  ASSUME SenderOK(snd, setup), NetOK, SenderProcessCancel
  PROVE  SenderOK(snd', setup') /\ NetOK'
<1>1. /\ down' \in Seq(Packet) /\ UNCHANGED <<streams, setup, up>>
      /\ link' \in {"up", "down", "off"}
  BY ReadOK DEF SenderProcessCancel, NetOK
<1>2. CASE IsTerminal(snd)
  BY <1>1, <1>2 DEF SenderProcessCancel, NetOK
<1>3. CASE ~IsTerminal(snd)
  <2> DEFINE c == CloseDataSockets(snd)
             t == [c EXCEPT !.waiting = FALSE, !.scheduled = FALSE, !.finishing = FALSE,
                            !.cancelled = TRUE]
  <2>1. snd' = SetState(t, "Cancelled") BY <1>3 DEF SenderProcessCancel
  <2>2. SenderOK(c, setup) /\ c.state = snd.state
    BY CloseDataSocketsOK DEF CloseDataSockets, SenderOK, Sender
  <2> HIDE DEF c
  <2>3. /\ c \in Sender /\ c.state # "Idle" /\ c.hashFrom = 0
        /\ (c.retry => c.attempt < RetryMax)
    BY <2>2 DEF SenderOK
  <2>4. /\ t \in Sender /\ t.state = c.state /\ t.retry = c.retry /\ t.attempt = c.attempt
        /\ t.hashFrom = 0 /\ ~t.waiting
    BY <2>3 DEF Sender
  <2> HIDE DEF t
  <2>5. SenderOK(snd', setup)
    BY <1>3, <2>1, <2>2, <2>3, <2>4, CancelledOK DEF IsTerminal
  <2> QED BY <1>1, <2>5 DEF NetOK
<1> QED BY <1>2, <1>3

LEMMA SenderProcessPausesOK ==
  ASSUME SenderOK(snd, setup), NetOK, SenderProcessPause \/ SenderProcessResume
  PROVE  SenderOK(snd', setup') /\ NetOK'
<1>1. down' \in Seq(Packet) /\ UNCHANGED <<streams, setup, link, up>>
  BY ReadOK DEF SenderProcessPause, SenderProcessResume
<1>2. ASSUME NEW b \in BOOLEAN PROVE SenderOK([snd EXCEPT !.pausedByReceiver = b], setup)
  <2> DEFINE t == [snd EXCEPT !.pausedByReceiver = b]
  <2>1. /\ t \in Sender /\ t.state = snd.state /\ t.last = snd.last /\ t.retry = snd.retry
        /\ t.attempt = snd.attempt /\ t.active = snd.active /\ t.next = snd.next
        /\ t.pos = snd.pos /\ t.hashFrom = snd.hashFrom /\ t.waiting = snd.waiting
        /\ t.stripers = snd.stripers
    BY <1>2 DEF SenderOK, Sender
  <2> HIDE DEF t
  <2>2. SenderOK(t, setup) BY <2>1, SameCourse DEF SenderOK, IsTerminal
  <2> QED BY <2>2 DEF t
<1>3. SenderOK(snd', setup)
  BY <1>2, ScheduleOK DEF SenderProcessPause, SenderProcessResume
<1> QED BY <1>1, <1>3 DEF NetOK

LEMMA SenderOnDisconnectedOK ==
  ASSUME SenderOK(snd, setup), NetOK, SenderOnDisconnected
  PROVE  SenderOK(snd', setup') /\ NetOK'
<1> DEFINE c == CloseDataSockets(snd)
           t == [c EXCEPT !.retry = TRUE]
<1>1. link' = "off" /\ UNCHANGED <<streams, setup, up, down>> BY DEF SenderOnDisconnected
<1>2. \/ snd' = snd
      \/ snd' = CompleteUpload(snd)
      \/ c.attempt < RetryMax /\ snd' = SetState(t, "Waiting")
      \/ snd' = Fail(c)
  BY Zenon DEF SenderOnDisconnected
<1>3. SenderOK(c, setup) BY CloseDataSocketsOK
<1> HIDE DEF c
<1>4. ASSUME c.attempt < RetryMax PROVE SenderOK(t, setup)
  <2>1. /\ t \in Sender /\ t.state = c.state /\ t.last = c.last /\ t.active = c.active
        /\ t.attempt = c.attempt /\ t.next = c.next /\ t.pos = c.pos
        /\ t.hashFrom = c.hashFrom /\ t.waiting = c.waiting /\ t.stripers = c.stripers
    BY <1>3 DEF SenderOK, Sender
  <2> HIDE DEF t
  <2> QED BY <1>3, <1>4, <2>1 DEF SenderOK, IsTerminal
<1> HIDE DEF t
<1>5. SenderOK(snd', setup)
  BY <1>2, <1>3, <1>4, CompleteUploadOK, SetStateOK, FailOK DEF TransferState
<1> QED BY <1>1, <1>5 DEF NetOK

\* the uploading user
LEMMA SenderPauseOK ==
  ASSUME SenderOK(snd, setup), NetOK, SenderPause
  PROVE  SenderOK(snd', setup') /\ NetOK'
<1> DEFINE t == [snd EXCEPT !.paused = TRUE]
<1>1. /\ snd' = CloseDataSockets(SetState(t, "Paused")) /\ UNCHANGED <<setup, streams, control>>
  BY DEF SenderPause
<1>2. /\ t \in Sender /\ t.state = snd.state /\ t.last = snd.last /\ t.retry = snd.retry
      /\ t.attempt = snd.attempt /\ t.active = snd.active /\ t.next = snd.next
      /\ t.pos = snd.pos /\ t.hashFrom = snd.hashFrom /\ t.waiting = snd.waiting
      /\ t.stripers = snd.stripers
  BY DEF SenderOK, Sender
<1> HIDE DEF t
<1>3. SenderOK(t, setup) BY <1>2, SameCourse DEF SenderOK, IsTerminal
<1>4. SenderOK(SetState(t, "Paused"), setup) BY <1>3, SetStateOK DEF TransferState
<1>5. SenderOK(snd', setup) BY <1>1, <1>4, CloseDataSocketsOK
<1> QED BY <1>1, <1>5 DEF NetOK, control

LEMMA SenderResumeOK ==
  ASSUME SenderOK(snd, setup), NetOK, SenderResume
  PROVE  SenderOK(snd', setup') /\ NetOK'
<1> DEFINE r == SetState(snd, snd.last)
           t == [r EXCEPT !.paused = FALSE]
<1>1. /\ snd' = ScheduleSendData(t) /\ UNCHANGED <<setup, streams, control>>
  BY DEF SenderResume
<1>2. SenderOK(r, setup)
  <2>1. snd.last \in TransferState \ {"Idle"} BY DEF SenderOK, Sender
  <2> QED BY <2>1, SetStateOK
<1> HIDE DEF r
<1>3. /\ t \in Sender /\ t.state = r.state /\ t.last = r.last /\ t.retry = r.retry
      /\ t.attempt = r.attempt /\ t.active = r.active /\ t.next = r.next
      /\ t.pos = r.pos /\ t.hashFrom = r.hashFrom /\ t.waiting = r.waiting
      /\ t.stripers = r.stripers
  BY <1>2 DEF SenderOK, Sender
<1> HIDE DEF t
<1>4. SenderOK(t, setup) BY <1>2, <1>3, SameCourse DEF SenderOK, IsTerminal
<1>5. SenderOK(snd', setup) BY <1>1, <1>4, ScheduleOK
<1> QED BY <1>1, <1>5 DEF NetOK, control

LEMMA SenderCancelOK ==
  ASSUME SenderOK(snd, setup), NetOK, SenderCancel
  PROVE  SenderOK(snd', setup') /\ NetOK'
<1> DEFINE t == [snd EXCEPT !.cancelled = TRUE, !.waiting = FALSE]
<1>1. /\ snd' = CloseDataSockets(SetState(t, "Cancelled")) /\ UNCHANGED <<setup, streams, link, down>>
      /\ UNCHANGED up \/ ToReceiver(P("Cancel", 0))
  BY DEF SenderCancel
<1>2. snd.state \notin Terminal /\ snd.state # "Idle"
  BY DEF SenderCancel, CanCancel, Terminal
<1>3. /\ t \in Sender /\ t.state = snd.state /\ t.retry = snd.retry
      /\ t.attempt = snd.attempt /\ t.hashFrom = snd.hashFrom /\ ~t.waiting
  BY DEF SenderOK, Sender
<1> HIDE DEF t
<1>a. snd.hashFrom = 0 /\ (snd.retry => snd.attempt < RetryMax) BY DEF SenderOK
<1>4. SenderOK(SetState(t, "Cancelled"), setup)
  BY <1>2, <1>3, <1>a, CancelledOK DEF IsTerminal
<1>5. SenderOK(snd', setup) BY <1>1, <1>4, CloseDataSocketsOK
<1>6. up' \in Seq(UpPacket)
  BY <1>1, PacketTypes, ToReceiverType DEF NetOK
<1> QED BY <1>1, <1>5, <1>6 DEF NetOK

-----------------------------------------------------------------------------
(***************************************************************************)
(* The files.                                                              *)
(***************************************************************************)

Below == {ss \in Nat \X Nat : ss[1] < ss[2]}

\* a set of naturals has a least member, and a set of chunks a greatest
LEMMA Least ==
  ASSUME NEW T, T \subseteq Nat, T # {}
  PROVE  \E x \in T : \A y \in T : x <= y
<1>1. IsWellFoundedOn(Below, Nat)
  BY NatLessThanWellFounded DEF OpToRel, Below
<1>2. PICK x \in T : \A y \in T : ~(<<y, x>> \in Below)
  BY <1>1, WFMin
<1>3. ASSUME NEW y \in T PROVE x <= y
  <2>1. x \in Nat /\ y \in Nat BY <1>2
  <2>2. ~(y < x) BY <1>2, <2>1 DEF Below
  <2> QED BY <2>1, <2>2
<1> QED BY <1>3

LEMMA Greatest ==
  ASSUME NEW S, S \subseteq Chunk, S # {}
  PROVE  \E x \in S : \A y \in S : y <= x
<1> DEFINE T == {n \in Nat : Chunks - n \in S}
<1>0. Chunks \in Nat BY StripedAssumption DEF StripedAssumption
<1>1. T # {}
  <2>1. PICK x \in S : TRUE OBVIOUS
  <2>2. Chunks - x \in Nat /\ Chunks - (Chunks - x) = x BY <1>0, <2>1 DEF Chunk
  <2> QED BY <2>1, <2>2
<1>2. PICK n \in T : \A m \in T : n <= m BY <1>1, Least
<1>3. ASSUME NEW y \in S PROVE y <= Chunks - n
  <2>1. y \in Nat /\ Chunks - y \in Nat /\ Chunks - (Chunks - y) = y BY <1>0 DEF Chunk
  <2>2. Chunks - y \in T BY <2>1
  <2>3. n <= Chunks - y BY <1>2, <2>2
  <2> QED BY <1>0, <1>2, <2>1, <2>3
<1> QED BY <1>2, <1>3

LEMMA PartSizeType ==
  ASSUME part \in [Chunk -> 0 .. Chunks]
  PROVE  PartSize \in 0 .. Chunks
<1>0. Chunks \in Nat BY StripedAssumption DEF StripedAssumption
<1>1. CASE part = Nothing BY <1>0, <1>1 DEF PartSize
<1>2. CASE part # Nothing
  <2> DEFINE S == {i \in Chunk : part[i] # 0}
  <2>1. S # {} BY <1>2 DEF Nothing
  <2>2. PICK i \in S : \A j \in S : j <= i BY <2>1, Greatest
  <2>3. part[i] # 0 /\ \A j \in Chunk : j > i => part[j] = 0
    <3>1. ASSUME NEW j \in Chunk, j > i PROVE part[j] = 0
      <4>1. ~(j <= i) BY <3>1, <2>2 DEF Chunk
      <4> QED BY <2>2, <4>1
    <3> QED BY <2>2, <3>1
  <2>4. PartSize \in Chunk BY <1>2, <2>2, <2>3 DEF PartSize
  <2> QED BY <2>4 DEF Chunk
<1> QED BY <1>1, <1>2

\* the digest of the whole source is that of the source only
LEMMA MatchesSource ==
  ASSUME NEW file \in [Chunk -> 0 .. Chunks], Matches(file, 0)
  PROVE  file = Source
<1>1. \A i \in Chunk : file[i] = i
  BY StripedAssumption DEF Matches, Chunk, StripedAssumption
<1> QED BY <1>1 DEF Source

-----------------------------------------------------------------------------
(***************************************************************************)
(* The steps of the Receiver.                                              *)
(***************************************************************************)

LEMMA ReceiverState ==
  ASSUME NEW r, ReceiverOK(r), NEW new \in TransferState
  PROVE  ReceiverOK(SetState(r, new)) /\ ReceiverOK(Fail(r))
<1>1. r \in Receiver /\ r.state \in TransferState BY DEF ReceiverOK, Receiver
<1>2. NextState(r, new) \in TransferState
  BY <1>1 DEF NextState, Accepted, Receiver, TransferState
<1> DEFINE n == NextState(r, new)
           t == [r EXCEPT !.state = n, !.last = r.state]
           f == [r EXCEPT !.state = "Failed"]
<1>3. SetState(r, new) \in {r, t} /\ Fail(r) \in {r, f} BY DEF SetState, Fail
<1> HIDE DEF n
<1>4. t \in Receiver /\ t.pos = r.pos /\ t.high = r.high /\ t.digest = r.digest
  BY <1>1, <1>2 DEF Receiver, n
<1>5. f \in Receiver /\ f.pos = r.pos /\ f.high = r.high /\ f.digest = r.digest
  BY <1>1 DEF Receiver, TransferState
<1> HIDE DEF t, f
<1> QED BY <1>3, <1>4, <1>5 DEF ReceiverOK

LEMMA ShutType ==
  ASSUME NetOK
  PROVE  Shut(streams) \in Seq(Stream)
<1>1. streams \in Seq(Stream) /\ Len(streams) \in Nat /\ DOMAIN streams = 1 .. Len(streams)
  BY DEF NetOK
<1>2. ASSUME NEW i \in 1 .. Len(streams)
      PROVE  [streams[i] EXCEPT !.queue = <<>>, !.open = FALSE] \in Stream
  <2>1. streams[i] \in Stream BY <1>1, ElementOfSeq
  <2>2. <<>> \in Seq([at : Nat, n : Chunk]) OBVIOUS
  <2> QED BY <2>1, <2>2 DEF Stream
<1>3. Shut(streams) \in [1 .. Len(streams) -> Stream] BY <1>1, <1>2 DEF Shut
<1> QED BY <1>1, <1>3, SeqDef

LEMMA HangUpOK ==
  ASSUME NetOK, NEW words \in Seq(Packet), HangUp(words), UNCHANGED setup
  PROVE  NetOK'
<1>1. streams' \in Seq(Stream) BY ShutType DEF HangUp
<1>2. down' \in Seq(Packet) BY DEF NetOK, HangUp
<1>3. up' \in Seq(UpPacket) BY DEF HangUp
<1> QED BY <1>1, <1>2, <1>3 DEF NetOK, HangUp

LEMMA FinalizeDownloadOK ==
  ASSUME NetOK, FilesOK, NEW r, ReceiverOK(r), NEW file \in [Chunk -> 0 .. Chunks],
         FinalizeDownload(r, file), UNCHANGED setup, Verify => Matches(file, 0)
  PROVE  NetOK' /\ ReceiverOK(rcv') /\ FilesOK'
<1>1. <<P("FinishAck", 0)>> \in Seq(Packet) BY PacketTypes
<1>2. NetOK' BY <1>1, HangUpOK DEF FinalizeDownload
<1>3. ReceiverOK(rcv') BY ReceiverState DEF FinalizeDownload, TransferState
<1>4. Nothing \in [Chunk -> 0 .. Chunks]
  BY StripedAssumption DEF Nothing, StripedAssumption
<1>5. FilesOK'
  BY <1>4, MatchesSource DEF FilesOK, FinalizeDownload, DeliveredIsWhole
<1> QED BY <1>2, <1>3, <1>5

LEMMA ChecksumFailedOK ==
  ASSUME NetOK, FilesOK, NEW r, ReceiverOK(r), ChecksumFailed(r), UNCHANGED setup
  PROVE  NetOK' /\ ReceiverOK(rcv') /\ FilesOK'
<1>1. <<P("Cancel", 0)>> \in Seq(Packet) BY PacketTypes
<1>2. NetOK' BY <1>1, HangUpOK DEF ChecksumFailed
<1>3. ReceiverOK(rcv') BY ReceiverState DEF ChecksumFailed, TransferState
<1>4. Nothing \in [Chunk -> 0 .. Chunks]
  BY StripedAssumption DEF Nothing, StripedAssumption
<1>5. FilesOK' BY <1>4 DEF FilesOK, ChecksumFailed, DeliveredIsWhole
<1> QED BY <1>2, <1>3, <1>5

\* what ReceiverReads gives
LEMMA HeadOfUp ==
  ASSUME NetOK, NEW type, ReceiverReads(type)
  PROVE  /\ Tail(up) \in Seq(UpPacket) /\ Head(up) \in UpPacket /\ Head(up).type = type
         /\ UNCHANGED <<snd, setup, clicks>>
<1>1. up \in Seq(UpPacket) /\ up # <<>> BY DEF NetOK, ReceiverReads
<1> QED BY <1>1, HeadTailProperties DEF ReceiverReads

LEMMA ProcessHeaderOK ==
  ASSUME SenderOK(snd, setup), NetOK, ReceiverOK(rcv), FilesOK, ProcessHeader
  PROVE  NetOK' /\ ReceiverOK(rcv') /\ FilesOK'
<1>1. PICK offset, accepted :
        /\ offset = IF PartSize < Chunks THEN PartSize ELSE 0
        /\ accepted = IF offset = 0 THEN Streams ELSE 1
        /\ rcv' = SetState([NewReceiver EXCEPT !.attempt = snd.attempt, !.accepted = accepted,
                                              !.high = offset, !.pos = offset], "Transfering")
        /\ part' = IF offset = 0 THEN Nothing ELSE part
        /\ down' = IF link = "up" THEN Append(down, P("OffsetAck", offset)) ELSE down
  BY Zenon DEF ProcessHeader
<1>2. offset \in 0 .. Chunks
  BY <1>1, PartSizeType, StripedAssumption DEF FilesOK, StripedAssumption
<1>3. accepted \in {1, Streams} BY <1>1
<1> DEFINE r == [NewReceiver EXCEPT !.attempt = snd.attempt, !.accepted = accepted,
                                    !.high = offset, !.pos = offset]
<1>4. ReceiverOK(r)
  <2>1. NewReceiver \in Receiver /\ NewReceiver.digest = 0
    BY StripedAssumption DEF NewReceiver, Receiver, TransferState, StripedAssumption
  <2>2. snd.attempt \in 0 .. RetryMax BY DEF SenderOK, Sender
  <2>3. r \in Receiver /\ r.digest = 0 /\ r.high = offset /\ r.pos = offset
    BY <1>2, <1>3, <2>1, <2>2 DEF Receiver
  <2> HIDE DEF r
  <2> QED BY <1>2, <2>3 DEF ReceiverOK
<1>5. rcv' = SetState(r, "Transfering") BY <1>1
<1> HIDE DEF r
<1>6. ReceiverOK(rcv') BY <1>4, <1>5, ReceiverState DEF TransferState
<1>7. FilesOK'
  <2>1. Nothing \in [Chunk -> 0 .. Chunks]
    BY StripedAssumption DEF Nothing, StripedAssumption
  <2>2. UNCHANGED final BY DEF ProcessHeader
  <2> QED BY <1>1, <2>1, <2>2 DEF FilesOK, DeliveredIsWhole
<1>8. NetOK'
  <2>1. /\ up' \in Seq(UpPacket) /\ UNCHANGED <<streams, link, setup>>
    BY HeadOfUp DEF ProcessHeader
  <2>2. down' \in Seq(Packet) BY <1>1, <1>2, PacketTypes DEF NetOK
  <2> QED BY <2>1, <2>2 DEF NetOK
<1> QED BY <1>6, <1>7, <1>8

LEMMA ProcessDataOK ==
  ASSUME NetOK, ReceiverOK(rcv), FilesOK, ProcessData
  PROVE  NetOK' /\ ReceiverOK(rcv') /\ FilesOK'
<1>1. /\ up' \in Seq(UpPacket) /\ Head(up).n \in 0 .. Chunks
      /\ UNCHANGED <<streams, link, down, setup, final>>
  BY HeadOfUp DEF ProcessData, UpPacket, Packet
<1>2. NetOK' BY <1>1 DEF NetOK
<1>3. CASE UNCHANGED <<rcv, part>>
  BY <1>1, <1>2, <1>3 DEF FilesOK, DeliveredIsWhole
<1>4. CASE /\ ~(rcv.high + 1 > Chunks)
           /\ part' = [part EXCEPT ![rcv.pos + 1] = Head(up).n]
           /\ rcv' = [rcv EXCEPT !.pos = @ + 1, !.high = @ + 1]
  <2>1. rcv.pos + 1 \in 0 .. Chunks /\ rcv.high + 1 \in 0 .. Chunks /\ rcv.pos + 1 <= rcv.high + 1
    BY <1>4, StripedAssumption DEF ReceiverOK, Receiver, StripedAssumption
  <2>2. /\ rcv' \in Receiver /\ rcv'.pos = rcv.pos + 1 /\ rcv'.high = rcv.high + 1
        /\ rcv'.digest = rcv.digest
    BY <1>4, <2>1 DEF ReceiverOK, Receiver
  <2>3. ReceiverOK(rcv') BY <2>1, <2>2 DEF ReceiverOK
  <2>4. part' \in [Chunk -> 0 .. Chunks] BY <1>1, <1>4 DEF FilesOK
  <2> QED BY <1>1, <1>2, <2>3, <2>4 DEF FilesOK, DeliveredIsWhole
<1> QED BY <1>3, <1>4 DEF ProcessData

LEMMA ProcessFinishOK ==
  ASSUME NetOK, ReceiverOK(rcv), FilesOK, ProcessFinish
  PROVE  NetOK' /\ ReceiverOK(rcv') /\ FilesOK'
<1>1. Head(up).n = 0 /\ Tail(up) \in Seq(UpPacket) /\ UNCHANGED setup
  <2>1. ReceiverReads("Finish") BY DEF ProcessFinish
  <2>2. /\ Tail(up) \in Seq(UpPacket) /\ Head(up) \in UpPacket /\ Head(up).type = "Finish"
        /\ UNCHANGED setup
    BY <2>1, HeadOfUp
  <2> QED BY <2>2 DEF UpPacket
<1>2. CASE /\ rcv' = [rcv EXCEPT !.pending = TRUE, !.digest = Head(up).n]
           /\ up' = Tail(up)
           /\ UNCHANGED <<streams, link, down, files>>
  <2>1. 0 \in 0 .. Chunks BY StripedAssumption DEF StripedAssumption
  <2>2. rcv' \in Receiver /\ rcv'.pos = rcv.pos /\ rcv'.high = rcv.high /\ rcv'.digest = 0
    BY <1>1, <1>2, <2>1 DEF ReceiverOK, Receiver
  <2>3. ReceiverOK(rcv') BY <2>2 DEF ReceiverOK
  <2> QED BY <1>1, <1>2, <2>3 DEF NetOK, FilesOK, DeliveredIsWhole, files
<1>3. CASE ChecksumFailed(rcv)
  BY <1>1, <1>3, ChecksumFailedOK
<1>4. CASE (Verify => Matches(part, 0)) /\ FinalizeDownload(rcv, part)
  <2>1. part \in [Chunk -> 0 .. Chunks] BY DEF FilesOK
  <2> QED BY <1>1, <1>4, <2>1, FinalizeDownloadOK
<1> QED BY <1>1, <1>2, <1>3, <1>4 DEF ProcessFinish

LEMMA ChunkArrivesOK ==
  ASSUME NetOK, ReceiverOK(rcv), FilesOK, NEW i \in DOMAIN streams, ChunkArrives(i)
  PROVE  NetOK' /\ ReceiverOK(rcv') /\ FilesOK'
<1>1. PICK chunk, at, rest, file, r :
        /\ chunk = Head(streams[i].queue) /\ at = chunk.at
        /\ rest = [streams EXCEPT ![i].queue = Tail(@)]
        /\ file = [part EXCEPT ![at] = chunk.n]
        /\ r = [rcv EXCEPT !.pos = at, !.high = IF at > @ THEN at ELSE @]
        /\ IF \/ streams[i].attempt # rcv.attempt \/ at > Chunks
              \/ rcv.state \in {"Finish", "Cancelled", "Failed"}
           THEN streams' = rest /\ UNCHANGED <<rcv, control, files>>
           ELSE IF r.pending /\ r.high = Chunks
           THEN IF Matches(file, r.digest) THEN FinalizeDownload(r, file) ELSE ChecksumFailed(r)
           ELSE rcv' = r /\ part' = file /\ streams' = rest /\ UNCHANGED <<control, final>>
  BY Zenon DEF ChunkArrives
<1>2. streams \in Seq(Stream) /\ i \in 1 .. Len(streams) /\ streams[i].queue # <<>> /\ UNCHANGED setup
  BY DEF NetOK, ChunkArrives
<1>3. streams[i] \in Stream BY <1>2, ElementOfSeq
<1>4. chunk \in [at : Nat, n : Chunk] /\ Tail(streams[i].queue) \in Seq([at : Nat, n : Chunk])
  <2>1. streams[i].queue \in Seq([at : Nat, n : Chunk]) BY <1>3 DEF Stream
  <2> QED BY <1>1, <1>2, <2>1, HeadTailProperties
<1>5. at \in Nat /\ chunk.n \in 0 .. Chunks BY <1>1, <1>4 DEF Chunk
<1>6. rest \in Seq(Stream)
  <2> DEFINE w == [streams[i] EXCEPT !.queue = Tail(@)]
  <2>1. w \in Stream BY <1>3, <1>4 DEF Stream
  <2>2. rest = [streams EXCEPT ![i] = w] BY <1>1
  <2> HIDE DEF w
  <2> QED BY <1>2, <2>1, <2>2, ExceptSeq
<1>7. file \in [Chunk -> 0 .. Chunks] BY <1>1, <1>5 DEF FilesOK
<1>8. CASE streams' = rest /\ UNCHANGED <<rcv, control, files>>
  BY <1>2, <1>6, <1>8 DEF NetOK, FilesOK, DeliveredIsWhole, control, files
<1>9. CASE ~(at > Chunks)
  <2> DEFINE high == IF at > rcv.high THEN at ELSE rcv.high
  <2>1. /\ rcv \in Receiver /\ at \in 0 .. Chunks /\ high \in 0 .. Chunks /\ at <= high
    BY <1>5, <1>9, StripedAssumption DEF ReceiverOK, Receiver, StripedAssumption
  <2>2. r = [rcv EXCEPT !.pos = at, !.high = high] BY <1>1
  <2> HIDE DEF high
  <2>3. /\ r \in Receiver /\ r.pos = at /\ r.high = high /\ r.digest = rcv.digest
    BY <2>1, <2>2 DEF Receiver
  <2>4. ReceiverOK(r) /\ r.digest = 0 BY <2>1, <2>3 DEF ReceiverOK
  <2>5. CASE Matches(file, r.digest) /\ FinalizeDownload(r, file)
    BY <1>2, <1>7, <2>4, <2>5, FinalizeDownloadOK
  <2>6. CASE ChecksumFailed(r)
    BY <1>2, <2>4, <2>6, ChecksumFailedOK
  <2>7. CASE rcv' = r /\ part' = file /\ streams' = rest /\ UNCHANGED <<control, final>>
    BY <1>2, <1>6, <1>7, <2>4, <2>7 DEF NetOK, FilesOK, DeliveredIsWhole, control
  <2> QED BY <1>1, <1>8, <1>9, <2>5, <2>6, <2>7
<1> QED BY <1>1, <1>8, <1>9

LEMMA ReceiverProcessCancelOK ==
  ASSUME NetOK, ReceiverOK(rcv), FilesOK, ReceiverProcessCancel
  PROVE  NetOK' /\ ReceiverOK(rcv') /\ FilesOK'
<1>1. UNCHANGED setup BY HeadOfUp DEF ReceiverProcessCancel
<1>2. <<>> \in Seq(Packet) OBVIOUS
<1>3. NetOK' BY <1>1, <1>2, HangUpOK DEF ReceiverProcessCancel
<1>4. ReceiverOK(rcv') BY ReceiverState DEF ReceiverProcessCancel, TransferState
<1>5. Nothing \in [Chunk -> 0 .. Chunks]
  BY StripedAssumption DEF Nothing, StripedAssumption
<1>6. FilesOK' BY <1>5 DEF FilesOK, ReceiverProcessCancel, DeliveredIsWhole
<1> QED BY <1>3, <1>4, <1>6

LEMMA ReceiverOnDisconnectedOK ==
  ASSUME NetOK, ReceiverOK(rcv), FilesOK, ReceiverOnDisconnected
  PROVE  NetOK' /\ ReceiverOK(rcv') /\ FilesOK'
<1>1. ReceiverOK(rcv')
  BY ReceiverState DEF ReceiverOnDisconnected, TransferState
<1> QED BY <1>1 DEF ReceiverOnDisconnected, NetOK, FilesOK, DeliveredIsWhole, control, files

\* the downloading user
LEMMA ReceiverPausesOK ==
  ASSUME NetOK, ReceiverOK(rcv), FilesOK, ReceiverPause \/ ReceiverResume
  PROVE  NetOK' /\ ReceiverOK(rcv') /\ FilesOK'
<1>1. UNCHANGED <<setup, streams, link, up, files>> BY DEF ReceiverPause, ReceiverResume
<1>2. ReceiverOK(rcv')
  <2>1. rcv.last \in TransferState /\ "Paused" \in TransferState
    BY DEF ReceiverOK, Receiver, TransferState
  <2> QED BY <2>1, ReceiverState DEF ReceiverPause, ReceiverResume
<1>3. down' \in Seq(Packet)
  <2>1. PICK p \in Packet : down' = IF link = "up" THEN Append(down, p) ELSE down
    BY PacketTypes DEF ReceiverPause, ReceiverResume
  <2>2. down \in Seq(Packet) BY DEF NetOK
  <2> QED BY <2>1, <2>2
<1> QED BY <1>1, <1>2, <1>3 DEF NetOK, FilesOK, DeliveredIsWhole, files

-----------------------------------------------------------------------------
(***************************************************************************)
(* The network and the idle timers.                                        *)
(***************************************************************************)

LEMMA BeginningOfSeq ==
  ASSUME NEW S, NEW q \in Seq(S), NEW n \in 0 .. Len(q)
  PROVE  SubSeq(q, 1, n) \in Seq(S)
<1>1. \A k \in 1 .. n : q[k] \in S
  <2> SUFFICES ASSUME NEW k \in 1 .. n PROVE q[k] \in S OBVIOUS
  <2>1. k \in 1 .. Len(q) OBVIOUS
  <2> QED BY <2>1, ElementOfSeq
<1> QED BY <1>1, SubSeqProperties

LEMMA BreakOK ==
  ASSUME NetOK, Break
  PROVE  NetOK'
<1>1. PICK n \in 0 .. Len(up), m \in 0 .. Len(down) :
        up' = SubSeq(up, 1, n) /\ down' = SubSeq(down, 1, m)
  BY DEF Break
<1>2. up' \in Seq(UpPacket) /\ down' \in Seq(Packet)
  BY <1>1, BeginningOfSeq DEF NetOK
<1> QED BY <1>2 DEF Break, NetOK

LEMMA StreamBreaksOK ==
  ASSUME NetOK, NEW i \in DOMAIN streams, StreamBreaks(i)
  PROVE  NetOK'
<1>1. PICK n \in 0 .. Len(streams[i].queue) :
        streams' = [streams EXCEPT ![i].open = FALSE, ![i].queue = SubSeq(@, 1, n)]
  BY DEF StreamBreaks
<1>2. streams \in Seq(Stream) /\ i \in 1 .. Len(streams) BY DEF NetOK
<1>3. streams[i] \in Stream BY <1>2, ElementOfSeq
<1> DEFINE w == [streams[i] EXCEPT !.open = FALSE, !.queue = SubSeq(@, 1, n)]
<1>4. w \in Stream
  <2>1. streams[i].queue \in Seq([at : Nat, n : Chunk]) BY <1>3 DEF Stream
  <2>2. SubSeq(streams[i].queue, 1, n) \in Seq([at : Nat, n : Chunk])
    BY <1>1, <2>1, BeginningOfSeq
  <2> QED BY <1>3, <2>2 DEF Stream
<1>5. streams' = [streams EXCEPT ![i] = w] BY <1>1, <1>2
<1> HIDE DEF w
<1>6. streams' \in Seq(Stream) BY <1>2, <1>4, <1>5, ExceptSeq
<1> QED BY <1>6 DEF StreamBreaks, NetOK, control

LEMMA OnIdleTimeoutOK ==
  ASSUME StripedInv, OnIdleTimeout
  PROVE  StripedInv'
<1>1. SenderOK(snd', setup)
  BY FailOK DEF StripedInv, OnIdleTimeout
<1>2. ReceiverOK(rcv')
  BY ReceiverState DEF StripedInv, OnIdleTimeout, TransferState
<1>3. NetOK' BY DEF StripedInv, OnIdleTimeout, NetOK
<1>4. FilesOK' /\ clicks' \in 0 .. MaxClicks /\ UNCHANGED setup
  BY DEF StripedInv, OnIdleTimeout, FilesOK, DeliveredIsWhole, files
<1> QED BY <1>1, <1>2, <1>3, <1>4 DEF StripedInv

-----------------------------------------------------------------------------
(***************************************************************************)
(* The invariant.                                                          *)
(***************************************************************************)

LEMMA InitInv == Init => StripedInv
<1> SUFFICES ASSUME Init PROVE StripedInv OBVIOUS
<1>0. /\ Chunks \in Nat \ {0} /\ Streams \in Nat \ {0, 1}
      /\ RetryMax \in Nat /\ MaxClicks \in Nat
  BY StripedAssumption DEF StripedAssumption
<1>1. snd \in Sender
  <2>1. <<>> \in Seq(1 .. MaxSockets) OBVIOUS
  <2> QED BY <1>0, <2>1 DEF Init, Sender, TransferState
<1>2. SenderOK(snd, setup) BY <1>1 DEF Init, SenderOK
<1>3. NetOK
  <2>1. up \in Seq(UpPacket) BY PacketTypes DEF Init
  <2> QED BY <2>1 DEF Init, NetOK
<1>4. ReceiverOK(rcv)
  BY <1>0 DEF Init, NewReceiver, ReceiverOK, Receiver, TransferState
<1>5. FilesOK BY <1>0 DEF Init, FilesOK, Nothing, DeliveredIsWhole
<1> QED BY <1>0, <1>2, <1>3, <1>4, <1>5 DEF Init, StripedInv

LEMMA NextInv ==
  ASSUME "slowAttach" \notin Events
  PROVE  StripedInv /\ [Next]_vars => StripedInv'
<1> SUFFICES ASSUME StripedInv, [Next]_vars PROVE StripedInv' OBVIOUS
<1> USE DEF StripedInv
<1>1. CASE SenderSteps
  <2>1. UNCHANGED <<rcv, files, clicks>>
    BY <1>1 DEF SenderSteps, SendData, StripeTimer, StreamOpens, SetupFails, RetryConnect,
                ProcessOffsetAck, ProcessFinishAck, SenderProcessCancel, SenderProcessPause,
                SenderProcessResume, SenderOnDisconnected, SenderFrame, SenderReads
  <2>2. SenderOK(snd', setup') /\ NetOK'
    BY <1>1, SendDataOK, StripeTimerOK, StreamOpensOK, SetupFailsOK, RetryConnectOK,
       ProcessAcksOK, SenderProcessCancelOK, SenderProcessPausesOK, SenderOnDisconnectedOK
       DEF SenderSteps
  <2> QED BY <2>1, <2>2 DEF files, FilesOK, DeliveredIsWhole
<1>2. CASE ReceiverSteps
  <2>1. UNCHANGED <<snd, setup, clicks>>
    BY <1>2 DEF ReceiverSteps, ProcessHeader, ProcessData, ProcessFinish, ReceiverProcessCancel,
                ReceiverOnDisconnected, ChunkArrives, ReceiverReads
  <2>2. NetOK' /\ ReceiverOK(rcv') /\ FilesOK'
    BY <1>2, ProcessHeaderOK, ProcessDataOK, ProcessFinishOK, ReceiverProcessCancelOK,
       ReceiverOnDisconnectedOK, ChunkArrivesOK
       DEF ReceiverSteps
  <2> QED BY <2>1, <2>2
<1>3. CASE SenderPause \/ SenderResume \/ SenderCancel
  <2>1. SenderOK(snd', setup') /\ NetOK'
    BY <1>3, SenderPauseOK, SenderResumeOK, SenderCancelOK
  <2>2. UNCHANGED <<rcv, files>> BY <1>3 DEF SenderPause, SenderResume, SenderCancel
  <2>3. clicks' \in 0 .. MaxClicks
    BY <1>3, StripedAssumption DEF SenderPause, SenderResume, SenderCancel, StripedAssumption
  <2> QED BY <2>1, <2>2, <2>3 DEF files, FilesOK, DeliveredIsWhole
<1>4. CASE ReceiverPause \/ ReceiverResume
  <2>1. NetOK' /\ ReceiverOK(rcv') /\ FilesOK'
    BY <1>4, ReceiverPausesOK
  <2>2. UNCHANGED <<snd, setup>> BY <1>4 DEF ReceiverPause, ReceiverResume
  <2>3. clicks' \in 0 .. MaxClicks
    BY <1>4, StripedAssumption DEF ReceiverPause, ReceiverResume, StripedAssumption
  <2> QED BY <2>1, <2>2, <2>3
<1>5. CASE Break \/ \E i \in DOMAIN streams : StreamBreaks(i)
  <2>1. NetOK' BY <1>5, BreakOK, StreamBreaksOK
  <2>2. UNCHANGED <<snd, setup, rcv, files, clicks>> BY <1>5 DEF Break, StreamBreaks
  <2> QED BY <2>1, <2>2 DEF files, FilesOK, DeliveredIsWhole
<1>6. CASE OnIdleTimeout
  BY <1>6, OnIdleTimeoutOK
<1>7. CASE UNCHANGED vars
  BY <1>7 DEF vars, NetOK, FilesOK, DeliveredIsWhole
<1> QED BY <1>1, <1>2, <1>3, <1>4, <1>5, <1>6, <1>7 DEF Next, UserSteps

(***************************************************************************)
(* StripedInv holds at all times, unless a retry may overtake the set-up   *)
(* of the data sockets (setupDataSockets(), sender.cpp:727).               *)
(***************************************************************************)
THEOREM StripedIsSound ==
  ASSUME "slowAttach" \notin Events
  PROVE  Spec => []StripedInv
  BY InitInv, NextInv, PTL DEF Spec

\* every variable of StripedTransfer keeps its type
THEOREM StripedTypes ==
  ASSUME "slowAttach" \notin Events
  PROVE  Spec => []TypeOK
<1>1. StripedInv => TypeOK
  <2> SUFFICES ASSUME StripedInv PROVE TypeOK OBVIOUS
  <2>1. up \in Seq(Packet) BY PacketTypes, SeqMonotonic DEF StripedInv, NetOK
  <2> QED BY <2>1 DEF StripedInv, SenderOK, NetOK, ReceiverOK, FilesOK, Stream, TypeOK
<1> QED BY <1>1, StripedIsSound, PTL

(***************************************************************************)
(* The next chunk of a striped upload belongs to the next offset           *)
(* (sendStripedData(), sender.cpp:630).                                    *)
(***************************************************************************)
THEOREM StripesKeepAligned ==
  ASSUME "slowAttach" \notin Events
  PROVE  Spec => []StripesAreAligned
<1>1. StripedInv => StripesAreAligned BY DEF StripedInv, SenderOK, StripesAreAligned
<1> QED BY <1>1, StripedIsSound, PTL

(***************************************************************************)
(* A download whose checksum was verified is the file (receiver.cpp:653,   *)
(* 698): whatever holes a resumed .part had, the digest that is compared   *)
(* is always that of the whole file.                                       *)
(***************************************************************************)
THEOREM WholeFilesAreDelivered ==
  ASSUME "slowAttach" \notin Events
  PROVE  Spec => []DeliveredIsWhole
<1>1. StripedInv => DeliveredIsWhole BY DEF StripedInv, FilesOK
<1> QED BY <1>1, StripedIsSound, PTL

-----------------------------------------------------------------------------
(***************************************************************************)
(* What is left to send.                                                   *)
(***************************************************************************)

\* y is the Sender x with as much left to send
SameLeft(x, y) == y \in Sender /\ y.left = x.left

LEMMA HelpersKeepLeft ==
  ASSUME NEW x \in Sender, NEW new \in TransferState
  PROVE  /\ SameLeft(x, SetState(x, new)) /\ SameLeft(x, Fail(x))
         /\ SameLeft(x, ScheduleSendData(x)) /\ SameLeft(x, CloseDataSockets(x))
<1>1. x.state \in TransferState /\ x.last \in TransferState
  BY DEF Sender
<1>2. NextState(x, new) \in TransferState
  BY <1>1 DEF NextState
<1>3. SameLeft(x, SetState(x, new))
  <2> DEFINE n == NextState(x, new)
             t == [x EXCEPT !.state = n, !.last = x.state]
  <2>1. SetState(x, new) \in {x, t} BY DEF SetState
  <2> HIDE DEF n
  <2>2. t \in Sender /\ t.left = x.left BY <1>1, <1>2 DEF Sender, n
  <2> HIDE DEF t
  <2> QED BY <2>1, <2>2 DEF SameLeft
<1>4. SameLeft(x, Fail(x))
  <2>1. "Failed" \in TransferState BY DEF TransferState
  <2> QED BY <2>1 DEF Fail, SameLeft, Sender
<1>5. SameLeft(x, ScheduleSendData(x))
  <2>1. x.pumps + 1 \in Nat BY DEF Sender
  <2> QED BY <2>1 DEF ScheduleSendData, SameLeft, Sender
<1>6. SameLeft(x, CloseDataSockets(x))
  <2>1. <<>> \in Seq(1 .. MaxSockets) OBVIOUS
  <2> QED BY <2>1 DEF CloseDataSockets, SameLeft, Sender
<1> QED BY <1>3, <1>4, <1>5, <1>6

LEMMA LeftStaysOn ==
  ASSUME NEW x, NEW y, NEW z, SameLeft(x, y), SameLeft(y, z)
  PROVE  SameLeft(x, z)
  BY DEF SameLeft

\* sendStripedData() in a pause, wherever it begins or goes on
LEMMA PausedChunk ==
  ASSUME NEW s \in Sender, s.paused, NEW ss, SendChunk(s, ss)
  PROVE  snd'.left = s.left
<1>1. CASE s.left = 0
  BY <1>1 DEF SendChunk, Finish, Sender
<1>2. CASE s.left # 0
  BY <1>2 DEF SendChunk
<1> QED BY <1>1, <1>2

LEMMA PausedStripes ==
  ASSUME NEW s \in Sender, s.paused, SendStripedData(s)
  PROVE  snd'.left = s.left
<1>1. CASE SendChunk(s, streams)
  BY <1>1, PausedChunk
<1>2. CASE snd' = ScheduleSendData([s EXCEPT !.active = 1])
  <2> DEFINE t == [s EXCEPT !.active = 1]
  <2>1. t \in Sender /\ t.left = s.left BY DEF Sender
  <2>2. snd' = ScheduleSendData(t) BY <1>2
  <2> HIDE DEF t
  <2>3. "Waiting" \in TransferState BY DEF TransferState
  <2> QED BY <2>1, <2>2, <2>3, HelpersKeepLeft DEF SameLeft
<1>3. CASE snd' = s BY <1>3
<1> QED BY <1>1, <1>2, <1>3 DEF SendStripedData

\* the timers, which were scheduled before the pause
LEMMA PausedTimers ==
  ASSUME snd \in Sender, snd.paused, SendData \/ StripeTimer \/ StreamOpens \/ SetupFails
  PROVE  snd'.left = snd.left
<1>0. "Waiting" \in TransferState BY DEF TransferState
<1>1. CASE SendData
  BY <1>1 DEF SendData, Sender
<1>2. CASE StripeTimer
  <2> DEFINE s == [snd EXCEPT !.stripers = @ - 1, !.scheduled = FALSE]
  <2>1. s \in Sender /\ s.left = snd.left /\ s.paused
    <3>1. snd.stripers \in Nat /\ snd.stripers > 0 BY <1>2 DEF StripeTimer, Sender
    <3>2. snd.stripers - 1 \in Nat BY <3>1
    <3> QED BY <3>2 DEF Sender
  <2>2. SendStripedData(s) BY <1>2 DEF StripeTimer
  <2> HIDE DEF s
  <2> QED BY <2>1, <2>2, PausedStripes
<1>3. CASE StreamOpens
  <2>1. PICK adopted \in BOOLEAN :
          LET ss == Append(streams, [attempt |-> rcv.attempt, queue |-> <<>>, open |-> adopted])
              s == [snd EXCEPT !.sockets = Append(@, Len(ss))]
          IN  Len(streams) < MaxSockets /\ (snd' = s \/ SendChunk(s, ss))
    BY <1>3 DEF StreamOpens
  <2> DEFINE ss == Append(streams, [attempt |-> rcv.attempt, queue |-> <<>>, open |-> adopted])
             s == [snd EXCEPT !.sockets = Append(@, Len(ss))]
  <2>2. s.left = snd.left /\ s.paused BY DEF Sender
  <2>3. CASE snd' = s BY <2>2, <2>3
  <2>4. CASE SendChunk(s, ss)
    <3> HIDE DEF ss
    <3>1. CASE s.left = 0
      <4>1. snd' = s \/ snd' = [s EXCEPT !.finishing = TRUE]
        BY <2>4, <3>1 DEF SendChunk, Finish
      <4> QED BY <2>2, <4>1 DEF Sender
    <3>2. CASE s.left # 0
      <4> HIDE DEF s
      <4>1. snd' = s BY <2>2, <2>4, <3>2 DEF SendChunk
      <4> QED BY <2>2, <4>1
    <3> QED BY <3>1, <3>2
  <2> QED BY <2>1, <2>3, <2>4
<1>4. CASE SetupFails
  <2> DEFINE c == CloseDataSockets(snd)
             t == [c EXCEPT !.active = 1]
  <2>1. c \in Sender /\ c.left = snd.left BY <1>0, HelpersKeepLeft DEF SameLeft
  <2>2. snd' = ScheduleSendData(t) BY <1>4 DEF SetupFails
  <2> HIDE DEF c
  <2>3. t \in Sender /\ t.left = c.left BY <2>1 DEF Sender
  <2> HIDE DEF t
  <2> QED BY <1>0, <2>1, <2>2, <2>3, HelpersKeepLeft DEF SameLeft
<1> QED BY <1>1, <1>2, <1>3, <1>4

\* packets and clicks: none of them sends
LEMMA PausedPackets ==
  ASSUME snd \in Sender, snd.paused, ~snd.waiting,
         \/ ProcessOffsetAck \/ ProcessFinishAck \/ SenderProcessCancel
         \/ SenderProcessPause \/ SenderProcessResume \/ SenderOnDisconnected
  PROVE  snd'.left = snd.left
<1>0. {"Waiting", "Finish", "Cancelled"} \subseteq TransferState BY DEF TransferState
<1>1. CASE ProcessOffsetAck
  BY <1>1 DEF ProcessOffsetAck
<1>2. SameLeft(snd, snd) BY DEF SameLeft
<1>3. SameLeft(snd, CompleteUpload(snd))
  <2> DEFINE t == [snd EXCEPT !.finishing = FALSE, !.scheduled = FALSE]
  <2>1. SameLeft(snd, t) BY DEF SameLeft, Sender
  <2>2. CompleteUpload(snd) \in {snd, SetState(t, "Finish")} BY DEF CompleteUpload
  <2> HIDE DEF t
  <2>3. SameLeft(t, SetState(t, "Finish")) BY <1>0, <2>1, HelpersKeepLeft DEF SameLeft
  <2> QED BY <1>2, <2>1, <2>2, <2>3, LeftStaysOn
<1>4. CASE ProcessFinishAck
  <2>1. snd' = snd \/ snd' = CompleteUpload(snd) BY <1>4 DEF ProcessFinishAck
  <2> QED BY <1>3, <2>1 DEF SameLeft
<1> DEFINE c == CloseDataSockets(snd)
<1>5. SameLeft(snd, c) BY <1>0, HelpersKeepLeft
<1>6. CASE SenderProcessCancel
  <2> DEFINE t == [c EXCEPT !.waiting = FALSE, !.scheduled = FALSE, !.finishing = FALSE,
                            !.cancelled = TRUE]
  <2>1. snd' = snd \/ snd' = SetState(t, "Cancelled") BY <1>6 DEF SenderProcessCancel
  <2> HIDE DEF c
  <2>2. SameLeft(c, t) BY <1>5 DEF SameLeft, Sender
  <2> HIDE DEF t
  <2>3. SameLeft(t, SetState(t, "Cancelled")) BY <1>0, <2>2, HelpersKeepLeft DEF SameLeft
  <2> QED BY <1>5, <2>1, <2>2, <2>3 DEF SameLeft
<1>7. CASE SenderProcessPause
  BY <1>7 DEF SenderProcessPause, Sender
<1>8. CASE SenderProcessResume
  <2> DEFINE t == [snd EXCEPT !.pausedByReceiver = FALSE]
  <2>1. snd' = snd \/ snd' = ScheduleSendData(t) BY <1>8 DEF SenderProcessResume
  <2>2. SameLeft(snd, t) BY DEF SameLeft, Sender
  <2> HIDE DEF t
  <2>3. SameLeft(t, ScheduleSendData(t)) BY <1>0, <2>2, HelpersKeepLeft DEF SameLeft
  <2> QED BY <2>1, <2>2, <2>3 DEF SameLeft
<1>9. CASE SenderOnDisconnected
  <2> DEFINE t == [c EXCEPT !.retry = TRUE]
  <2>1. snd' \in {snd, CompleteUpload(snd), SetState(t, "Waiting"), Fail(c)}
    BY <1>9 DEF SenderOnDisconnected
  <2> HIDE DEF c
  <2>2. SameLeft(c, t) BY <1>5 DEF SameLeft, Sender
  <2> HIDE DEF t
  <2>3. SameLeft(t, SetState(t, "Waiting")) BY <1>0, <2>2, HelpersKeepLeft DEF SameLeft
  <2>4. SameLeft(c, Fail(c)) BY <1>0, <1>5, HelpersKeepLeft DEF SameLeft
  <2> QED BY <1>3, <1>5, <2>1, <2>2, <2>3, <2>4 DEF SameLeft
<1> QED BY <1>1, <1>4, <1>6, <1>7, <1>8, <1>9

\* a retry begins with the whole file; clicks and idle timers leave what is left
LEMMA PausedRest ==
  ASSUME snd \in Sender,
         RetryConnect \/ SenderPause \/ SenderResume \/ SenderCancel \/ OnIdleTimeout
  PROVE  snd'.left >= snd.left
<1>0. /\ {"Waiting", "Paused", "Cancelled", "Transfering"} \subseteq TransferState
      /\ snd.left \in 0 .. Chunks /\ Chunks \in Nat /\ snd.last \in TransferState
  BY StripedAssumption DEF TransferState, Sender, StripedAssumption
<1>1. SameLeft(snd, snd) BY DEF SameLeft
<1>2. ASSUME NEW y, SameLeft(snd, y), snd' = y PROVE snd'.left >= snd.left
  BY <1>0, <1>2 DEF SameLeft
<1>3. CASE RetryConnect
  <2> DEFINE s == [snd EXCEPT !.retry = FALSE]
             c == CloseDataSockets(s)
             t == [c EXCEPT !.attempt = @ + 1, !.waiting = TRUE, !.pausedByReceiver = FALSE,
                            !.finishing = FALSE, !.scheduled = FALSE, !.index = 0,
                            !.pos = 0, !.hashFrom = 0, !.left = Chunks]
  <2>1. SameLeft(snd, s) BY DEF SameLeft, Sender
  <2>2. snd' = s \/ snd' = SetState(t, "Transfering") BY <1>3 DEF RetryConnect
  <2> HIDE DEF s
  <2>3. c \in Sender BY <1>0, <2>1, HelpersKeepLeft DEF SameLeft
  <2> HIDE DEF c
  <2>4. t.left = Chunks /\ SetState(t, "Transfering").left = Chunks
    BY <2>3 DEF Sender, SetState
  <2> HIDE DEF t
  <2>5. CASE snd' = s BY <1>2, <2>1, <2>5
  <2>6. CASE snd' = SetState(t, "Transfering") BY <1>0, <2>4, <2>6
  <2> QED BY <2>2, <2>5, <2>6
<1>4. CASE SenderPause
  <2> DEFINE t == [snd EXCEPT !.paused = TRUE]
             p == SetState(t, "Paused")
  <2>1. snd' = CloseDataSockets(p) BY <1>4 DEF SenderPause
  <2>2. SameLeft(snd, t) BY DEF SameLeft, Sender
  <2> HIDE DEF t
  <2>3. SameLeft(t, p) BY <1>0, <2>2, HelpersKeepLeft DEF SameLeft
  <2> HIDE DEF p
  <2>4. SameLeft(p, CloseDataSockets(p)) BY <1>0, <2>3, HelpersKeepLeft DEF SameLeft
  <2>5. SameLeft(snd, CloseDataSockets(p)) BY <2>2, <2>3, <2>4 DEF SameLeft
  <2> QED BY <1>2, <2>1, <2>5
<1>5. CASE SenderResume
  <2> DEFINE p == SetState(snd, snd.last)
             t == [p EXCEPT !.paused = FALSE]
  <2>1. snd' = ScheduleSendData(t) BY <1>5 DEF SenderResume
  <2>2. SameLeft(snd, p) BY <1>0, HelpersKeepLeft
  <2> HIDE DEF p
  <2>3. SameLeft(p, t) BY <2>2 DEF SameLeft, Sender
  <2> HIDE DEF t
  <2>4. SameLeft(t, ScheduleSendData(t)) BY <1>0, <2>3, HelpersKeepLeft DEF SameLeft
  <2>5. SameLeft(snd, ScheduleSendData(t)) BY <2>2, <2>3, <2>4 DEF SameLeft
  <2> QED BY <1>2, <2>1, <2>5
<1>6. CASE SenderCancel
  <2> DEFINE t == [snd EXCEPT !.cancelled = TRUE, !.waiting = FALSE]
             p == SetState(t, "Cancelled")
  <2>1. snd' = CloseDataSockets(p) BY <1>6 DEF SenderCancel
  <2>2. SameLeft(snd, t) BY DEF SameLeft, Sender
  <2> HIDE DEF t
  <2>3. SameLeft(t, p) BY <1>0, <2>2, HelpersKeepLeft DEF SameLeft
  <2> HIDE DEF p
  <2>4. SameLeft(p, CloseDataSockets(p)) BY <1>0, <2>3, HelpersKeepLeft DEF SameLeft
  <2>5. SameLeft(snd, CloseDataSockets(p)) BY <2>2, <2>3, <2>4 DEF SameLeft
  <2> QED BY <1>2, <2>1, <2>5
<1>7. CASE OnIdleTimeout
  <2>1. snd' = Fail(snd) \/ snd' = snd BY <1>7 DEF OnIdleTimeout
  <2>2. SameLeft(snd, Fail(snd)) BY <1>0, HelpersKeepLeft
  <2> QED BY <1>1, <1>2, <2>1, <2>2
<1> QED BY <1>3, <1>4, <1>5, <1>6, <1>7

(***************************************************************************)
(* A paused upload sends no chunk (sender.cpp:234), though timers are      *)
(* pending, a set-up of data sockets ends in the pause or acks come in.    *)
(***************************************************************************)
THEOREM APauseSendsNothing ==
  ASSUME "slowAttach" \notin Events
  PROVE  Spec => PausedSendsNothing
<1>1. ASSUME StripedInv, [Next]_vars, snd.paused, ~snd.waiting
      PROVE  snd'.left >= snd.left
  <2>0. snd \in Sender /\ snd.left \in Nat
    BY <1>1, StripedAssumption DEF StripedInv, SenderOK, Sender, StripedAssumption
  <2>1. ASSUME snd'.left = snd.left PROVE snd'.left >= snd.left
    BY <2>0, <2>1
  <2>2. CASE SenderSteps
    BY <1>1, <2>0, <2>1, <2>2, PausedTimers, PausedPackets, PausedRest DEF SenderSteps
  <2>3. CASE ReceiverSteps
    BY <2>1, <2>3 DEF ReceiverSteps, ProcessHeader, ProcessData, ProcessFinish,
                      ReceiverProcessCancel, ReceiverOnDisconnected, ChunkArrives, ReceiverReads
  <2>4. CASE UserSteps
    BY <2>0, <2>1, <2>4, PausedRest DEF UserSteps, ReceiverPause, ReceiverResume
  <2>5. CASE Break \/ (\E i \in DOMAIN streams : StreamBreaks(i)) \/ UNCHANGED vars
    BY <2>1, <2>5 DEF Break, StreamBreaks, vars
  <2>6. CASE OnIdleTimeout
    BY <2>0, <2>6, PausedRest
  <2> QED BY <1>1, <2>2, <2>3, <2>4, <2>5, <2>6 DEF Next
<1>2. StripedInv /\ [Next]_vars =>
        [snd.paused /\ snd'.paused /\ ~snd.waiting => snd'.left >= snd.left]_vars
  BY <1>1
<1> QED BY <1>2, StripedIsSound, PTL DEF Spec, PausedSendsNothing
=============================================================================
