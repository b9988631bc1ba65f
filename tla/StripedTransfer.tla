-------------------------- MODULE StripedTransfer --------------------------
(***************************************************************************)
(* An upload over parallel streams (src/src/transfer/sender.cpp and        *)
(* receiver.cpp): the Sender opens data sockets, deals the chunks of the   *)
(* file out to them and sends Finish on the control connection; the        *)
(* Receiver writes chunks where they belong, in the order they come.       *)
(* Pauses, retries and failures fall back to the single stream.            *)
(*                                                                         *)
(* setupDataSockets() spins the event loop while it waits for the ack of   *)
(* each socket, so every handler of the Sender may run in the middle of    *)
(* it, sendStripedData() itself included: setup is the stack of calls that *)
(* wait there.                                                             *)
(*                                                                         *)
(* Both peers verify checksums or neither does, acks are announced, TLS is *)
(* off and .part files are resumed.  What TransferProtocol covers is left  *)
(* out here: busy and late OffsetAcks, and a Receiver that outlives the    *)
(* next connection.                                                        *)
(***************************************************************************)
EXTENDS TransferInfo, Integers, SequencesExt

CONSTANTS
  Chunks,      \* number of chunks of the file
  Streams,     \* ParallelStreams, on both peers
  Verify,      \* VerifyChecksum
  RetryMax,    \* TransferRetryMax
  MaxClicks,   \* bounds how often the users pause and resume
  MaxSockets,  \* bounds the data sockets ever opened
  Events       \* what may disturb the transfer

ASSUME StripedAssumption ==
  /\ Chunks \in Nat \ {0} /\ Streams \in Nat \ {0, 1} /\ Verify \in BOOLEAN
  /\ {RetryMax, MaxClicks, MaxSockets} \subseteq Nat
  /\ Events \subseteq {"senderPause", "receiverPause", "cancel", "break", "streamBreak",
                       "busyStream", "fallback", "slowAttach"}

VARIABLES
  snd,      \* the Sender
  setup,    \* the calls of setupDataSockets() under way: sockets opened by each
  rcv,      \* the Receiver of the current connection
  streams,  \* every data socket ever opened, with the chunks in it
  link,     \* the control connection: "up", "down", or "off" once the Sender knows
  up, down, \* packets on it, to the Receiver and to the Sender
  part,     \* the .part file: the chunk at each position, 0 for a hole
  final,    \* the delivered file; Nothing before
  clicks    \* counts pauses and resumes

vars == <<snd, setup, rcv, streams, link, up, down, part, final, clicks>>

control == <<link, up, down>>
files == <<part, final>>

Chunk == 1 .. Chunks
Source == [i \in Chunk |-> i]
Nothing == [i \in Chunk |-> 0]

\* the length of the .part
PartSize == IF part = Nothing THEN 0 ELSE CHOOSE i \in Chunk :
              part[i] # 0 /\ \A j \in Chunk : j > i => part[j] = 0

(***************************************************************************)
(* Packets: n is the chunk of Data, the offset of OffsetAck, and for the   *)
(* digest of Finish the number of chunks it leaves out.                    *)
(***************************************************************************)
Packet == [type : {"Header", "Data", "Finish", "Cancel", "Pause", "Resume", "OffsetAck", "FinishAck"},
           n : 0 .. Chunks]

P(type, n) == [type |-> type, n |-> n]

Sender ==
  [state : TransferState, last : TransferState, attempt : 0 .. RetryMax,
   active : {1, Streams},          \* mActiveStreams
   next : Nat,                     \* mNextStripedOffset
   index : Nat,                    \* mStripedSocketIndex
   left : 0 .. Chunks,             \* mBytesRemaining
   pos : 0 .. Chunks,              \* mFile->pos()
   hashFrom : 0 .. Chunks,         \* mHash: of the chunks hashFrom + 1 .. pos
   sockets : Seq(1 .. MaxSockets), \* mDataSockets
   waiting : BOOLEAN,              \* mWaitingForOffsetAck
   paused : BOOLEAN, pausedByReceiver : BOOLEAN, cancelled : BOOLEAN,
   scheduled : BOOLEAN,            \* mSendScheduled
   pumps : Nat, stripers : Nat,    \* singleShots of sendData() and sendStripedData() pending
   retry : BOOLEAN,                \* mRetryScheduled
   finishing : BOOLEAN,
   crashed : BOOLEAN]              \* a division by zero has ended the program

Receiver ==
  [state : TransferState, last : TransferState, attempt : 0 .. RetryMax,
   accepted : {1, Streams},        \* mAcceptedStreams
   high : 0 .. Chunks,             \* mBytesRead
   pos : 0 .. Chunks,              \* mFile->pos()
   pending : BOOLEAN,              \* mFinishPending
   digest : 0 .. Chunks]           \* mPendingFinishHash

NewReceiver ==
  [state |-> "Waiting", last |-> "Idle", attempt |-> 0, accepted |-> 1, high |-> 0,
   pos |-> 0, pending |-> FALSE, digest |-> 0]

\* the header has just been sent
Init ==
  /\ snd = [state |-> "Transfering", last |-> "Waiting", attempt |-> 0, active |-> 1, next |-> 0,
            index |-> 0, left |-> Chunks, pos |-> 0, hashFrom |-> 0, sockets |-> <<>>,
            waiting |-> TRUE, paused |-> FALSE, pausedByReceiver |-> FALSE, cancelled |-> FALSE,
            scheduled |-> FALSE, pumps |-> 0, stripers |-> 0, retry |-> FALSE,
            finishing |-> FALSE, crashed |-> FALSE]
  /\ setup = <<>>
  /\ rcv = NewReceiver
  /\ streams = <<>>
  /\ link = "up" /\ up = <<P("Header", 0)>> /\ down = <<>>
  /\ part = Nothing /\ final = Nothing
  /\ clicks = 0

-----------------------------------------------------------------------------
(***************************************************************************)
(* The Sender's helpers.                                                   *)
(***************************************************************************)

\* writePacket(): lost when the connection is down
ToReceiver(p) == up' = IF link = "up" THEN Append(up, p) ELSE up

ScheduleSendData(s) ==
  IF s.scheduled \/ s.cancelled \/ s.paused \/ s.pausedByReceiver \/ s.waiting THEN s
  ELSE [s EXCEPT !.scheduled = TRUE, !.pumps = @ + 1]

\* closeDataSockets(): what was written is still delivered
CloseDataSockets(s) == [s EXCEPT !.sockets = <<>>]

\* finish(): with finish acks announced the upload is not complete yet
Finish(s) ==
  IF IsTerminal(s) \/ link = "off" THEN snd' = s /\ UNCHANGED up
  ELSE snd' = [s EXCEPT !.finishing = TRUE] /\ ToReceiver(P("Finish", s.hashFrom))

CompleteUpload(s) ==
  IF IsTerminal(s) THEN s
  ELSE SetState([s EXCEPT !.finishing = FALSE, !.scheduled = FALSE], "Finish")

Advance(s) == [s EXCEPT !.left = @ - 1, !.pos = @ + 1]

(***************************************************************************)
(* writeStripedChunk(), on socket i of the data sockets ss.  A broken      *)
(* socket may take the chunk, or refuse it, which cancels the transfer.    *)
(***************************************************************************)
ChunkWritten(s, ss, i) ==
  LET t == [Advance(s) EXCEPT !.next = @ + 1, !.index = @ + 1]
  IN  /\ IF t.left = 0 THEN Finish(t)
         ELSE /\ snd' = [t EXCEPT !.scheduled = TRUE, !.stripers = @ + 1]
              /\ UNCHANGED up
      /\ streams' = IF ss[i].open
                    THEN [ss EXCEPT ![i].queue = Append(@, [at |-> t.next, n |-> t.pos])] ELSE ss
      /\ UNCHANGED link

ChunkRefused(s, ss, i) ==
  /\ ~ss[i].open
  /\ ToReceiver(P("Cancel", 0))
  /\ link' = IF link = "up" THEN "down" ELSE link
  /\ snd' = Fail(CloseDataSockets(s))
  /\ streams' = ss

\* sendStripedData() once setupDataSockets() has returned true
SendChunk(s, ss) ==
  IF s.left = 0 THEN Finish(s) /\ streams' = ss /\ UNCHANGED link
  ELSE IF s.cancelled \/ s.paused \/ s.pausedByReceiver
  THEN snd' = s /\ streams' = ss /\ UNCHANGED <<link, up>>
  ELSE IF s.sockets = <<>>
  THEN snd' = [s EXCEPT !.crashed = TRUE] /\ streams' = ss /\ UNCHANGED <<link, up>>
  ELSE IF s.pos >= Chunks
  THEN snd' = Fail(s) /\ streams' = ss /\ UNCHANGED <<link, up>>
  ELSE LET i == s.sockets[(s.index % Len(s.sockets)) + 1]
       IN  ChunkWritten(s, ss, i) \/ ChunkRefused(s, ss, i)

\* sendStripedData() as far as setupDataSockets() begins to wait
SendStripedData(s) ==
  IF s.active = 1 \/ s.sockets # <<>> THEN SendChunk(s, streams) /\ UNCHANGED setup
  ELSE /\ UNCHANGED <<streams, link, up>>
       /\ IF s.next > 0
          THEN snd' = ScheduleSendData([s EXCEPT !.active = 1]) /\ UNCHANGED setup
          ELSE snd' = s /\ setup' = Append(setup, 0)

\* sendData() on the single stream; at the end of the file it sends empty packets for ever
SendSingle(s) ==
  /\ UNCHANGED <<streams, link, setup>>
  /\ IF s.pos >= Chunks THEN snd' = ScheduleSendData(s) /\ UNCHANGED up
     ELSE LET t == Advance(s)
              data == P("Data", t.pos)
              finish == P("Finish", t.hashFrom)
          IN  IF t.left > 0 THEN snd' = ScheduleSendData(t) /\ ToReceiver(data)
              ELSE /\ snd' = [t EXCEPT !.finishing = TRUE]
                   /\ up' = IF link = "up" THEN up \o <<data, finish>> ELSE up

-----------------------------------------------------------------------------
(***************************************************************************)
(* The Sender's events.  Timers first.                                     *)
(***************************************************************************)
SenderFrame == UNCHANGED <<rcv, down, files, clicks>>

\* mutant: the pump looks only for the receiver's pause
PumpIgnoresPause ==
  /\ snd.pumps > 0
  /\ LET s == [snd EXCEPT !.pumps = @ - 1, !.scheduled = FALSE]
     IN  IF link = "off" \/ IsTerminal(s) \/ s.left = 0 \/ s.cancelled
            \/ s.pausedByReceiver \/ s.waiting
         THEN snd' = s /\ UNCHANGED <<streams, link, up, setup>>
         ELSE IF s.active > 1 THEN SendStripedData(s) ELSE SendSingle(s)
  /\ SenderFrame

SendData ==
  /\ snd.pumps > 0
  /\ LET s == [snd EXCEPT !.pumps = @ - 1, !.scheduled = FALSE]
     IN  IF link = "off" \/ IsTerminal(s) \/ s.left = 0 \/ s.cancelled \/ s.paused
            \/ s.pausedByReceiver \/ s.waiting
         THEN snd' = s /\ UNCHANGED <<streams, link, up, setup>>
         ELSE IF s.active > 1 THEN SendStripedData(s) ELSE SendSingle(s)
  /\ SenderFrame

StripeTimer ==
  /\ snd.stripers > 0
  /\ SendStripedData([snd EXCEPT !.stripers = @ - 1, !.scheduled = FALSE])
  /\ SenderFrame

\* the loop of setupDataSockets() in the innermost call
Opened == Last(setup)

(***************************************************************************)
(* The ack of the next socket: a registered Receiver adopts the socket; a  *)
(* busy server answers with the same packet type and hangs up.  With the   *)
(* last socket the call returns to sendStripedData().                      *)
(***************************************************************************)
StreamOpens ==
  /\ setup # <<>> /\ Len(streams) < MaxSockets
  /\ \E adopted \in BOOLEAN :
       /\ IF adopted THEN rcv.state \in {"Transfering", "Paused", "Cancelled"}
          ELSE "busyStream" \in Events
       /\ LET ss == Append(streams, [attempt |-> rcv.attempt, queue |-> <<>>, open |-> adopted])
              s == [snd EXCEPT !.sockets = Append(@, Len(ss))]
          IN  IF Opened + 1 < snd.active
              THEN /\ setup' = [setup EXCEPT ![Len(setup)] = @ + 1]
                   /\ snd' = s /\ streams' = ss /\ UNCHANGED <<link, up>>
              ELSE setup' = Front(setup) /\ SendChunk(s, ss)
  /\ SenderFrame

\* connection, attach or ack fails: fall back to the single stream
SetupFails ==
  /\ setup # <<>>
  /\ "fallback" \in Events \/ Len(streams) = MaxSockets \/ IsTerminal(rcv)
  /\ snd' = ScheduleSendData([CloseDataSockets(snd) EXCEPT !.active = 1])
  /\ setup' = Front(setup)
  /\ UNCHANGED <<streams, link, up>> /\ SenderFrame

\* mutant: the file is not sought back to its beginning
RetryWithoutSeek ==
  /\ snd.retry /\ IsTerminal(rcv) /\ snd.pumps + snd.stripers = 0
  /\ snd' = SetState([CloseDataSockets(snd) EXCEPT
                !.retry = FALSE, !.attempt = @ + 1, !.waiting = TRUE, !.pausedByReceiver = FALSE,
                !.finishing = FALSE, !.scheduled = FALSE, !.index = 0, !.left = Chunks],
              "Transfering")
  /\ link' = "up" /\ up' = <<P("Header", 0)>> /\ down' = <<>>
  /\ UNCHANGED <<rcv, streams, setup, files, clicks>>

(***************************************************************************)
(* retryConnect() and the connection it makes, up to sendHeader().  Its    *)
(* timer runs for TransferRetryBaseMs at least: those of the pumps, a few  *)
(* milliseconds, have fired by then.  Only when an attach takes as long     *)
(* ("slowAttach") can it fire inside of setupDataSockets().                *)
(***************************************************************************)
RetryConnect ==
  /\ snd.retry /\ IsTerminal(rcv) /\ snd.pumps + snd.stripers = 0
  /\ setup = <<>> \/ "slowAttach" \in Events
  /\ LET s == [snd EXCEPT !.retry = FALSE]
     IN  IF s.state \in {"Cancelled", "Finish"} \/ s.cancelled
         THEN snd' = s /\ UNCHANGED control
         ELSE /\ snd' = SetState([CloseDataSockets(s) EXCEPT
                           !.attempt = @ + 1, !.waiting = TRUE, !.pausedByReceiver = FALSE,
                           !.finishing = FALSE, !.scheduled = FALSE, !.index = 0,
                           !.pos = 0, !.hashFrom = 0, !.left = Chunks], "Transfering")
              /\ link' = "up" /\ up' = <<P("Header", 0)>> /\ down' = <<>>
  /\ UNCHANGED <<rcv, streams, setup, files, clicks>>

\* applyOffsetAck(): an offset is sought, 0 is taken to be where the file is
ApplyOffsetAck(s, n) ==
  ScheduleSendData(
    [(IF n > 0 THEN CloseDataSockets(s) ELSE s) EXCEPT
       !.active = IF n > 0 THEN 1 ELSE Streams, !.index = 0, !.waiting = FALSE,
       !.pos = IF n > 0 THEN n ELSE @, !.hashFrom = IF n > 0 THEN 0 ELSE s.pos,
       !.left = Chunks - n, !.next = n])

SenderReads(type) ==
  /\ link # "off" /\ down # <<>> /\ Head(down).type = type
  /\ down' = Tail(down)
  /\ UNCHANGED <<rcv, streams, setup, files, clicks>>

ProcessOffsetAck ==
  /\ SenderReads("OffsetAck")
  /\ snd' = IF IsTerminal(snd) \/ ~snd.waiting THEN snd ELSE ApplyOffsetAck(snd, Head(down).n)
  /\ UNCHANGED <<link, up>>

ProcessFinishAck ==
  /\ SenderReads("FinishAck")
  /\ snd' = IF IsTerminal(snd) THEN snd ELSE CompleteUpload(snd)
  /\ UNCHANGED <<link, up>>

\* Cancel, Pause and Resume; onReadyRead() reads nothing once the transfer has ended
SenderProcessCancel ==
  /\ SenderReads("Cancel")
  /\ IF IsTerminal(snd) THEN UNCHANGED <<snd, link>>
     ELSE /\ snd' = SetState([CloseDataSockets(snd) EXCEPT
                       !.waiting = FALSE, !.scheduled = FALSE, !.finishing = FALSE,
                       !.cancelled = TRUE], "Cancelled")
          /\ link' = "down"
  /\ UNCHANGED <<up>>

SenderProcessPause ==
  /\ SenderReads("Pause")
  /\ snd' = IF IsTerminal(snd) THEN snd ELSE [snd EXCEPT !.pausedByReceiver = TRUE]
  /\ UNCHANGED <<link, up>>

SenderProcessResume ==
  /\ SenderReads("Resume")
  /\ snd' = IF IsTerminal(snd) THEN snd
            ELSE ScheduleSendData([snd EXCEPT !.pausedByReceiver = FALSE])
  /\ UNCHANGED <<link, up>>

SenderOnDisconnected ==
  /\ link = "down" /\ down = <<>>
  /\ link' = "off"
  /\ snd' = IF IsTerminal(snd) THEN snd
            ELSE IF snd.finishing THEN CompleteUpload(snd)
            ELSE IF snd.left = 0 THEN snd
            ELSE LET s == CloseDataSockets(snd)
                 IN  IF ~s.cancelled /\ ~s.paused /\ s.attempt < RetryMax
                     THEN SetState([s EXCEPT !.retry = TRUE], "Waiting")
                     ELSE Fail(s)
  /\ UNCHANGED <<rcv, streams, setup, up, down, files, clicks>>

\* the uploading user
SenderPause ==
  /\ "senderPause" \in Events /\ clicks < MaxClicks /\ CanPause(snd)
  /\ snd' = CloseDataSockets(SetState([snd EXCEPT !.paused = TRUE], "Paused"))
  /\ clicks' = clicks + 1
  /\ UNCHANGED <<setup, rcv, streams, control, files>>

SenderResume ==
  /\ clicks < MaxClicks /\ CanResume(snd)
  /\ snd' = ScheduleSendData([SetState(snd, snd.last) EXCEPT !.paused = FALSE])
  /\ clicks' = clicks + 1
  /\ UNCHANGED <<setup, rcv, streams, control, files>>

SenderCancel ==
  /\ "cancel" \in Events /\ CanCancel(snd)
  /\ snd' = CloseDataSockets(SetState([snd EXCEPT !.cancelled = TRUE, !.waiting = FALSE], "Cancelled"))
  /\ IF link = "off" THEN UNCHANGED up ELSE ToReceiver(P("Cancel", 0))
  /\ UNCHANGED <<setup, rcv, streams, link, down, files, clicks>>

-----------------------------------------------------------------------------
(***************************************************************************)
(* The Receiver.                                                           *)
(***************************************************************************)
Shut(ss) == [i \in DOMAIN ss |-> [ss[i] EXCEPT !.queue = <<>>, !.open = FALSE]]

\* the Receiver closes data sockets and connection, with last words to the Sender
HangUp(words) ==
  /\ streams' = Shut(streams)
  /\ down' = IF link = "up" THEN down \o words ELSE down
  /\ link' = IF link = "up" THEN "down" ELSE link
  /\ up' = <<>>

ReceiverReads(type) ==
  /\ up # <<>> /\ Head(up).type = type
  /\ IF type = "Header" THEN IsTerminal(rcv) \/ rcv.state = "Waiting" ELSE ~IsTerminal(rcv)
  /\ UNCHANGED <<snd, setup, clicks>>

\* processHeaderPacket(): resume the .part from its size, and then on a single stream
ProcessHeader ==
  /\ ReceiverReads("Header")
  /\ LET offset == IF PartSize < Chunks THEN PartSize ELSE 0
         streamsAccepted == IF offset = 0 THEN Streams ELSE 1
     IN  /\ rcv' = SetState([NewReceiver EXCEPT !.attempt = snd.attempt, !.accepted = streamsAccepted,
                                              !.high = offset, !.pos = offset], "Transfering")
         /\ part' = IF offset = 0 THEN Nothing ELSE part
         /\ down' = IF link = "up" THEN Append(down, P("OffsetAck", offset)) ELSE down
  /\ up' = Tail(up)
  /\ UNCHANGED <<streams, link, final>>

\* processDataPacket(): written wherever the last write has left the file
ProcessData ==
  /\ ReceiverReads("Data")
  /\ up' = Tail(up)
  /\ IF rcv.high + 1 > Chunks THEN UNCHANGED <<rcv, part>>
     ELSE /\ part' = [part EXCEPT ![rcv.pos + 1] = Head(up).n]
          /\ rcv' = [rcv EXCEPT !.pos = @ + 1, !.high = @ + 1]
  /\ UNCHANGED <<streams, link, down, final>>

\* the file has the digest of all chunks of the source but the first n
Matches(file, n) == \A i \in Chunk : file[i] = IF i <= Chunks - n THEN n + i ELSE 0

\* finalizeDownload()
FinalizeDownload(r, file) ==
  /\ rcv' = SetState(r, "Finish")
  /\ final' = file /\ part' = Nothing
  /\ HangUp(<<P("FinishAck", 0)>>)

\* checksum_failed
ChecksumFailed(r) ==
  /\ rcv' = Fail(r)
  /\ part' = Nothing /\ UNCHANGED final
  /\ HangUp(<<P("Cancel", 0)>>)

\* mutant: the digest is not compared
FinishUnverified == ReceiverReads("Finish") /\ FinalizeDownload(rcv, part)

(***************************************************************************)
(* processFinishPacket(): with checksums and several streams it waits for  *)
(* mBytesRead, the highest end seen, to reach the size.                    *)
(***************************************************************************)
ProcessFinish ==
  /\ ReceiverReads("Finish")
  /\ IF Verify /\ rcv.accepted > 1 /\ rcv.high < Chunks
     THEN /\ rcv' = [rcv EXCEPT !.pending = TRUE, !.digest = Head(up).n]
          /\ up' = Tail(up)
          /\ UNCHANGED <<streams, link, down, files>>
     ELSE IF Verify /\ ~Matches(part, Head(up).n) THEN ChecksumFailed(rcv)
     ELSE FinalizeDownload(rcv, part)

\* processStripedSocketReadyRead() with handleStripedPayload()
ChunkArrives(i) ==
  /\ streams[i].queue # <<>>
  /\ LET chunk == Head(streams[i].queue)
         at == chunk.at
         rest == [streams EXCEPT ![i].queue = Tail(@)]
         file == [part EXCEPT ![at] = chunk.n]
         r == [rcv EXCEPT !.pos = at, !.high = IF at > @ THEN at ELSE @]
     IN  IF \/ streams[i].attempt # rcv.attempt \/ at > Chunks
            \/ rcv.state \in {"Finish", "Cancelled", "Failed"}
         THEN streams' = rest /\ UNCHANGED <<rcv, control, files>>
         ELSE IF r.pending /\ r.high = Chunks
         THEN IF Matches(file, r.digest) THEN FinalizeDownload(r, file) ELSE ChecksumFailed(r)
         ELSE rcv' = r /\ part' = file /\ streams' = rest /\ UNCHANGED <<control, final>>
  /\ UNCHANGED <<snd, setup, clicks>>

\* processCancelPacket()
ReceiverProcessCancel ==
  /\ ReceiverReads("Cancel")
  /\ rcv' = SetState(rcv, "Cancelled")
  /\ part' = Nothing /\ UNCHANGED final
  /\ HangUp(<<>>)

ReceiverOnDisconnected ==
  /\ link # "up" /\ up = <<>> /\ ~IsTerminal(rcv)
  /\ rcv' = Fail(rcv)
  /\ UNCHANGED <<snd, setup, streams, control, files, clicks>>

\* the downloading user
ReceiverPause ==
  /\ "receiverPause" \in Events /\ clicks < MaxClicks /\ rcv.state = "Transfering"
  /\ rcv' = SetState(rcv, "Paused")
  /\ down' = IF link = "up" THEN Append(down, P("Pause", 0)) ELSE down
  /\ clicks' = clicks + 1
  /\ UNCHANGED <<snd, setup, streams, link, up, files>>

ReceiverResume ==
  /\ clicks < MaxClicks /\ CanResume(rcv)
  /\ rcv' = SetState(rcv, rcv.last)
  /\ down' = IF link = "up" THEN Append(down, P("Resume", 0)) ELSE down
  /\ clicks' = clicks + 1
  /\ UNCHANGED <<snd, setup, streams, link, up, files>>

-----------------------------------------------------------------------------
(***************************************************************************)
(* The network, and the idle timers of both peers.                         *)
(***************************************************************************)

\* the control connection breaks; the last packets of each direction may be lost
Break ==
  /\ "break" \in Events /\ link = "up"
  /\ link' = "down"
  /\ \E n \in 0 .. Len(up), m \in 0 .. Len(down) :
       up' = SubSeq(up, 1, n) /\ down' = SubSeq(down, 1, m)
  /\ UNCHANGED <<snd, setup, rcv, streams, files, clicks>>

StreamBreaks(i) ==
  /\ "streamBreak" \in Events /\ streams[i].open
  /\ \E n \in 0 .. Len(streams[i].queue) :
       streams' = [streams EXCEPT ![i].open = FALSE, ![i].queue = SubSeq(@, 1, n)]
  /\ UNCHANGED <<snd, setup, rcv, control, files, clicks>>

\* nothing is on its way that would restart an idle timer
Quiet ==
  /\ setup = <<>> /\ snd.pumps + snd.stripers = 0 /\ ~snd.retry
  /\ up = <<>> /\ down = <<>> /\ \A i \in DOMAIN streams : streams[i].queue = <<>>

\* mutant: no idle timer runs in a pause
NoTimerInAPause ==
  /\ Quiet
  /\ link' = IF link = "up" THEN "down" ELSE link
  /\ \/ ~IsTerminal(snd) /\ snd.state # "Paused" /\ snd' = Fail(snd) /\ UNCHANGED rcv
     \/ ~IsTerminal(rcv) /\ rcv.state # "Paused" /\ rcv' = Fail(rcv) /\ UNCHANGED snd
  /\ UNCHANGED <<setup, streams, up, down, files, clicks>>

OnIdleTimeout ==
  /\ Quiet
  /\ link' = IF link = "up" THEN "down" ELSE link
  /\ \/ ~IsTerminal(snd) /\ snd' = Fail(snd) /\ UNCHANGED rcv
     \/ ~IsTerminal(rcv) /\ rcv' = Fail(rcv) /\ UNCHANGED snd
  /\ UNCHANGED <<setup, streams, up, down, files, clicks>>

-----------------------------------------------------------------------------
SenderSteps ==
  \/ SendData \/ StripeTimer \/ StreamOpens \/ SetupFails \/ RetryConnect
  \/ ProcessOffsetAck \/ ProcessFinishAck \/ SenderProcessCancel
  \/ SenderProcessPause \/ SenderProcessResume \/ SenderOnDisconnected

ReceiverSteps ==
  \/ ProcessHeader \/ ProcessData \/ ProcessFinish \/ ReceiverProcessCancel
  \/ ReceiverOnDisconnected
  \/ \E i \in DOMAIN streams : ChunkArrives(i)

UserSteps ==
  SenderPause \/ SenderResume \/ SenderCancel \/ ReceiverPause \/ ReceiverResume

Next ==
  /\ ~snd.crashed
  /\ \/ SenderSteps \/ ReceiverSteps \/ UserSteps
     \/ Break \/ (\E i \in DOMAIN streams : StreamBreaks(i)) \/ OnIdleTimeout

Spec == Init /\ [][Next]_vars

\* event loops and timers of both peers run; nobody has to resume, and networks need not break
FairSpec ==
  /\ Spec
  /\ WF_vars(~snd.crashed /\ SenderSteps) /\ WF_vars(~snd.crashed /\ ReceiverSteps)
  /\ WF_vars(~snd.crashed /\ OnIdleTimeout)

-----------------------------------------------------------------------------
(***************************************************************************)
(* Properties.                                                             *)
(***************************************************************************)

\* every variable has its type
TypeOK ==
  /\ snd \in Sender /\ setup \in Seq(0 .. Streams) /\ rcv \in Receiver
  /\ streams \in Seq([attempt : 0 .. RetryMax, queue : Seq([at : Nat, n : Chunk]), open : BOOLEAN])
  /\ link \in {"up", "down", "off"} /\ up \in Seq(Packet) /\ down \in Seq(Packet)
  /\ part \in [Chunk -> 0 .. Chunks] /\ final \in [Chunk -> 0 .. Chunks]
  /\ clicks \in 0 .. MaxClicks

(***************************************************************************)
(* Checksums (receiver.cpp:653, 698): what is delivered is the file,       *)
(* though chunks come in any order, data sockets lose some, pauses move    *)
(* the rest to the control connection, where it is written wherever the    *)
(* last chunk has left the file, and a retry resumes a .part with holes.   *)
(***************************************************************************)
DeliveredIsWhole == Verify /\ final # Nothing => final = Source

(***************************************************************************)
(* sendStripedData() (sender.cpp:630) reads the file and counts offsets    *)
(* apart: whatever runs inside setupDataSockets(), and whichever timers    *)
(* and acks come in between, the next chunk belongs to the next offset.    *)
(***************************************************************************)
StripesAreAligned ==
  snd.active > 1 /\ ~snd.waiting /\ ~IsTerminal(snd) => snd.next = snd.pos

(***************************************************************************)
(* A paused upload (sender.cpp:234) sends no chunk, though sendData() or   *)
(* sendStripedData() is scheduled, or waits for its sockets, when the user *)
(* pauses.                                                                 *)
(***************************************************************************)
PausedSendsNothing ==
  [][snd.paused /\ snd'.paused /\ ~snd.waiting => snd'.left >= snd.left]_vars

(***************************************************************************)
(* Both peers come to an end (transfer.cpp:94): chunks lost with a data    *)
(* socket, a Finish that waits for them, a pause nobody ends and an end    *)
(* refused in a pause leave it to the idle timers, but leave nothing       *)
(* running for ever.                                                       *)
(***************************************************************************)
EveryTransferEnds == <>(snd.crashed \/ (IsTerminal(snd) /\ IsTerminal(rcv)))

(***************************************************************************)
(* The test parallelStreamsTwoSocketChecksum: a transfer over several      *)
(* streams that nothing disturbs finishes, with its checksum matched.      *)
(***************************************************************************)
UndisturbedIsAccepted == Events = {} => rcv.state # "Failed"
=============================================================================
