-------------------------- MODULE TransferProtocol --------------------------
(***************************************************************************)
(* One upload of one file: a Sender, the connections it makes, and the     *)
(* Receiver that the peer creates for each of them                         *)
(* (src/src/transfer/sender.cpp, receiver.cpp and transfer.cpp, with the   *)
(* admission of transferserver.cpp as its environment).                    *)
(*                                                                         *)
(* The file is a sequence of Chunks chunks, each sent in one Data packet   *)
(* on the single control stream.  A connection is two FIFO queues.  When   *)
(* it breaks, a suffix of each queue may be lost and the two ends notice   *)
(* independently, so the Receiver of a broken connection can still be at   *)
(* work while the Sender retries on the next one.                          *)
(*                                                                         *)
(* A handler of the code that only computes on the members of its object   *)
(* is an operator from the object's record to its next value; an action is *)
(* a callback of the event loop, with every handler it calls.              *)
(***************************************************************************)
EXTENDS Naturals, Sequences, TransferInfo

CONSTANTS
  Chunks,        \* number of chunks of the file
  RetryMax,      \* TransferRetryMax: upload retry attempts
  Verify,        \* VerifyChecksum, on both peers
  ResumePartial, \* ResumePartialDownloads of the receiving peer
  TLS,           \* TlsEnabled, on both peers
  MaxQueue,      \* bound: packets waiting for the Sender when the receiving user acts
  Events         \* what users, peers, disks and networks may do in this instance

EventKind ==
  {"senderPause", "senderCancel",      \* the uploading user's buttons
   "receiverPause", "receiverCancel",  \* the downloading user's buttons
   "break", "refuse",                  \* a connection is lost, or never accepted
   "busy", "reject", "pinMismatch",    \* download cap; header checks; TOFU pin
   "readError", "writeError",          \* the disk of either peer fails
   "idle",                             \* TransferIdleTimeoutMs > 0
   "ackTimeout",                       \* the OffsetAck may not come in time
   "oldPart", "foreignPart"}           \* a .part of this, of another file exists

ASSUME ChunksAssumption == Chunks \in Nat \ {0}
ASSUME RetryAssumption == RetryMax \in Nat
ASSUME SettingsAssumption ==
  Verify \in BOOLEAN /\ ResumePartial \in BOOLEAN /\ TLS \in BOOLEAN
ASSUME QueueAssumption == MaxQueue \in Nat
ASSUME EventsAssumption == Events \subseteq EventKind

-----------------------------------------------------------------------------
(* Values *)

Attempt == 0 .. RetryMax

Chunk == 0 .. Chunks     \* 0: a chunk of some other file

Content == Seq(Chunk)

Source == [i \in 1 .. Chunks |-> i]

File == [there : BOOLEAN, data : Content]

NoFile == [there |-> FALSE, data |-> <<>>]

\* PacketType, with the three uses of OffsetAck told apart.  Progress acks
\* change nothing but the numbers on display and are left out.
PacketKind ==
  {"Header", "Data", "Finish", "Cancel", "Pause", "Resume",
   "OffsetAck", "Busy", "FinishAck"}

\* n: the chunk of a Data packet, the offset of an OffsetAck, for the sha256
\* of a Finish packet the number of chunks it leaves out, else 0
Packet == [type : PacketKind, n : Chunk]

Packet0(type) == [type |-> type, n |-> 0]

Sender ==
  [state : TransferState, last : TransferState,
   attempt : Attempt,
   sock : {"none", "connecting", "handshake", "open", "closed"},
   unsent : BOOLEAN,               \* mSocket->bytesToWrite() > 0
   remaining : 0 .. Chunks,        \* mBytesRemaining
   pos : 0 .. Chunks,              \* mFile->pos()
   hashFrom : 0 .. Chunks,         \* mHash: of the chunks hashFrom + 1 .. pos
   paused : BOOLEAN, cancelled : BOOLEAN, pausedByReceiver : BOOLEAN,
   waitingForOffsetAck : BOOLEAN,  \* and mOffsetAckTimer running
   finishing : BOOLEAN, finishPending : BOOLEAN,
   sendScheduled : BOOLEAN,        \* a singleShot(sendData) is pending
   retryScheduled : BOOLEAN,       \* a singleShot(retryConnect) is pending
   receiverFinishAck : BOOLEAN,
   idleArmed : BOOLEAN]            \* mIdleTimer running

Receiver ==
  [state : TransferState, last : TransferState,
   sock : {"none", "open", "closed"},
   got : Content,   \* the chunks counted by mBytesRead and hashed in mHash
   file : {"null", "part", "final", "unlinked"}]
                    \* mFile: the directory entry its open handle stands for

VARIABLES
  snd,    \* the Sender
  rcv,    \* the Receiver of each connection
  link,   \* the state of each connection
  toR,    \* packets on their way to the Receiver, per connection
  toS,    \* packets on their way to the Sender, per connection
  part,   \* the file <name>.part in the download folder
  final   \* the file <name> in the download folder

vars == <<snd, rcv, link, toR, toS, part, final>>

TypeOK ==
  /\ snd \in Sender
  /\ rcv \in [Attempt -> Receiver]
  /\ link \in [Attempt -> {"none", "up", "down"}]
  /\ toR \in [Attempt -> Seq(Packet)]
  /\ toS \in [Attempt -> Seq(Packet)]
  /\ part \in File
  /\ final \in File

-----------------------------------------------------------------------------
(* Initial state: Sender::Sender() and, when all upload slots are taken,    *)
(* the Queued state MainWindow::sendFile() gives it.                       *)

NewSender ==
  [state |-> "Idle", last |-> "Idle", attempt |-> 0, sock |-> "none",
   unsent |-> FALSE, remaining |-> Chunks, pos |-> 0, hashFrom |-> 0,
   paused |-> FALSE, cancelled |-> FALSE, pausedByReceiver |-> FALSE,
   waitingForOffsetAck |-> FALSE, finishing |-> FALSE,
   finishPending |-> FALSE, sendScheduled |-> FALSE, retryScheduled |-> FALSE,
   receiverFinishAck |-> FALSE, idleArmed |-> FALSE]

NoReceiver ==
  [state |-> "Idle", last |-> "Idle", sock |-> "none", got |-> <<>>, file |-> "null"]

\* what earlier, interrupted downloads may have left under this name
LeftOver ==
  {NoFile}
  \cup (IF "oldPart" \in Events
        THEN {[there |-> TRUE, data |-> [i \in 1 .. n |-> i]] : n \in 0 .. Chunks} ELSE {})
  \cup (IF "foreignPart" \in Events
        THEN {[there |-> TRUE, data |-> [i \in 1 .. n |-> 0]] : n \in 0 .. Chunks} ELSE {})

Init ==
  /\ snd \in {NewSender, SetState(NewSender, "Queued")}
  /\ rcv = [a \in Attempt |-> NoReceiver]
  /\ link = [a \in Attempt |-> "none"]
  /\ toR = [a \in Attempt |-> <<>>]
  /\ toS = [a \in Attempt |-> <<>>]
  /\ part \in LeftOver
  /\ final = NoFile

-----------------------------------------------------------------------------
(* Sockets *)

Connected(s) == s.sock \in {"handshake", "open"}

IdleOn == "idle" \in Events

\* Transfer::touchActivity()
Touch(s) == [s EXCEPT !.idleArmed = IdleOn]

\* what a packet written to connection a adds to the queue q
Post(q, a, p) == IF link[a] = "up" THEN [q EXCEPT ![a] = Append(@, p)] ELSE q

\* Transfer::writePacket() on the Sender's side: its own record
Wrote(s) == IF Connected(s) THEN [Touch(s) EXCEPT !.unsent = TRUE] ELSE s

\* and the queue to the Receiver
Sends(s, p) == toR' = IF Connected(s) THEN Post(toR, s.attempt, p) ELSE toR

\* disconnectFromHost() or destruction of a connected socket, on either side
Hangup(a) == link' = [link EXCEPT ![a] = "down"]

Closed(s) == [s EXCEPT !.sock = "closed", !.unsent = FALSE]
-----------------------------------------------------------------------------
(* The Sender's handlers *)

\* Sender::scheduleSendData()
ScheduleSend(s) ==
  IF s.sendScheduled \/ s.cancelled \/ s.paused \/ s.pausedByReceiver \/ s.waitingForOffsetAck
  THEN s
  ELSE [s EXCEPT !.sendScheduled = TRUE]

\* Sender::scheduleRetry(): the delay is the time until RetryTimer
ScheduleRetry(s) ==
  IF s.retryScheduled \/ s.cancelled THEN s ELSE [s EXCEPT !.retryScheduled = TRUE]

\* Sender::finish(): its packet, with the sha256 of all chunks but the first n
FinishPacket(s) == [type |-> "Finish", n |-> s.hashFrom]

\* Sender::completeUpload()
CompleteUpload(s) ==
  IF IsTerminal(s) THEN s
  ELSE SetState([s EXCEPT !.finishing = FALSE, !.finishPending = FALSE,
                          !.sendScheduled = FALSE], "Finish")

\* Sender::connectTransferSocket()
ConnectTransferSocket(s) ==
  SetState([Touch(s) EXCEPT !.sock = "connecting", !.unsent = FALSE], "Waiting")

\* Sender::sendHeader() and beginOffsetAckWait()
SendHeader(s) == [Wrote(s) EXCEPT !.waitingForOffsetAck = TRUE]

\* mutant: the prefix that is not sent is not hashed
AckWithoutPrefix(s, offset) ==
  LET acked == [s EXCEPT !.waitingForOffsetAck = FALSE]
  IN IF s.cancelled \/ IsTerminal(s) THEN acked
     ELSE ScheduleSend([acked EXCEPT !.remaining = Chunks - offset,
                                     !.pos = IF offset > 0 THEN offset ELSE @,
                                     !.hashFrom = IF offset > 0 THEN offset ELSE s.pos])

\* mutant: the file is not positioned at the acknowledged offset
AckWithoutSeek(s, offset) ==
  LET acked == [s EXCEPT !.waitingForOffsetAck = FALSE]
  IN IF s.cancelled \/ IsTerminal(s) THEN acked
     ELSE ScheduleSend([acked EXCEPT !.remaining = Chunks - offset])

\* Sender::applyOffsetAck() and hashFilePrefix(), for the offsets a Receiver can
\* send: 0 starts the hash anew and does not seek
ApplyOffsetAck(s, offset) ==
  LET acked == [s EXCEPT !.waitingForOffsetAck = FALSE]
  IN IF s.cancelled \/ IsTerminal(s) THEN acked
     ELSE ScheduleSend([acked EXCEPT !.remaining = Chunks - offset,
                                     !.pos = IF offset > 0 THEN offset ELSE @,
                                     !.hashFrom = IF offset > 0 THEN 0 ELSE s.pos])

(***************************************************************************)
(* Sender::onSocketError(), which Qt calls before onDisconnected() when    *)
(* the other end is gone.  mStartedTlsHandshake stays TRUE for as long as  *)
(* the connection lives, so with TLS every such error is a TlsError.       *)
(***************************************************************************)
OnSocketError(s) ==
  IF IsTerminal(s) \/ (s.finishing /\ s.remaining = 0) \/ ~TLS THEN s ELSE Fail(s)

\* mutant: the attempts are counted from one
RetriesOnceLess(s) ==
  LET idle == [s EXCEPT !.idleArmed = FALSE]
  IN CASE IsTerminal(s) -> s
       [] ~IsTerminal(s) /\ (s.finishing \/ s.finishPending \/ s.remaining = 0) ->
            IF s.finishing THEN CompleteUpload(s) ELSE s
       [] OTHER ->
            IF ~s.cancelled /\ ~s.paused /\ s.attempt + 1 < RetryMax
            THEN ScheduleRetry(SetState(idle, "Waiting"))
            ELSE Fail(idle)

\* mutant: the attempts are not counted
RetriesForever(s) ==
  LET idle == [s EXCEPT !.idleArmed = FALSE]
  IN CASE IsTerminal(s) -> s
       [] ~IsTerminal(s) /\ (s.finishing \/ s.finishPending \/ s.remaining = 0) ->
            IF s.finishing THEN CompleteUpload(s) ELSE s
       [] OTHER ->
            IF ~s.cancelled /\ ~s.paused THEN ScheduleRetry(SetState(idle, "Waiting")) ELSE Fail(idle)

\* mutant: an upload that is being finished is retried like any other
RetriesFinishing(s) ==
  LET idle == [s EXCEPT !.idleArmed = FALSE]
  IN IF IsTerminal(s) THEN s
     ELSE IF ~s.cancelled /\ ~s.paused /\ s.attempt < RetryMax
          THEN ScheduleRetry(SetState(idle, "Waiting"))
          ELSE Fail(idle)

\* mutant: Waiting is set, but no retry is scheduled
WaitsForever(s) ==
  LET idle == [s EXCEPT !.idleArmed = FALSE]
  IN CASE IsTerminal(s) -> s
       [] ~IsTerminal(s) /\ (s.finishing \/ s.finishPending \/ s.remaining = 0) ->
            IF s.finishing THEN CompleteUpload(s) ELSE s
       [] OTHER ->
            IF ~s.cancelled /\ ~s.paused /\ s.attempt < RetryMax
            THEN SetState(idle, "Waiting")
            ELSE Fail(idle)

\* Sender::onDisconnected()
OnDisconnected(s) ==
  LET idle == [s EXCEPT !.idleArmed = FALSE]
  IN CASE IsTerminal(s) -> s
       [] ~IsTerminal(s) /\ (s.finishing \/ s.finishPending \/ s.remaining = 0) ->
            IF s.finishing THEN CompleteUpload(s) ELSE s
       [] OTHER ->
            IF ~s.cancelled /\ ~s.paused /\ s.attempt < RetryMax
            THEN ScheduleRetry(SetState(idle, "Waiting"))
            ELSE Fail(idle)

\* Sender::retryConnect(); mPaused survives it
RetryConnect(s) ==
  ConnectTransferSocket(
    [s EXCEPT !.attempt = @ + 1, !.pausedByReceiver = FALSE, !.waitingForOffsetAck = FALSE,
              !.finishing = FALSE, !.finishPending = FALSE, !.sendScheduled = FALSE,
              !.receiverFinishAck = FALSE, !.remaining = Chunks, !.pos = 0, !.hashFrom = 0])

-----------------------------------------------------------------------------
(* The Sender's actions: connecting *)

\* Sender::start(), of a file that opens and is not empty
Start ==
  /\ snd.sock = "none" /\ snd.state \in {"Idle", "Queued"}
  /\ snd' = ConnectTransferSocket(snd)
  /\ UNCHANGED <<rcv, link, toR, toS, part, final>>

\* mutant: the header is left out when the upload has been paused meanwhile
PausedSkipsHeader ==
  /\ snd.sock = "connecting"
  /\ link' = [link EXCEPT ![snd.attempt] = "up"]
  /\ IF snd.paused
     THEN /\ snd' = [snd EXCEPT !.sock = "open"]
          /\ UNCHANGED toR
     ELSE /\ snd' = SendHeader(SetState([snd EXCEPT !.sock = "open"], "Transfering"))
          /\ toR' = [toR EXCEPT ![snd.attempt] = Append(@, Packet0("Header"))]
  /\ UNCHANGED <<rcv, toS, part, final>>

\* Sender::onConnected(); without TLS it is onEncrypted() at once, which
\* sends the header whatever has become of the transfer meanwhile
SenderConnected ==
  /\ snd.sock = "connecting"
  /\ link' = [link EXCEPT ![snd.attempt] = "up"]
  /\ IF TLS
     THEN /\ snd' = [snd EXCEPT !.sock = "handshake"]
          /\ UNCHANGED toR
     ELSE /\ snd' = SendHeader(SetState([snd EXCEPT !.sock = "open"], "Transfering"))
          /\ toR' = [toR EXCEPT ![snd.attempt] = Append(@, Packet0("Header"))]
  /\ UNCHANGED <<rcv, toS, part, final>>

\* nobody listens: onSocketError() does nothing, and no disconnected() follows
ConnectionRefused ==
  /\ "refuse" \in Events
  /\ snd.sock = "connecting"
  /\ snd' = [snd EXCEPT !.sock = "closed"]
  /\ UNCHANGED <<rcv, link, toR, toS, part, final>>

(***************************************************************************)
(* Sender::onEncrypted() after the TLS handshake, the peer's certificate   *)
(* pinned.  The socket then encrypts all that was written so far and calls *)
(* onBytesWritten(), which does nothing more unless sendData() has sent    *)
(* the whole file before its header.                                       *)
(***************************************************************************)
SenderEncrypted ==
  /\ snd.sock = "handshake"
  /\ rcv[snd.attempt].sock = "open" /\ link[snd.attempt] = "up"
  /\ LET ready == SendHeader(SetState([snd EXCEPT !.sock = "open"], "Transfering"))
     IN \/ /\ ~snd.finishPending \/ IsTerminal(ready)
           /\ snd' = ready
           /\ toR' = [toR EXCEPT ![snd.attempt] = Append(@, Packet0("Header"))]
        \/ /\ snd.finishPending /\ ~IsTerminal(ready)
           /\ snd' = CompleteUpload([ready EXCEPT !.finishPending = FALSE, !.finishing = TRUE])
           /\ toR' = [toR EXCEPT ![snd.attempt] =
                        @ \o <<Packet0("Header"), FinishPacket(snd)>>]
  /\ UNCHANGED <<rcv, link, toS, part, final>>

\* Sender::onEncrypted() when TlsHelper finds another certificate pinned
PinMismatch ==
  /\ "pinMismatch" \in Events
  /\ snd.sock = "handshake"
  /\ rcv[snd.attempt].sock = "open" /\ link[snd.attempt] = "up"
  /\ snd' = Closed(Fail(snd))
  /\ Hangup(snd.attempt)
  /\ UNCHANGED <<rcv, toR, toS, part, final>>

-----------------------------------------------------------------------------
(* The Sender's actions: packets from the Receiver *)

\* Transfer::onReadyRead() and consumeNextPacket(): one packet of this kind
SenderReads(type) ==
  /\ snd.sock = "open"
  /\ ~IsTerminal(snd)
  /\ toS[snd.attempt] # <<>>
  /\ Head(toS[snd.attempt]).type = type

ReadBySender == toS' = [toS EXCEPT ![snd.attempt] = Tail(@)]

\* Sender::processOffsetAckPacket(): a late one is ignored
SenderGetsOffsetAck ==
  /\ SenderReads("OffsetAck")
  /\ snd' = Touch(IF snd.waitingForOffsetAck
                  THEN ApplyOffsetAck([snd EXCEPT !.receiverFinishAck = TRUE],
                                      Head(toS[snd.attempt]).n)
                  ELSE snd)
  /\ ReadBySender
  /\ UNCHANGED <<rcv, link, toR, part, final>>

SenderGetsFinishAck ==
  /\ SenderReads("FinishAck")
  /\ snd' = Touch(CompleteUpload(snd))
  /\ ReadBySender
  /\ UNCHANGED <<rcv, link, toR, part, final>>

(***************************************************************************)
(* The busy branch.  disconnectFromHost() calls onDisconnected() before it *)
(* returns when all is written, and later, from the event loop, when not.  *)
(* Either way the idle timer is stopped by the one and started by the      *)
(* other.  Out of attempts, the transfer has failed before it hangs up.    *)
(***************************************************************************)
SenderGetsBusy ==
  /\ SenderReads("Busy")
  /\ LET heard == [snd EXCEPT !.waitingForOffsetAck = FALSE]
         again == ScheduleRetry(OnDisconnected(Closed(heard)))
     IN IF ~snd.waitingForOffsetAck
        THEN /\ snd' = Touch(snd)
             /\ UNCHANGED link
        ELSE /\ snd' = IF ~snd.cancelled /\ snd.attempt < RetryMax
                       THEN [again EXCEPT !.idleArmed = IdleOn /\ ~snd.unsent]
                       ELSE Touch(Closed(Fail(heard)))
             /\ Hangup(snd.attempt)
  /\ ReadBySender
  /\ UNCHANGED <<rcv, toR, part, final>>

\* Sender::processCancelPacket()
SenderGetsCancel ==
  /\ SenderReads("Cancel")
  /\ snd' = Touch(Closed(SetState(
               [snd EXCEPT !.waitingForOffsetAck = FALSE, !.sendScheduled = FALSE,
                           !.finishPending = FALSE, !.finishing = FALSE,
                           !.cancelled = TRUE], "Cancelled")))
  /\ Hangup(snd.attempt)
  /\ ReadBySender
  /\ UNCHANGED <<rcv, toR, part, final>>

\* Sender::processPausePacket()
SenderGetsPause ==
  /\ SenderReads("Pause")
  /\ snd' = Touch([snd EXCEPT !.pausedByReceiver = TRUE])
  /\ ReadBySender
  /\ UNCHANGED <<rcv, link, toR, part, final>>

\* Sender::processResumePacket(): on an open connection the header has been sent
SenderGetsResume ==
  /\ SenderReads("Resume")
  /\ snd' = Touch(ScheduleSend([snd EXCEPT !.pausedByReceiver = FALSE]))
  /\ ReadBySender
  /\ UNCHANGED <<rcv, link, toR, part, final>>
-----------------------------------------------------------------------------
(* The Sender's actions: data, timers and the end of the connection *)

MaySend ==
  /\ Connected(snd) /\ ~IsTerminal(snd) /\ snd.remaining > 0
  /\ ~snd.cancelled /\ ~snd.pausedByReceiver /\ ~snd.paused /\ ~snd.waitingForOffsetAck

(***************************************************************************)
(* Sender::sendData() on the single stream.  It asks neither for the header *)
(* nor for the end of the TLS handshake; the last chunk asks for finish(). *)
(* At the end of the file read() returns nothing: the empty Data packet    *)
(* then sent changes nothing at the Receiver and is left out of the queue. *)
(***************************************************************************)
SendData ==
  /\ snd.sendScheduled
  /\ LET woken == [snd EXCEPT !.sendScheduled = FALSE]
     IN \/ /\ ~MaySend
           /\ snd' = woken
           /\ UNCHANGED toR
        \/ /\ MaySend /\ snd.pos < Chunks
           /\ snd' = [Wrote(woken) EXCEPT !.remaining = @ - 1, !.pos = @ + 1,
                                          !.finishPending = @ \/ snd.remaining = 1]
           /\ Sends(snd, [type |-> "Data", n |-> snd.pos + 1])
        \/ /\ MaySend /\ snd.pos = Chunks
           /\ snd' = Wrote(woken)
           /\ UNCHANGED toR
  /\ UNCHANGED <<rcv, link, toS, part, final>>

\* sendData() when reading the file fails: the connection stays open
ReadError ==
  /\ "readError" \in Events
  /\ snd.sendScheduled /\ MaySend
  /\ snd' = Fail([snd EXCEPT !.sendScheduled = FALSE])
  /\ UNCHANGED <<rcv, link, toR, toS, part, final>>

\* mutant: finish() does not wait for the finish ack
FinishesAtOnce ==
  /\ snd.sock = "open" /\ snd.unsent
  /\ LET drained == [snd EXCEPT !.unsent = FALSE]
         finishing == [Wrote(drained) EXCEPT !.finishPending = FALSE, !.finishing = TRUE]
     IN \/ /\ ~snd.finishPending
           /\ snd' = ScheduleSend(drained)
           /\ UNCHANGED toR
        \/ /\ snd.finishPending /\ ~IsTerminal(snd)
           /\ snd' = CompleteUpload(finishing)
           /\ Sends(snd, FinishPacket(snd))
  /\ UNCHANGED <<rcv, link, toS, part, final>>

(***************************************************************************)
(* Sender::onBytesWritten() once all is written, and finish(): it writes   *)
(* the Finish packet and, to a Receiver that announced no finish ack, ends *)
(* the upload at once.                                                     *)
(***************************************************************************)
BytesWritten ==
  /\ snd.sock = "open" /\ snd.unsent
  /\ LET drained == [snd EXCEPT !.unsent = FALSE]
         finishing == [Wrote(drained) EXCEPT !.finishPending = FALSE, !.finishing = TRUE]
     IN \/ /\ ~snd.finishPending
           /\ snd' = ScheduleSend(drained)
           /\ UNCHANGED toR
        \/ /\ snd.finishPending /\ IsTerminal(snd)
           /\ snd' = drained
           /\ UNCHANGED toR
        \/ /\ snd.finishPending /\ ~IsTerminal(snd)
           /\ snd' = IF snd.receiverFinishAck THEN finishing ELSE CompleteUpload(finishing)
           /\ Sends(snd, FinishPacket(snd))
  /\ UNCHANGED <<rcv, link, toS, part, final>>

\* the other end or the network closed the connection; what arrived before
\* is read first
SenderDisconnected ==
  /\ Connected(snd)
  /\ link[snd.attempt] = "down"
  /\ toS[snd.attempt] = <<>> \/ IsTerminal(snd)
  /\ snd' = OnDisconnected(OnSocketError(Closed(snd)))
  /\ UNCHANGED <<rcv, link, toR, toS, part, final>>

\* Sender::onOffsetAckTimeout(): take the Receiver for a legacy one
OffsetAckTimeout ==
  /\ "ackTimeout" \in Events
  /\ snd.waitingForOffsetAck /\ ~IsTerminal(snd)
  /\ snd' = ApplyOffsetAck(snd, 0)
  /\ UNCHANGED <<rcv, link, toR, toS, part, final>>

\* what connection a carried has been read or is lost
Drained(a) == toR[a] = <<>> \/ rcv[a].sock = "closed" \/ IsTerminal(rcv[a])

\* mutant: retryConnect() does not look at what has become of the upload
RetriesCancelled ==
  /\ snd.retryScheduled
  /\ Drained(snd.attempt)
  /\ snd' = RetryConnect([snd EXCEPT !.retryScheduled = FALSE])
  /\ Hangup(snd.attempt)
  /\ UNCHANGED <<rcv, toR, toS, part, final>>

(***************************************************************************)
(* The singleShot of scheduleRetry(): Cancelled and Finish stop it, Failed *)
(* does not.  The delay (TransferRetryBaseMs or more) is long enough for   *)
(* the old connection's packets to arrive or get lost; its Receiver may    *)
(* well be there still.                                                    *)
(***************************************************************************)
RetryTimer ==
  /\ snd.retryScheduled
  /\ Drained(snd.attempt)
  /\ LET woken == [snd EXCEPT !.retryScheduled = FALSE]
     IN IF snd.cancelled \/ snd.state \in {"Cancelled", "Finish"}
        THEN /\ snd' = woken
             /\ UNCHANGED link
        ELSE /\ snd' = RetryConnect(woken)
             /\ Hangup(snd.attempt)
  /\ UNCHANGED <<rcv, toR, toS, part, final>>

\* Transfer::onIdleTimeout() and failTransfer(); what has arrived is read first
\* and starts the timer anew
SenderIdleTimeout ==
  /\ snd.idleArmed
  /\ snd.sock = "open" /\ ~IsTerminal(snd) => toS[snd.attempt] = <<>>
  /\ LET fired == [snd EXCEPT !.idleArmed = FALSE]
     IN IF ~IsTerminal(snd) /\ Connected(snd)
        THEN /\ snd' = Closed(Fail(fired))
             /\ Hangup(snd.attempt)
        ELSE /\ snd' = IF IsTerminal(snd) THEN fired ELSE Fail(fired)
             /\ UNCHANGED link
  /\ UNCHANGED <<rcv, toR, toS, part, final>>

-----------------------------------------------------------------------------
(* The uploading user *)

\* Sender::pause(): the peer is not told
SenderPause ==
  /\ "senderPause" \in Events
  /\ CanPause(snd)
  /\ snd' = [SetState(snd, "Paused") EXCEPT !.paused = TRUE]
  /\ UNCHANGED <<rcv, link, toR, toS, part, final>>

\* Sender::resume()
SenderResume ==
  /\ "senderPause" \in Events
  /\ CanResume(snd)
  /\ snd' = ScheduleSend([SetState(snd, snd.last) EXCEPT !.paused = FALSE])
  /\ UNCHANGED <<rcv, link, toR, toS, part, final>>

\* Sender::cancel(): it leaves the connection to the peer to close
SenderCancel ==
  /\ "senderCancel" \in Events
  /\ CanCancel(snd)
  /\ snd' = SetState([Wrote(snd) EXCEPT !.waitingForOffsetAck = FALSE, !.cancelled = TRUE],
                     "Cancelled")
  /\ Sends(snd, Packet0("Cancel"))
  /\ UNCHANGED <<rcv, link, toS, part, final>>

SenderNext ==
  \/ Start \/ SenderConnected \/ ConnectionRefused \/ SenderEncrypted \/ PinMismatch
  \/ SenderGetsOffsetAck \/ SenderGetsFinishAck \/ SenderGetsBusy \/ SenderGetsCancel
  \/ SenderGetsPause \/ SenderGetsResume
  \/ SendData \/ ReadError \/ BytesWritten \/ SenderDisconnected
  \/ OffsetAckTimeout \/ RetryTimer \/ SenderIdleTimeout
  \/ SenderPause \/ SenderResume \/ SenderCancel
-----------------------------------------------------------------------------
(* Files of the download folder.  A handle stays with its file when the     *)
(* entry is renamed, and writes to no entry once the entry is removed.      *)

\* the handles once the entries in gone have been removed
Unlinked(r, gone) == IF r.file \in gone THEN [r EXCEPT !.file = "unlinked"] ELSE r

\* the handles after QFile::rename(part, final)
Renamed(r) ==
  CASE r.file = "part"  -> [r EXCEPT !.file = "final"]
    [] r.file = "final" -> [r EXCEPT !.file = "unlinked"]
    [] OTHER            -> r

\* chunk c written at position i; what is skipped reads as another file's data
Written(f, i, c) ==
  [f EXCEPT !.data =
     [j \in 1 .. (IF i > Len(f.data) THEN i ELSE Len(f.data)) |->
        IF j = i THEN c ELSE IF j <= Len(f.data) THEN f.data[j] ELSE 0]]

\* the entry a download is written to
Target == IF ResumePartial THEN "part" ELSE "final"

\* mutant: the final name is removed with the .part
RemoveBoth(a, r) ==
  LET opened == rcv[a].file # "null"
  IN /\ part' = IF opened THEN NoFile ELSE part
     /\ final' = IF opened THEN NoFile ELSE final
     /\ rcv' = [b \in Attempt |->
                  LET next == IF b = a THEN r ELSE rcv[b]
                  IN IF opened THEN Unlinked(next, {"part", "final"}) ELSE next]

(***************************************************************************)
(* removePartFile() and mFile->remove() of a Receiver whose next record is *)
(* r: nothing before its header was accepted.                              *)
(***************************************************************************)
RemoveDownload(a, r) ==
  LET opened == rcv[a].file # "null"
  IN /\ part' = IF opened THEN NoFile ELSE part
     /\ final' = IF opened /\ ~ResumePartial THEN NoFile ELSE final
     /\ rcv' = [b \in Attempt |->
                  LET next == IF b = a THEN r ELSE rcv[b]
                  IN IF opened THEN Unlinked(next, {"part", Target}) ELSE next]

-----------------------------------------------------------------------------
(* The Receiver's actions *)

\* TransferServer::onNewConnection() and startReceiver(), Receiver::Receiver()
Accept(a) ==
  /\ link[a] # "none" /\ rcv[a].sock = "none"
  /\ rcv' = [rcv EXCEPT ![a] = SetState([@ EXCEPT !.sock = "open"], "Waiting")]
  /\ UNCHANGED <<snd, link, toR, toS, part, final>>

\* TransferServer::rejectBusy(): plaintext, so a Sender in its TLS handshake
\* gets no packet out of it
RejectBusy(a) ==
  /\ "busy" \in Events
  /\ link[a] # "none" /\ rcv[a].sock = "none"
  /\ rcv' = [rcv EXCEPT ![a].sock = "closed"]
  /\ toS' = IF TLS THEN toS ELSE Post(toS, a, Packet0("Busy"))
  /\ Hangup(a)
  /\ UNCHANGED <<snd, toR, part, final>>

\* onReadyRead() and consumeNextPacket(): one packet of this kind
ReceiverReads(a, type) ==
  /\ rcv[a].sock = "open"
  /\ ~IsTerminal(rcv[a])
  /\ ~(a = snd.attempt /\ snd.sock = "handshake")
  /\ toR[a] # <<>>
  /\ Head(toR[a]).type = type

ReadByReceiver(a) == toR' = [toR EXCEPT ![a] = Tail(@)]

Offline(r) == [r EXCEPT !.sock = "closed"]

\* a .part that the header's size proves useless is removed
Oversize == ResumePartial /\ part.there /\ Len(part.data) >= Chunks

Resumable == ResumePartial /\ part.there /\ Len(part.data) \in 1 .. Chunks - 1

(***************************************************************************)
(* Receiver::processHeaderPacket(), the header accepted.  The journal can  *)
(* hold no other fingerprint for this transfer id: size and path are the   *)
(* same in each attempt.                                                   *)
(***************************************************************************)
ReceiverGetsHeader(a) ==
  LET kept == IF Resumable THEN part.data ELSE <<>>
      opened == SetState([rcv[a] EXCEPT !.got = kept, !.file = Target], "Transfering")
  IN /\ ReceiverReads(a, "Header")
     /\ part' = IF ResumePartial THEN [there |-> TRUE, data |-> kept] ELSE part
     /\ final' = IF ResumePartial THEN final ELSE [there |-> TRUE, data |-> <<>>]
     /\ rcv' = [b \in Attempt |->
                  CASE b = a -> opened
                    [] b # a /\ Oversize -> Unlinked(rcv[b], {"part"})
                    [] OTHER -> rcv[b]]
     /\ ReadByReceiver(a)
     /\ toS' = Post(toS, a, [type |-> "OffsetAck", n |-> Len(kept)])
     /\ UNCHANGED <<snd, link>>

\* its rejections: token, checksum policy, folder, free space, open(); the
\* later ones come after an oversize .part has been removed
RejectHeader(a) ==
  /\ "reject" \in Events
  /\ ReceiverReads(a, "Header")
  /\ \E tidied \in {FALSE, Oversize} :
       /\ part' = IF tidied THEN NoFile ELSE part
       /\ rcv' = [b \in Attempt |->
                    CASE b = a -> Offline(Fail(rcv[a]))
                      [] b # a /\ tidied -> Unlinked(rcv[b], {"part"})
                      [] OTHER -> rcv[b]]
  /\ ReadByReceiver(a)
  /\ toS' = Post(toS, a, Packet0("Cancel"))
  /\ Hangup(a)
  /\ UNCHANGED <<snd, final>>

\* Receiver::processDataPacket(): in any state that is not terminal
ReceiverGetsData(a) ==
  /\ ReceiverReads(a, "Data")
  /\ LET chunk == Head(toR[a]).n
         next == Len(rcv[a].got) + 1
     IN IF rcv[a].file = "null" \/ next > Chunks
        THEN UNCHANGED <<rcv, part, final>>
        ELSE /\ rcv' = [rcv EXCEPT ![a].got = Append(@, chunk)]
             /\ part' = IF rcv[a].file = "part" THEN Written(part, next, chunk) ELSE part
             /\ final' = IF rcv[a].file = "final" THEN Written(final, next, chunk) ELSE final
  /\ ReadByReceiver(a)
  /\ UNCHANGED <<snd, link, toS>>

\* Receiver::failDownloadWrite()
WriteError(a) ==
  /\ "writeError" \in Events
  /\ ReceiverReads(a, "Data")
  /\ rcv[a].file # "null" /\ Len(rcv[a].got) < Chunks
  /\ RemoveDownload(a, Offline(Fail(rcv[a])))
  /\ ReadByReceiver(a)
  /\ toS' = Post(toS, a, Packet0("Cancel"))
  /\ Hangup(a)
  /\ UNCHANGED snd

\* mutant: what is verified is the size
SizeMismatch(a) == Verify /\ Len(rcv[a].got) # Chunks

\* the sha256 in the Finish packet is not that of what has been received
Mismatch(a) ==
  Verify /\ rcv[a].got # SubSeq(Source, Head(toR[a]).n + 1, Chunks)

\* Receiver::processFinishPacket() when the SHA-256 differs
ChecksumFailed(a) ==
  /\ ReceiverReads(a, "Finish")
  /\ Mismatch(a)
  /\ RemoveDownload(a, Offline(Fail(rcv[a])))
  /\ ReadByReceiver(a)
  /\ toS' = Post(toS, a, Packet0("Cancel"))
  /\ Hangup(a)
  /\ UNCHANGED snd

\* what setState(Finish), refused to a paused download, and the
\* onDisconnected() that disconnectFromHost() calls make of a Receiver
Finalized(r) == Offline(Fail(SetState(r, "Finish")))

\* Receiver::finalizeDownload()
FinalizeDownload(a) ==
  /\ ReceiverReads(a, "Finish")
  /\ ~Mismatch(a)
  /\ IF ResumePartial
     THEN /\ part.there
          /\ final' = part
          /\ part' = NoFile
          /\ rcv' = [b \in Attempt |-> Renamed(IF b = a THEN Finalized(rcv[a]) ELSE rcv[b])]
     ELSE /\ rcv' = [rcv EXCEPT ![a] = Finalized(@)]
          /\ UNCHANGED <<part, final>>
  /\ ReadByReceiver(a)
  /\ toS' = Post(toS, a, Packet0("FinishAck"))
  /\ Hangup(a)
  /\ UNCHANGED snd

\* finalizeDownload() when somebody else removed the .part: rename() fails
\* after it has removed the old final file
FinalizeFails(a) ==
  /\ ReceiverReads(a, "Finish")
  /\ ~Mismatch(a)
  /\ ResumePartial /\ ~part.there
  /\ final' = NoFile
  /\ rcv' = [b \in Attempt |->
               Unlinked(IF b = a THEN Offline(Fail(rcv[a])) ELSE rcv[b], {"final"})]
  /\ ReadByReceiver(a)
  /\ Hangup(a)
  /\ UNCHANGED <<snd, toS, part>>

\* Receiver::processCancelPacket()
ReceiverGetsCancel(a) ==
  /\ ReceiverReads(a, "Cancel")
  /\ RemoveDownload(a, Offline(SetState(rcv[a], "Cancelled")))
  /\ ReadByReceiver(a)
  /\ Hangup(a)
  /\ UNCHANGED <<snd, toS>>

\* mutant: an interrupted download removes its file
RemovesInterrupted(a) ==
  /\ rcv[a].sock = "open"
  /\ link[a] = "down"
  /\ toR[a] = <<>> \/ IsTerminal(rcv[a])
  /\ IF IsTerminal(rcv[a])
     THEN /\ rcv' = [rcv EXCEPT ![a] = Offline(@)]
          /\ UNCHANGED <<part, final>>
     ELSE RemoveDownload(a, Offline(Fail(rcv[a])))
  /\ UNCHANGED <<snd, link, toR, toS>>

\* Receiver::onDisconnected(): the .part stays for the next attempt
ReceiverDisconnected(a) ==
  /\ rcv[a].sock = "open"
  /\ link[a] = "down"
  /\ toR[a] = <<>> \/ IsTerminal(rcv[a])
  /\ rcv' = [rcv EXCEPT ![a] = IF IsTerminal(@) THEN Offline(@) ELSE Offline(Fail(@))]
  /\ UNCHANGED <<snd, link, toR, toS, part, final>>

\* onIdleTimeout(): its timer runs from the constructor on
ReceiverIdleTimeout(a) ==
  /\ IdleOn
  /\ rcv[a].sock = "open" /\ ~IsTerminal(rcv[a])
  /\ toR[a] = <<>>
  /\ rcv' = [rcv EXCEPT ![a] = Offline(Fail(@))]
  /\ Hangup(a)
  /\ UNCHANGED <<snd, toR, toS, part, final>>

-----------------------------------------------------------------------------
(* The downloading user: the row appears when the file is opened *)

\* Receiver::pause()
ReceiverPause(a) ==
  /\ "receiverPause" \in Events
  /\ rcv[a].file # "null" /\ CanPause(rcv[a])
  /\ Len(toS[a]) < MaxQueue
  /\ rcv' = [rcv EXCEPT ![a] = SetState(@, "Paused")]
  /\ toS' = IF rcv[a].sock = "open" THEN Post(toS, a, Packet0("Pause")) ELSE toS
  /\ UNCHANGED <<snd, link, toR, part, final>>

\* Receiver::resume()
ReceiverResume(a) ==
  /\ "receiverPause" \in Events
  /\ CanResume(rcv[a])
  /\ Len(toS[a]) < MaxQueue
  /\ rcv' = [rcv EXCEPT ![a] = SetState(@, @.last)]
  /\ toS' = IF rcv[a].sock = "open" THEN Post(toS, a, Packet0("Resume")) ELSE toS
  /\ UNCHANGED <<snd, link, toR, part, final>>

\* Receiver::cancel(): it leaves the connection to the Sender to close
ReceiverCancel(a) ==
  /\ "receiverCancel" \in Events
  /\ rcv[a].file # "null" /\ CanCancel(rcv[a])
  /\ RemoveDownload(a, SetState(rcv[a], "Cancelled"))
  /\ toS' = IF rcv[a].sock = "open" THEN Post(toS, a, Packet0("Cancel")) ELSE toS
  /\ UNCHANGED <<snd, link, toR>>

ReceiverNext(a) ==
  \/ Accept(a) \/ RejectBusy(a) \/ ReceiverGetsHeader(a) \/ RejectHeader(a)
  \/ ReceiverGetsData(a) \/ WriteError(a)
  \/ ChecksumFailed(a) \/ FinalizeDownload(a) \/ FinalizeFails(a)
  \/ ReceiverGetsCancel(a) \/ ReceiverDisconnected(a) \/ ReceiverIdleTimeout(a)
  \/ ReceiverPause(a) \/ ReceiverResume(a) \/ ReceiverCancel(a)

-----------------------------------------------------------------------------
(* The network *)

\* a connection goes down, losing the ends of both queues; one that has been
\* closed may lose them too (the reset a close with unread data causes)
Break(a) ==
  /\ "break" \in Events
  /\ link[a] # "none"
  /\ Hangup(a)
  /\ \E i \in 0 .. Len(toR[a]), j \in 0 .. Len(toS[a]) :
       /\ toR' = [toR EXCEPT ![a] = SubSeq(@, 1, i)]
       /\ toS' = [toS EXCEPT ![a] = SubSeq(@, 1, j)]
  /\ UNCHANGED <<snd, rcv, part, final>>

-----------------------------------------------------------------------------
Next == SenderNext \/ \E a \in Attempt : ReceiverNext(a) \/ Break(a)

Spec == Init /\ [][Next]_vars

(***************************************************************************)
(* Fairness: the event loops of both peers run, timers fire, sockets tell  *)
(* what arrived and what ended.  Users, disks and the network owe nothing. *)
(***************************************************************************)
SenderReadsNext ==
  \/ SenderGetsOffsetAck \/ SenderGetsFinishAck \/ SenderGetsBusy
  \/ SenderGetsCancel \/ SenderGetsPause \/ SenderGetsResume

ReceiverReadsNext(a) ==
  \/ ReceiverGetsHeader(a) \/ RejectHeader(a) \/ ReceiverGetsData(a) \/ WriteError(a)
  \/ ChecksumFailed(a) \/ FinalizeDownload(a) \/ FinalizeFails(a) \/ ReceiverGetsCancel(a)

Fairness ==
  /\ WF_vars(Start) /\ WF_vars(SenderConnected \/ ConnectionRefused)
  /\ WF_vars(SenderEncrypted \/ PinMismatch) /\ WF_vars(SenderReadsNext)
  /\ WF_vars(SendData \/ ReadError) /\ WF_vars(BytesWritten)
  /\ WF_vars(SenderDisconnected) /\ WF_vars(OffsetAckTimeout)
  /\ WF_vars(RetryTimer) /\ WF_vars(SenderIdleTimeout)
  /\ \A a \in Attempt :
       /\ WF_vars(Accept(a) \/ RejectBusy(a)) /\ WF_vars(ReceiverReadsNext(a))
       /\ WF_vars(ReceiverDisconnected(a)) /\ WF_vars(ReceiverIdleTimeout(a))

FairSpec == Spec /\ Fairness

-----------------------------------------------------------------------------
(* Safety *)

(***************************************************************************)
(* The sha256 that finish() will send is that of the whole file, although  *)
(* each offset, each retry and each timeout starts mHash anew.             *)
(***************************************************************************)
DigestIsWhole == snd.finishPending => snd.hashFrom = 0 /\ snd.pos = Chunks

(***************************************************************************)
(* A file that carries its final name holds the sender's file, whole and   *)
(* in order, although it was put together by several Receivers from what   *)
(* several connections delivered.  processHeaderPacket() trusts the size   *)
(* of the .part; finalizeDownload() does not look at what it renames.      *)
(***************************************************************************)
FileIntegrity == final.there => final.data = Source

(***************************************************************************)
(* No Data or Finish packet is handled before a header has opened mFile:   *)
(* processFinishPacket() would use a null pointer.                         *)
(***************************************************************************)
HeaderComesFirst ==
  \A a \in Attempt :
    ReceiverReads(a, "Data") \/ ReceiverReads(a, "Finish") => rcv[a].file # "null"

(***************************************************************************)
(* A download shown as finished is in the folder and is the sender's file. *)
(* The Receivers of lost connections and of their retries share one .part: *)
(* the user may pause or cancel the row of a stale one, which removes the  *)
(* entry, and each of them renames it (receiver.cpp:110, 260), but none    *)
(* takes back what another has finished.  Partial downloads are resumed:   *)
(* without, a file has its final name from the start, and there a stale    *)
(* row's cancel does remove what the current Receiver finishes.            *)
(***************************************************************************)
FinishedDownloadIsWhole ==
  \A a \in Attempt :
    rcv[a].state = "Finish" => final.there /\ final.data = Source

(***************************************************************************)
(* Data in flight continues exactly where the Receiver's file position is: *)
(* offset negotiation, retries and pauses never leave a gap or a repeat.   *)
(***************************************************************************)
StreamAligned ==
  \A a \in Attempt :
    rcv[a].file # "null" /\ ~IsTerminal(rcv[a]) =>
      \A i \in 1 .. Len(toR[a]) :
        toR[a][i].type = "Data" => toR[a][i].n = Len(rcv[a].got) + i

-----------------------------------------------------------------------------
(* What a step may never do *)

\* a delivered file is not touched again, by stale Receivers, late cancels
\* or a second finalizeDownload()
DeliveredFileIsStable == [][final.there => final' = final]_vars

\* a connection lost with attempts left does not fail the upload: it is retried
LossIsRetried ==
  [][/\ Connected(snd) /\ snd'.sock = "closed" /\ link[snd.attempt] = "down"
     /\ ~IsTerminal(snd) /\ snd.remaining > 0
     /\ ~snd.paused /\ snd.attempt < RetryMax
     => snd'.state # "Failed"]_vars

\* a cancelled upload sends nothing of the file and does not reconnect, not
\* even when its retry or its next sendData() was already scheduled
CancelIsFinal ==
  [][snd.state = "Cancelled" =>
       /\ snd'.state = "Cancelled" /\ snd'.attempt = snd.attempt
       /\ snd'.remaining = snd.remaining]_vars

\* a delivered upload is not sent again
DeliveredOnce == [][final.there => snd'.attempt = snd.attempt]_vars

(***************************************************************************)
(* Interruptions do not cost what was received: an incomplete .part only   *)
(* grows, through breaks, pauses, busy answers and retries, unless a       *)
(* cancel, a delivery, a full disk or a wrong digest ends it.              *)
(***************************************************************************)
InterruptionsKeepBytes ==
  [][part.there /\ Len(part.data) < Chunks =>
       \/ part'.there /\ Len(part'.data) >= Len(part.data)
       \/ \E a \in Attempt : \/ WriteError(a) \/ ChecksumFailed(a)
                             \/ /\ rcv'[a].state \in {"Cancelled", "Finish"}
                                /\ rcv[a].state # rcv'[a].state]_vars

-----------------------------------------------------------------------------
(* Liveness *)

\* every transfer ends, on both sides
EveryTransferEnds ==
  /\ <>[]IsTerminal(snd)
  /\ \A a \in Attempt : rcv[a].state = "Waiting" ~> IsTerminal(rcv[a])

-----------------------------------------------------------------------------
(* The promise to the users *)

Delivery ==
  INSTANCE FileDelivery WITH
    outcome <- CASE snd.state = "Finish" -> "finished"
                 [] snd.state = "Failed" -> "failed"
                 [] snd.state = "Cancelled" -> "cancelled"
                 [] OTHER -> "running",
    file <- CASE ~final.there -> "absent"
              [] final.there /\ final.data = Source -> "whole"
              [] OTHER -> "damaged"

ImplementsDelivery == Delivery!Spec
=============================================================================
