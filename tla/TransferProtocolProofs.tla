----------------------- MODULE TransferProtocolProofs -----------------------
(***************************************************************************)
(* What the handlers of TransferProtocol make of the records they are      *)
(* given, the theorem that every state of the protocol has its type, and   *)
(* the integrity of the delivered file: both for every number of chunks    *)
(* and of retries and every set of interruptions, the latter when every    *)
(* transfer is verified by its checksum (Verify) and partial files are     *)
(* resumed.                                                                *)
(*                                                                         *)
(* TypeInv is the first inductive invariant, IntegrityInv the second.      *)
(* ConnectionInv says which connections are in use; HandleInv that only    *)
(* the newest connection holds the open partial file; HashInv what the     *)
(* Sender's digest covers.                                                 *)
(***************************************************************************)
EXTENDS TransferProtocol, SequenceTheorems, TLAPS

-----------------------------------------------------------------------------
(* The Sender's handlers *)

\* where s is in the file and in the protocol
SameStream(s, t) ==
  /\ t.attempt = s.attempt
  /\ t.remaining = s.remaining /\ t.pos = s.pos /\ t.hashFrom = s.hashFrom
  /\ t.waitingForOffsetAck = s.waitingForOffsetAck
  /\ t.finishPending = s.finishPending
  /\ t.cancelled = s.cancelled

\* neither the uploading user's pauses nor a late OffsetAck interfere
Undisturbed == {"senderPause", "ackTimeout"} \cap Events = {}

\* sendData() is then scheduled on an open connection only
Pumped(s, t) ==
  Undisturbed /\ s.sock # "open" => (t.sendScheduled => s.sendScheduled)

\* a handler that leaves that and the connection alone, and what has ended as it is
Steady(s, t) ==
  /\ t \in Sender
  /\ SameStream(s, t)
  /\ t.sock = s.sock
  /\ t.retryScheduled = s.retryScheduled
  /\ Pumped(s, t)
  /\ IsTerminal(s) => IsTerminal(t)
  /\ s.state \in {"Cancelled", "Finish", "Failed"} => t.state = s.state

LEMMA SteadyIsTransitive ==
  ASSUME NEW s \in Sender, NEW t, NEW u, Steady(s, t), Steady(t, u)
  PROVE  Steady(s, u)
  BY DEF Steady, SameStream, Pumped

LEMMA NextStateType ==
  ASSUME NEW x, x.state \in TransferState, x.last \in TransferState,
         NEW new \in TransferState
  PROVE  NextState(x, new) \in TransferState
  BY DEF NextState

\* setState() reports no terminal state as anything else
LEMMA TerminalStays ==
  ASSUME NEW x, x.state \in Terminal, NEW new
  PROVE  NextState(x, new) = x.state
  BY DEF NextState, Accepted, Terminal, TransferState

LEMMA SetStateSender ==
  ASSUME NEW s \in Sender, NEW new \in TransferState
  PROVE  Steady(s, SetState(s, new)) /\ SetState(s, new).sendScheduled = s.sendScheduled
<1>1. s.state \in TransferState /\ s.last \in TransferState
  BY DEF Sender
<1>2. NextState(s, new) \in TransferState
  BY <1>1, NextStateType
<1>3. CASE new = s.state
  BY <1>3 DEF SetState, Steady, SameStream, Pumped
<1>4. CASE new # s.state
  <2> DEFINE t == [s EXCEPT !.state = NextState(s, new), !.last = s.state]
  <2>1. SetState(s, new) = t
    BY <1>4 DEF SetState
  <2>2. t \in Sender /\ t.state = NextState(s, new)
    BY <1>1, <1>2 DEF Sender
  <2>3. /\ IsTerminal(s) => IsTerminal(t)
        /\ s.state \in {"Cancelled", "Finish", "Failed"} => t.state = s.state
    BY <2>2, TerminalStays DEF IsTerminal, Terminal
  <2>4. SameStream(s, t) /\ t.sock = s.sock /\ t.retryScheduled = s.retryScheduled
        /\ t.sendScheduled = s.sendScheduled
    BY DEF Sender, SameStream
  <2> QED
    BY <2>1, <2>2, <2>3, <2>4 DEF Steady, Pumped
<1> QED
  BY <1>3, <1>4

LEMMA FailSender ==
  ASSUME NEW s \in Sender
  PROVE  Steady(s, Fail(s)) /\ IsTerminal(Fail(s))
  BY DEF Fail, Sender, TransferState, IsTerminal, Terminal, Steady, SameStream, Pumped

LEMMA TouchSender ==
  ASSUME NEW s \in Sender
  PROVE  /\ Steady(s, Touch(s)) /\ Touch(s).state = s.state
         /\ Touch(s).sendScheduled = s.sendScheduled
<1>1. IdleOn \in BOOLEAN
  BY DEF IdleOn
<1> QED
  BY <1>1 DEF Touch, Sender, Steady, SameStream, Pumped, IsTerminal

LEMMA WroteSender ==
  ASSUME NEW s \in Sender
  PROVE  /\ Steady(s, Wrote(s)) /\ Wrote(s).state = s.state
         /\ Wrote(s).sendScheduled = s.sendScheduled
<1>1. /\ Steady(s, Touch(s)) /\ Touch(s).state = s.state
      /\ Touch(s).sendScheduled = s.sendScheduled
  BY TouchSender
<1>2. ASSUME NEW t \in Sender
      PROVE  LET u == [t EXCEPT !.unsent = TRUE]
             IN Steady(t, u) /\ u.state = t.state /\ u.sendScheduled = t.sendScheduled
  BY DEF Sender, Steady, SameStream, Pumped, IsTerminal
<1>3. CASE Connected(s)
  <2>1. Wrote(s) = [Touch(s) EXCEPT !.unsent = TRUE] /\ Touch(s) \in Sender
    BY <1>1, <1>3 DEF Wrote, Steady
  <2> QED
    BY <1>1, <1>2, <2>1, SteadyIsTransitive
<1>4. CASE ~Connected(s)
  BY <1>4 DEF Wrote, Steady, SameStream, Pumped
<1> QED
  BY <1>3, <1>4

LEMMA ScheduleSendSender ==
  ASSUME NEW s \in Sender
  PROVE  LET t == ScheduleSend(s)
         IN /\ t \in Sender /\ SameStream(s, t)
            /\ t.sock = s.sock /\ t.state = s.state
            /\ t.retryScheduled = s.retryScheduled
            /\ s.sock = "open" \/ ~Undisturbed => Steady(s, t)
<1>1. LET t == [s EXCEPT !.sendScheduled = TRUE]
      IN /\ t \in Sender /\ SameStream(s, t)
         /\ t.sock = s.sock /\ t.state = s.state
         /\ t.retryScheduled = s.retryScheduled
         /\ s.sock = "open" \/ ~Undisturbed => Steady(s, t)
  BY DEF Sender, Steady, SameStream, Pumped, IsTerminal
<1>2. SameStream(s, s) /\ Steady(s, s)
  BY DEF Steady, SameStream, Pumped
<1> QED
  BY <1>1, <1>2 DEF ScheduleSend

LEMMA ClosedSender ==
  ASSUME NEW s \in Sender
  PROVE  /\ Closed(s) \in Sender /\ SameStream(s, Closed(s))
         /\ Closed(s).sock = "closed"
         /\ Closed(s).retryScheduled = s.retryScheduled
         /\ Closed(s).state = s.state
  BY DEF Closed, Sender, SameStream

LEMMA ScheduleRetrySender ==
  ASSUME NEW s \in Sender
  PROVE  LET t == ScheduleRetry(s)
         IN /\ t \in Sender /\ SameStream(s, t)
            /\ t.sock = s.sock /\ t.state = s.state
<1>1. LET t == [s EXCEPT !.retryScheduled = TRUE]
      IN t \in Sender /\ SameStream(s, t) /\ t.sock = s.sock /\ t.state = s.state
  BY DEF Sender, SameStream
<1> QED
  BY <1>1 DEF ScheduleRetry, SameStream

LEMMA CompleteUploadSender ==
  ASSUME NEW s \in Sender
  PROVE  LET t == CompleteUpload(s)
         IN /\ t \in Sender
            /\ t.attempt = s.attempt /\ t.sock = s.sock
            /\ t.remaining = s.remaining /\ t.pos = s.pos /\ t.hashFrom = s.hashFrom
            /\ t.waitingForOffsetAck = s.waitingForOffsetAck
            /\ t.cancelled = s.cancelled
            /\ t.finishPending => s.finishPending
            /\ t.retryScheduled = s.retryScheduled
            /\ IsTerminal(s) => t = s
<1> DEFINE u == [s EXCEPT !.finishing = FALSE, !.finishPending = FALSE,
                          !.sendScheduled = FALSE]
<1>1. /\ u \in Sender
      /\ u.attempt = s.attempt /\ u.sock = s.sock
      /\ u.remaining = s.remaining /\ u.pos = s.pos /\ u.hashFrom = s.hashFrom
      /\ u.waitingForOffsetAck = s.waitingForOffsetAck
      /\ u.cancelled = s.cancelled
      /\ u.finishPending = FALSE
      /\ u.retryScheduled = s.retryScheduled
  BY DEF Sender
<1>2. Steady(u, SetState(u, "Finish"))
  <2>1. "Finish" \in TransferState
    BY DEF TransferState
  <2> QED
    BY <1>1, <2>1, SetStateSender
<1>3. CASE IsTerminal(s)
  BY <1>3 DEF CompleteUpload
<1>4. CASE ~IsTerminal(s)
  <2>1. CompleteUpload(s) = SetState(u, "Finish")
    BY <1>4 DEF CompleteUpload
  <2> HIDE DEF u
  <2> QED
    BY <1>1, <1>2, <1>4, <2>1 DEF Steady, SameStream
<1> QED
  BY <1>3, <1>4

LEMMA ConnectTransferSocketSender ==
  ASSUME NEW s \in Sender
  PROVE  LET t == ConnectTransferSocket(s)
         IN t \in Sender /\ SameStream(s, t) /\ t.sock = "connecting"
            /\ t.retryScheduled = s.retryScheduled
            /\ t.sendScheduled = s.sendScheduled
            /\ (s.state \in {"Cancelled", "Finish", "Failed"} => t.state = s.state)
<1> DEFINE u == [Touch(s) EXCEPT !.sock = "connecting", !.unsent = FALSE]
<1>1. /\ Steady(s, Touch(s)) /\ Touch(s).sendScheduled = s.sendScheduled
      /\ Touch(s).state = s.state
  BY TouchSender
<1>2. u \in Sender /\ SameStream(s, u) /\ u.sock = "connecting"
      /\ u.retryScheduled = s.retryScheduled
      /\ u.sendScheduled = s.sendScheduled /\ u.state = s.state
  <2>1. ASSUME NEW t \in Sender
        PROVE  LET v == [t EXCEPT !.sock = "connecting", !.unsent = FALSE]
               IN v \in Sender /\ SameStream(t, v) /\ v.sock = "connecting"
                  /\ v.retryScheduled = t.retryScheduled
                  /\ v.sendScheduled = t.sendScheduled /\ v.state = t.state
    BY DEF Sender, SameStream
  <2> QED
    BY <1>1, <2>1 DEF Steady, SameStream
<1>3. Steady(u, SetState(u, "Waiting")) /\ SetState(u, "Waiting").sendScheduled = u.sendScheduled
  <2>1. "Waiting" \in TransferState
    BY DEF TransferState
  <2> QED
    BY <1>2, <2>1, SetStateSender
<1>4. ConnectTransferSocket(s) = SetState(u, "Waiting")
  BY DEF ConnectTransferSocket
<1> HIDE DEF u
<1> QED
  BY <1>2, <1>3, <1>4 DEF Steady, SameStream

LEMMA RetryConnectSender ==
  ASSUME NEW s \in Sender, s.attempt < RetryMax
  PROVE  LET t == RetryConnect(s)
         IN /\ t \in Sender
            /\ t.attempt = s.attempt + 1 /\ t.sock = "connecting"
            /\ t.remaining = Chunks /\ t.pos = 0 /\ t.hashFrom = 0
            /\ ~t.waitingForOffsetAck /\ ~t.finishPending /\ ~t.sendScheduled
            /\ t.cancelled = s.cancelled
            /\ t.retryScheduled = s.retryScheduled
            /\ s.state \in {"Cancelled", "Finish", "Failed"} => t.state = s.state
<1> DEFINE u ==
    [s EXCEPT !.attempt = @ + 1, !.pausedByReceiver = FALSE, !.waitingForOffsetAck = FALSE,
              !.finishing = FALSE, !.finishPending = FALSE, !.sendScheduled = FALSE,
              !.receiverFinishAck = FALSE, !.remaining = Chunks, !.pos = 0, !.hashFrom = 0]
<1>0. s.attempt + 1 \in Attempt /\ Chunks \in 0 .. Chunks /\ 0 \in 0 .. Chunks
  BY ChunksAssumption, RetryAssumption DEF Sender, Attempt
<1>1. /\ u \in Sender
      /\ u.attempt = s.attempt + 1 /\ u.remaining = Chunks /\ u.pos = 0 /\ u.hashFrom = 0
      /\ u.waitingForOffsetAck = FALSE /\ u.finishPending = FALSE
      /\ u.sendScheduled = FALSE
      /\ u.cancelled = s.cancelled
      /\ u.retryScheduled = s.retryScheduled /\ u.state = s.state
  BY <1>0 DEF Sender
<1>2. RetryConnect(s) = ConnectTransferSocket(u)
  BY DEF RetryConnect
<1> HIDE DEF u
<1> QED
  BY <1>1, <1>2, ConnectTransferSocketSender DEF SameStream

LEMMA SendHeaderSender ==
  ASSUME NEW s \in Sender
  PROVE  LET t == SendHeader(s)
         IN /\ t \in Sender
            /\ t.attempt = s.attempt /\ t.sock = s.sock
            /\ t.remaining = s.remaining /\ t.pos = s.pos /\ t.hashFrom = s.hashFrom
            /\ t.waitingForOffsetAck = TRUE
            /\ t.finishPending = s.finishPending /\ t.cancelled = s.cancelled
            /\ t.retryScheduled = s.retryScheduled
            /\ t.state = s.state
<1>1. Steady(s, Wrote(s)) /\ Wrote(s).state = s.state
  BY WroteSender
<1>2. ASSUME NEW t \in Sender
      PROVE  LET u == [t EXCEPT !.waitingForOffsetAck = TRUE]
             IN /\ u \in Sender
                /\ u.attempt = t.attempt /\ u.sock = t.sock
                /\ u.remaining = t.remaining /\ u.pos = t.pos /\ u.hashFrom = t.hashFrom
                /\ u.waitingForOffsetAck = TRUE
                /\ u.finishPending = t.finishPending /\ u.cancelled = t.cancelled
                /\ u.retryScheduled = t.retryScheduled /\ u.state = t.state
  BY DEF Sender
<1> QED
  BY <1>1, <1>2 DEF SendHeader, Steady, SameStream

LEMMA ApplyOffsetAckSender ==
  ASSUME NEW s \in Sender, NEW offset \in Chunk
  PROVE  LET t == ApplyOffsetAck(s, offset)
         IN /\ t \in Sender
            /\ t.attempt = s.attempt /\ t.sock = s.sock
            /\ t.waitingForOffsetAck = FALSE
            /\ t.finishPending = s.finishPending /\ t.cancelled = s.cancelled
            /\ t.retryScheduled = s.retryScheduled
            /\ t.remaining = IF s.cancelled \/ IsTerminal(s) THEN s.remaining
                             ELSE Chunks - offset
            /\ t.pos = IF s.cancelled \/ IsTerminal(s) \/ offset = 0 THEN s.pos ELSE offset
            /\ t.hashFrom = IF s.cancelled \/ IsTerminal(s) THEN s.hashFrom
                            ELSE IF offset = 0 THEN s.pos ELSE 0
            /\ t.state = s.state
<1> DEFINE u == [s EXCEPT !.waitingForOffsetAck = FALSE]
           v == [u EXCEPT !.remaining = Chunks - offset,
                          !.pos = IF offset > 0 THEN offset ELSE @,
                          !.hashFrom = IF offset > 0 THEN 0 ELSE s.pos]
<1>1. /\ u \in Sender
      /\ u.attempt = s.attempt /\ u.sock = s.sock
      /\ u.remaining = s.remaining /\ u.pos = s.pos /\ u.hashFrom = s.hashFrom
      /\ u.waitingForOffsetAck = FALSE
      /\ u.finishPending = s.finishPending /\ u.cancelled = s.cancelled
      /\ u.retryScheduled = s.retryScheduled /\ u.state = s.state
  BY DEF Sender
<1>2. Chunks - offset \in 0 .. Chunks /\ offset \in 0 .. Chunks
  BY ChunksAssumption DEF Chunk
<1>3. /\ v \in Sender
      /\ v.attempt = s.attempt /\ v.sock = s.sock
      /\ v.remaining = Chunks - offset
      /\ v.pos = IF offset = 0 THEN s.pos ELSE offset
      /\ v.hashFrom = IF offset = 0 THEN s.pos ELSE 0
      /\ v.waitingForOffsetAck = FALSE
      /\ v.finishPending = s.finishPending /\ v.cancelled = s.cancelled
      /\ v.retryScheduled = s.retryScheduled /\ v.state = s.state
  <2>1. offset > 0 <=> offset # 0
    BY <1>2, ChunksAssumption
  <2> HIDE DEF u
  <2>2. (IF offset > 0 THEN offset ELSE u.pos) \in 0 .. Chunks
        /\ (IF offset > 0 THEN 0 ELSE s.pos) \in 0 .. Chunks
    BY <1>1, <1>2, ChunksAssumption DEF Sender
  <2> QED
    BY <1>1, <1>2, <2>1, <2>2 DEF Sender
<1>4. ApplyOffsetAck(s, offset) =
        IF s.cancelled \/ IsTerminal(s) THEN u ELSE ScheduleSend(v)
  BY DEF ApplyOffsetAck
<1> HIDE DEF u, v
<1>5. LET t == ScheduleSend(v)
      IN /\ t \in Sender /\ SameStream(v, t)
         /\ t.sock = v.sock /\ t.state = v.state
         /\ t.retryScheduled = v.retryScheduled
  BY <1>3, ScheduleSendSender
<1>6. CASE s.cancelled \/ IsTerminal(s)
  BY <1>1, <1>4, <1>6 DEF IsTerminal
<1>7. CASE ~(s.cancelled \/ IsTerminal(s))
  BY <1>3, <1>4, <1>5, <1>7 DEF SameStream
<1> QED
  BY <1>6, <1>7

LEMMA OnSocketErrorSender ==
  ASSUME NEW s \in Sender
  PROVE  Steady(s, OnSocketError(s))
  BY FailSender DEF OnSocketError, Steady, SameStream, Pumped

LEMMA OnDisconnectedSender ==
  ASSUME NEW s \in Sender
  PROVE  LET t == OnDisconnected(s)
         IN /\ t \in Sender
            /\ t.attempt = s.attempt /\ t.sock = s.sock
            /\ t.cancelled = s.cancelled
            /\ t.retryScheduled => s.retryScheduled \/ s.attempt < RetryMax
            /\ IsTerminal(s) => t = s
<1> DEFINE idle == [s EXCEPT !.idleArmed = FALSE]
           waiting == SetState(idle, "Waiting")
<1>1. /\ idle \in Sender /\ SameStream(s, idle) /\ idle.sock = s.sock
      /\ idle.retryScheduled = s.retryScheduled
  BY DEF Sender, SameStream
<1>2. Steady(idle, waiting)
  <2>1. "Waiting" \in TransferState
    BY DEF TransferState
  <2> HIDE DEF idle
  <2> QED
    BY <1>1, <2>1, SetStateSender
<1>3. /\ ScheduleRetry(waiting) \in Sender /\ SameStream(waiting, ScheduleRetry(waiting))
      /\ ScheduleRetry(waiting).sock = waiting.sock
  <2> HIDE DEF waiting
  <2> QED
    BY <1>2, ScheduleRetrySender DEF Steady
<1>4. Steady(idle, Fail(idle))
  <2> HIDE DEF idle
  <2> QED
    BY <1>1, FailSender
<1>5. CASE IsTerminal(s)
  BY <1>5 DEF OnDisconnected
<1>6. CASE ~IsTerminal(s) /\ (s.finishing \/ s.finishPending \/ s.remaining = 0)
  <2>1. OnDisconnected(s) = IF s.finishing THEN CompleteUpload(s) ELSE s
    BY <1>6 DEF OnDisconnected
  <2> QED
    BY <1>6, <2>1, CompleteUploadSender
<1>7. CASE ~IsTerminal(s) /\ ~(s.finishing \/ s.finishPending \/ s.remaining = 0)
  <2>1. OnDisconnected(s) = IF ~s.cancelled /\ ~s.paused /\ s.attempt < RetryMax
                            THEN ScheduleRetry(waiting) ELSE Fail(idle)
    BY <1>7 DEF OnDisconnected
  <2> HIDE DEF idle, waiting
  <2> QED
    BY <1>1, <1>2, <1>3, <1>4, <1>7, <2>1 DEF Steady, SameStream
<1> QED
  BY <1>5, <1>6, <1>7

-----------------------------------------------------------------------------
(* The Receiver's handlers *)

\* a handler that keeps what has been received and the file it goes to
SameDownload(r, q) ==
  /\ q \in Receiver
  /\ q.got = r.got /\ q.file = r.file
  /\ IsTerminal(r) => IsTerminal(q)

LEMMA SetStateReceiver ==
  ASSUME NEW r \in Receiver, NEW new \in TransferState
  PROVE  SameDownload(r, SetState(r, new)) /\ SetState(r, new).sock = r.sock
<1>1. r.state \in TransferState /\ r.last \in TransferState
  BY DEF Receiver
<1>2. NextState(r, new) \in TransferState
  BY <1>1, NextStateType
<1>3. CASE new = r.state
  BY <1>3 DEF SetState, SameDownload
<1>4. CASE new # r.state
  <2> DEFINE q == [r EXCEPT !.state = NextState(r, new), !.last = r.state]
  <2>1. SetState(r, new) = q
    BY <1>4 DEF SetState
  <2>2. q \in Receiver /\ q.state = NextState(r, new)
    BY <1>1, <1>2 DEF Receiver
  <2>3. q.got = r.got /\ q.file = r.file /\ q.sock = r.sock
    BY DEF Receiver
  <2>4. IsTerminal(r) => IsTerminal(q)
    BY <2>2, TerminalStays DEF IsTerminal
  <2> QED
    BY <2>1, <2>2, <2>3, <2>4 DEF SameDownload
<1> QED
  BY <1>3, <1>4

LEMMA FailReceiver ==
  ASSUME NEW r \in Receiver
  PROVE  SameDownload(r, Fail(r)) /\ Fail(r).sock = r.sock /\ IsTerminal(Fail(r))
  BY DEF Fail, Receiver, TransferState, IsTerminal, Terminal, SameDownload

LEMMA OfflineReceiver ==
  ASSUME NEW r \in Receiver
  PROVE  SameDownload(r, Offline(r)) /\ Offline(r).sock = "closed"
         /\ Offline(r).state = r.state
  BY DEF Offline, Receiver, SameDownload, IsTerminal

LEMMA FailedReceiver ==
  ASSUME NEW r \in Receiver
  PROVE  LET q == Offline(Fail(r))
         IN SameDownload(r, q) /\ q.sock = "closed" /\ IsTerminal(q)
<1>1. SameDownload(r, Fail(r)) /\ IsTerminal(Fail(r))
  BY FailReceiver
<1>2. SameDownload(Fail(r), Offline(Fail(r))) /\ Offline(Fail(r)).sock = "closed"
  BY <1>1, OfflineReceiver DEF SameDownload
<1> QED
  BY <1>1, <1>2 DEF SameDownload

LEMMA FinalizedReceiver ==
  ASSUME NEW r \in Receiver
  PROVE  LET q == Finalized(r)
         IN SameDownload(r, q) /\ q.sock = "closed" /\ IsTerminal(q)
<1>1. "Finish" \in TransferState
  BY DEF TransferState
<1>2. SameDownload(r, SetState(r, "Finish"))
  BY <1>1, SetStateReceiver
<1> QED
  BY <1>2, FailedReceiver DEF Finalized, SameDownload

\* a directory entry that goes away changes nothing but the handle
LEMMA UnlinkedReceiver ==
  ASSUME NEW r \in Receiver, NEW gone
  PROVE  LET q == Unlinked(r, gone)
         IN /\ q \in Receiver
            /\ q.got = r.got /\ q.state = r.state /\ q.sock = r.sock
            /\ q.file = IF r.file \in gone THEN "unlinked" ELSE r.file
<1>1. LET q == [r EXCEPT !.file = "unlinked"]
      IN /\ q \in Receiver /\ q.file = "unlinked"
         /\ q.got = r.got /\ q.state = r.state /\ q.sock = r.sock
  BY DEF Receiver
<1> QED
  BY <1>1 DEF Unlinked

LEMMA RenamedReceiver ==
  ASSUME NEW r \in Receiver
  PROVE  LET q == Renamed(r)
         IN /\ q \in Receiver
            /\ q.got = r.got /\ q.state = r.state /\ q.sock = r.sock
            /\ q.file = CASE r.file = "part" -> "final"
                          [] r.file = "final" -> "unlinked"
                          [] OTHER -> r.file
<1>1. ASSUME NEW f \in {"final", "unlinked"}
      PROVE  LET q == [r EXCEPT !.file = f]
             IN /\ q \in Receiver /\ q.file = f
                /\ q.got = r.got /\ q.state = r.state /\ q.sock = r.sock
  BY DEF Receiver
<1> QED
  BY <1>1 DEF Renamed

LEMMA WrittenFile ==
  ASSUME NEW f \in File, NEW i \in Nat \ {0}, NEW c \in Chunk
  PROVE  Written(f, i, c) \in File
<1> DEFINE n == IF i > Len(f.data) THEN i ELSE Len(f.data)
           d == [j \in 1 .. n |->
                   IF j = i THEN c ELSE IF j <= Len(f.data) THEN f.data[j] ELSE 0]
<1>1. f.data \in Seq(Chunk) /\ Len(f.data) \in Nat
  BY DEF File, Content
<1>2. n \in Nat /\ 0 \in Chunk
  BY <1>1, ChunksAssumption DEF Chunk
<1>3. d \in [1 .. n -> Chunk]
  BY <1>1, <1>2
<1>4. d \in Seq(Chunk)
  <2> HIDE DEF d, n
  <2> QED
    BY <1>2, <1>3, SeqDef
<1>5. Written(f, i, c) = [f EXCEPT !.data = d]
  BY DEF Written
<1> HIDE DEF d
<1> QED
  BY <1>4, <1>5 DEF File, Content

-----------------------------------------------------------------------------
(* The Sender's actions, by what they do to the connection *)

\* a retry is only ever scheduled with an attempt left
RetryLeft == snd.retryScheduled => snd.attempt < RetryMax

TypeInv == TypeOK /\ RetryLeft

\* the Sender works on the connection it has, or gives it up
KeepsConnection ==
  /\ snd' \in Sender /\ RetryLeft'
  /\ snd'.attempt = snd.attempt
  /\ snd'.sock \in {snd.sock, "closed"}
  /\ snd'.sock = snd.sock => Pumped(snd, snd')
  /\ IsTerminal(snd) => IsTerminal(snd')
  /\ snd.state \in {"Cancelled", "Finish", "Failed"} => snd'.state = snd.state
  /\ \/ link' = link
     \/ snd'.sock = "closed" /\ link' = [link EXCEPT ![snd.attempt] = "down"]
  /\ \/ toS' = toS
     \/ toS[snd.attempt] # <<>> /\ toS' = [toS EXCEPT ![snd.attempt] = Tail(@)]
  /\ UNCHANGED <<rcv, part, final>>

\* it writes nothing and stays where it is in the file
Listens ==
  /\ KeepsConnection
  /\ toR' = toR
  /\ snd'.sock = snd.sock =>
       /\ snd'.remaining = snd.remaining /\ snd'.pos = snd.pos
       /\ snd'.hashFrom = snd.hashFrom
       /\ snd'.waitingForOffsetAck = snd.waitingForOffsetAck
       /\ snd'.finishPending => snd.finishPending
       /\ snd'.cancelled = snd.cancelled
       /\ snd'.retryScheduled => snd.retryScheduled

\* it learns the offset, or gives up waiting for it
Learns(offset) ==
  /\ KeepsConnection
  /\ toR' = toR
  /\ snd.waitingForOffsetAck /\ ~snd'.waitingForOffsetAck
  /\ snd'.sock = snd.sock
  /\ snd'.finishPending = snd.finishPending /\ snd'.cancelled = snd.cancelled
  /\ snd'.retryScheduled = snd.retryScheduled
  /\ snd'.remaining = IF snd.cancelled \/ IsTerminal(snd) THEN snd.remaining
                      ELSE Chunks - offset
  /\ snd'.pos = IF snd.cancelled \/ IsTerminal(snd) \/ offset = 0 THEN snd.pos ELSE offset
  /\ snd'.hashFrom = IF snd.cancelled \/ IsTerminal(snd) THEN snd.hashFrom
                     ELSE IF offset = 0 THEN snd.pos ELSE 0

\* it writes the packet p
Writes(p) == toR' = IF Connected(snd) THEN Post(toR, snd.attempt, p) ELSE toR

SendsChunk ==
  /\ KeepsConnection /\ MaySend
  /\ snd'.sock = snd.sock /\ snd'.cancelled = snd.cancelled
  /\ snd'.retryScheduled = snd.retryScheduled
  /\ ~snd'.waitingForOffsetAck
  /\ snd.sendScheduled /\ ~snd'.sendScheduled
  /\ snd.pos < Chunks
  /\ snd'.remaining = snd.remaining - 1 /\ snd'.pos = snd.pos + 1
  /\ snd'.hashFrom = snd.hashFrom
  /\ snd'.finishPending => snd.finishPending \/ snd.remaining = 1
  /\ Writes([type |-> "Data", n |-> snd.pos + 1])

SendsFinish ==
  /\ KeepsConnection
  /\ snd.sock = "open" /\ snd.finishPending /\ ~IsTerminal(snd)
  /\ snd'.sock = snd.sock /\ snd'.cancelled = snd.cancelled
  /\ snd'.retryScheduled = snd.retryScheduled
  /\ snd'.remaining = snd.remaining /\ snd'.pos = snd.pos
  /\ snd'.hashFrom = snd.hashFrom
  /\ snd'.waitingForOffsetAck = snd.waitingForOffsetAck
  /\ ~snd'.finishPending
  /\ Writes(FinishPacket(snd))

SendsCancel ==
  /\ KeepsConnection
  /\ snd'.sock = snd.sock
  /\ snd'.retryScheduled = snd.retryScheduled
  /\ snd'.remaining = snd.remaining /\ snd'.pos = snd.pos
  /\ snd'.hashFrom = snd.hashFrom
  /\ ~snd'.waitingForOffsetAck
  /\ snd'.finishPending = snd.finishPending
  /\ IsTerminal(snd')
  /\ Writes(Packet0("Cancel"))

Reconnects ==
  /\ snd' \in Sender
  /\ snd.retryScheduled /\ snd.attempt < RetryMax /\ Drained(snd.attempt)
  /\ ~snd.cancelled /\ snd.state \notin {"Cancelled", "Finish"}
  /\ snd.state = "Failed" => snd'.state = "Failed"
  /\ snd'.attempt = snd.attempt + 1 /\ snd'.sock = "connecting"
  /\ snd'.remaining = Chunks /\ snd'.pos = 0 /\ snd'.hashFrom = 0
  /\ ~snd'.waitingForOffsetAck /\ ~snd'.finishPending /\ ~snd'.sendScheduled
  /\ snd'.cancelled = snd.cancelled /\ ~snd'.retryScheduled
  /\ link' = [link EXCEPT ![snd.attempt] = "down"]
  /\ UNCHANGED <<rcv, toR, toS, part, final>>

\* where the Sender's members that are no part of the above are concerned
LEMMA SameStreamListens ==
  ASSUME TypeInv, snd' \in Sender, snd'.attempt = snd.attempt, RetryLeft',
         IsTerminal(snd) => IsTerminal(snd'),
         snd.state \in {"Cancelled", "Finish", "Failed"} => snd'.state = snd.state,
         \/ snd'.sock = "closed" /\ snd.sock # "closed"
         \/ /\ SameStream(snd, snd') /\ snd'.sock = snd.sock /\ Pumped(snd, snd')
            /\ snd'.retryScheduled => snd.retryScheduled,
         \/ link' = link
         \/ snd'.sock = "closed" /\ link' = [link EXCEPT ![snd.attempt] = "down"],
         \/ toS' = toS
         \/ toS[snd.attempt] # <<>> /\ toS' = [toS EXCEPT ![snd.attempt] = Tail(@)],
         UNCHANGED <<rcv, part, final, toR>>
  PROVE  Listens
  BY DEF Listens, KeepsConnection, SameStream

LEMMA SteadyListens ==
  ASSUME TypeInv, Steady(snd, snd'),
         link' = link,
         \/ toS' = toS
         \/ toS[snd.attempt] # <<>> /\ toS' = [toS EXCEPT ![snd.attempt] = Tail(@)],
         UNCHANGED <<rcv, part, final, toR>>
  PROVE  Listens
<1>1. RetryLeft'
  BY DEF Steady, SameStream, TypeInv, RetryLeft
<1> QED
  BY <1>1, SameStreamListens DEF Steady, SameStream

LEMMA QuietSender ==
  ASSUME TypeInv,
         \/ ConnectionRefused \/ PinMismatch
         \/ SenderGetsFinishAck \/ SenderGetsBusy \/ SenderGetsCancel
         \/ SenderGetsPause \/ SenderGetsResume
         \/ ReadError \/ SenderDisconnected \/ SenderIdleTimeout
         \/ SenderPause \/ SenderResume
  PROVE  Listens
<1>0. snd \in Sender /\ RetryLeft
  BY DEF TypeInv, TypeOK
<1>1. CASE ConnectionRefused
  <2>1. LET t == [snd EXCEPT !.sock = "closed"]
        IN t \in Sender /\ t.attempt = snd.attempt /\ t.state = snd.state
           /\ t.sock = "closed" /\ t.retryScheduled = snd.retryScheduled
    BY <1>0 DEF Sender
  <2>2. snd' = [snd EXCEPT !.sock = "closed"] /\ snd.sock = "connecting"
    BY <1>1 DEF ConnectionRefused
  <2>3. snd' \in Sender /\ snd'.attempt = snd.attempt /\ snd'.state = snd.state
        /\ snd'.sock = "closed" /\ snd'.retryScheduled = snd.retryScheduled
    BY <2>1, <2>2
  <2> QED
    BY <1>0, <1>1, <2>2, <2>3, SameStreamListens
       DEF ConnectionRefused, IsTerminal, RetryLeft
<1>2. CASE PinMismatch
  <2>1. Steady(snd, Fail(snd))
    BY <1>0, FailSender
  <2>2. /\ snd' \in Sender /\ SameStream(Fail(snd), snd') /\ snd'.sock = "closed"
        /\ snd'.retryScheduled = Fail(snd).retryScheduled /\ snd'.state = Fail(snd).state
    BY <1>2, <2>1, ClosedSender DEF PinMismatch, Steady
  <2> QED
    BY <1>0, <1>2, <2>1, <2>2, SameStreamListens
       DEF PinMismatch, Hangup, Steady, SameStream, IsTerminal, RetryLeft
<1>3. CASE SenderGetsFinishAck
  <2>1. LET t == CompleteUpload(snd)
        IN /\ t \in Sender
           /\ t.attempt = snd.attempt /\ t.sock = snd.sock
           /\ t.remaining = snd.remaining /\ t.pos = snd.pos /\ t.hashFrom = snd.hashFrom
           /\ t.waitingForOffsetAck = snd.waitingForOffsetAck
           /\ t.cancelled = snd.cancelled
           /\ t.finishPending => snd.finishPending
           /\ t.retryScheduled = snd.retryScheduled
    BY <1>0, CompleteUploadSender
  <2>2. /\ Steady(CompleteUpload(snd), snd') /\ snd.sock = "open"
        /\ snd.state \notin Terminal
    BY <1>3, <2>1, TouchSender DEF SenderGetsFinishAck, SenderReads, IsTerminal
  <2> QED
    BY <1>0, <1>3, <2>1, <2>2
       DEF SenderGetsFinishAck, SenderReads, ReadBySender, Listens, KeepsConnection,
           Steady, SameStream, Pumped, RetryLeft, IsTerminal, Terminal
<1>4. CASE SenderGetsBusy
  <2> DEFINE heard == [snd EXCEPT !.waitingForOffsetAck = FALSE]
             gone == OnDisconnected(Closed(heard))
             again == ScheduleRetry(gone)
  <2>1. snd.sock = "open" /\ ~IsTerminal(snd)
    BY <1>4 DEF SenderGetsBusy, SenderReads
  <2>2. CASE ~snd.waitingForOffsetAck
    BY <1>0, <1>4, <2>2, TouchSender, SteadyListens
       DEF SenderGetsBusy, SenderReads, ReadBySender
  <2>3. heard \in Sender /\ heard.attempt = snd.attempt
        /\ heard.retryScheduled = snd.retryScheduled
    BY <1>0 DEF Sender
  <2>4. Closed(heard) \in Sender /\ Closed(heard).attempt = snd.attempt
        /\ Closed(heard).sock = "closed"
        /\ Closed(heard).retryScheduled = snd.retryScheduled
    <3> HIDE DEF heard
    <3> QED
      BY <2>3, ClosedSender DEF SameStream
  <2>5. again \in Sender /\ again.attempt = snd.attempt /\ again.sock = "closed"
    <3>1. gone \in Sender /\ gone.attempt = snd.attempt /\ gone.sock = "closed"
      <4> HIDE DEF heard
      <4> QED
        BY <2>4, OnDisconnectedSender
    <3> HIDE DEF gone
    <3> QED
      BY <3>1, ScheduleRetrySender DEF SameStream
  <2>6. CASE snd.waitingForOffsetAck /\ ~snd.cancelled /\ snd.attempt < RetryMax
    <3>1. snd' = [again EXCEPT !.idleArmed = IdleOn /\ ~snd.unsent]
      BY <1>4, <2>6 DEF SenderGetsBusy
    <3>2. IdleOn \in BOOLEAN /\ snd.unsent \in BOOLEAN
      BY <1>0 DEF IdleOn, Sender
    <3> HIDE DEF again
    <3>3. snd' \in Sender /\ snd'.attempt = snd.attempt /\ snd'.sock = "closed"
      <4>1. (IdleOn /\ ~snd.unsent) \in BOOLEAN
        BY <3>2
      <4> QED
        BY <2>5, <3>1, <4>1 DEF Sender
    <3> QED
      BY <1>4, <2>1, <2>6, <3>3, SameStreamListens
         DEF SenderGetsBusy, SenderReads, ReadBySender, Hangup, RetryLeft, IsTerminal, Terminal
  <2>7. CASE snd.waitingForOffsetAck /\ ~(~snd.cancelled /\ snd.attempt < RetryMax)
    <3>1. snd' = Touch(Closed(Fail(heard)))
      BY <1>4, <2>7 DEF SenderGetsBusy
    <3> HIDE DEF heard
    <3>2. Steady(heard, Fail(heard))
      BY <2>3, FailSender
    <3>3. Closed(Fail(heard)) \in Sender /\ SameStream(Fail(heard), Closed(Fail(heard)))
          /\ Closed(Fail(heard)).sock = "closed"
          /\ Closed(Fail(heard)).retryScheduled = Fail(heard).retryScheduled
      BY <3>2, ClosedSender DEF Steady
    <3>4. Steady(Closed(Fail(heard)), snd')
      BY <3>1, <3>3, TouchSender
    <3>5. snd' \in Sender /\ snd'.attempt = snd.attempt /\ snd'.sock = "closed"
          /\ snd'.retryScheduled = snd.retryScheduled
      BY <2>3, <3>2, <3>3, <3>4 DEF Steady, SameStream
    <3> QED
      BY <1>0, <1>4, <2>1, <2>7, <3>5, SameStreamListens
         DEF SenderGetsBusy, SenderReads, ReadBySender, Hangup, RetryLeft, IsTerminal, Terminal
  <2> QED
    BY <2>2, <2>6, <2>7
<1>5. CASE SenderGetsCancel
  <2> DEFINE t == [snd EXCEPT !.waitingForOffsetAck = FALSE, !.sendScheduled = FALSE,
                              !.finishPending = FALSE, !.finishing = FALSE,
                              !.cancelled = TRUE]
             u == SetState(t, "Cancelled")
  <2>1. t \in Sender /\ t.attempt = snd.attempt /\ t.retryScheduled = snd.retryScheduled
    BY <1>0 DEF Sender
  <2>2. Steady(t, u)
    <3>1. "Cancelled" \in TransferState
      BY DEF TransferState
    <3> HIDE DEF t
    <3> QED
      BY <2>1, <3>1, SetStateSender
  <2>3. snd' = Touch(Closed(u)) /\ snd.sock = "open" /\ ~IsTerminal(snd)
    BY <1>5 DEF SenderGetsCancel, SenderReads
  <2> HIDE DEF t, u
  <2>4. Closed(u) \in Sender /\ Closed(u).attempt = snd.attempt
        /\ Closed(u).sock = "closed" /\ Closed(u).retryScheduled = snd.retryScheduled
    BY <2>1, <2>2, ClosedSender DEF Steady, SameStream
  <2>5. snd' \in Sender /\ snd'.attempt = snd.attempt /\ snd'.sock = "closed"
        /\ snd'.retryScheduled = snd.retryScheduled
    BY <2>3, <2>4, TouchSender DEF Steady, SameStream
  <2> QED
    BY <1>0, <1>5, <2>3, <2>5, SameStreamListens
       DEF SenderGetsCancel, SenderReads, ReadBySender, Hangup, RetryLeft, IsTerminal, Terminal
<1>6. CASE SenderGetsPause
  <2>1. Steady(snd, [snd EXCEPT !.pausedByReceiver = TRUE])
    BY <1>0 DEF Sender, Steady, SameStream, Pumped, IsTerminal
  <2>2. Steady(snd, snd')
    BY <1>0, <1>6, <2>1, TouchSender, SteadyIsTransitive DEF SenderGetsPause, Steady
  <2> QED
    BY <1>6, <2>2, SteadyListens DEF SenderGetsPause, SenderReads, ReadBySender
<1>7. CASE SenderGetsResume
  <2> DEFINE t == [snd EXCEPT !.pausedByReceiver = FALSE]
  <2>1. Steady(snd, t)
    BY <1>0 DEF Sender, Steady, SameStream, Pumped, IsTerminal
  <2>2. snd' = Touch(ScheduleSend(t)) /\ snd.sock = "open"
    BY <1>7 DEF SenderGetsResume, SenderReads
  <2> HIDE DEF t
  <2>3. Steady(t, ScheduleSend(t))
    BY <2>1, <2>2, ScheduleSendSender DEF Steady
  <2>4. Steady(ScheduleSend(t), snd')
    BY <2>2, <2>3, TouchSender DEF Steady
  <2>5. Steady(snd, snd')
    BY <1>0, <2>1, <2>3, <2>4, SteadyIsTransitive DEF Steady
  <2> QED
    BY <1>7, <2>5, SteadyListens DEF SenderGetsResume, SenderReads, ReadBySender
<1>8. CASE ReadError
  <2>1. Steady(snd, [snd EXCEPT !.sendScheduled = FALSE])
    BY <1>0 DEF Sender, Steady, SameStream, Pumped, IsTerminal
  <2>2. Steady(snd, snd')
    BY <1>0, <1>8, <2>1, FailSender, SteadyIsTransitive DEF ReadError, Steady
  <2> QED
    BY <1>8, <2>2, SteadyListens DEF ReadError
<1>9. CASE SenderDisconnected
  <2>1. Closed(snd) \in Sender /\ SameStream(snd, Closed(snd))
        /\ Closed(snd).sock = "closed"
        /\ Closed(snd).retryScheduled = snd.retryScheduled
        /\ Closed(snd).state = snd.state
    BY <1>0, ClosedSender
  <2>2. Steady(Closed(snd), OnSocketError(Closed(snd)))
    BY <2>1, OnSocketErrorSender
  <2> DEFINE t == OnSocketError(Closed(snd))
  <2>3. t \in Sender /\ t.attempt = snd.attempt /\ t.sock = "closed"
        /\ t.retryScheduled = snd.retryScheduled
        /\ (IsTerminal(snd) => IsTerminal(t))
        /\ (snd.state \in {"Cancelled", "Finish", "Failed"} => t.state = snd.state)
    BY <2>1, <2>2 DEF Steady, SameStream, IsTerminal
  <2> HIDE DEF t
  <2>4. snd' = OnDisconnected(t) /\ Connected(snd)
    BY <1>9 DEF SenderDisconnected, t
  <2>5. snd' \in Sender /\ snd'.attempt = snd.attempt /\ snd'.sock = "closed"
        /\ (snd'.retryScheduled => snd.retryScheduled \/ snd.attempt < RetryMax)
        /\ (IsTerminal(snd) => IsTerminal(snd'))
        /\ (snd.state \in {"Cancelled", "Finish", "Failed"} => snd'.state = snd.state)
    BY <2>3, <2>4, OnDisconnectedSender DEF IsTerminal, Terminal
  <2> QED
    BY <1>0, <1>9, <2>4, <2>5, SameStreamListens
       DEF SenderDisconnected, Connected, RetryLeft
<1>10. CASE SenderIdleTimeout
  <2> DEFINE fired == [snd EXCEPT !.idleArmed = FALSE]
  <2>1. Steady(snd, fired)
    BY <1>0 DEF Sender, Steady, SameStream, Pumped, IsTerminal
  <2>2. Steady(snd, Fail(fired))
    <3> HIDE DEF fired
    <3> QED
      BY <1>0, <2>1, FailSender, SteadyIsTransitive DEF Steady
  <2>3. CASE ~IsTerminal(snd) /\ Connected(snd)
    <3>1. snd' = Closed(Fail(fired))
      BY <1>10, <2>3 DEF SenderIdleTimeout
    <3> HIDE DEF fired
    <3>2. /\ snd' \in Sender /\ SameStream(Fail(fired), snd') /\ snd'.sock = "closed"
          /\ snd'.retryScheduled = Fail(fired).retryScheduled
      BY <2>2, <3>1, ClosedSender DEF Steady
    <3> QED
      BY <1>0, <1>10, <2>2, <2>3, <3>2, SameStreamListens
         DEF SenderIdleTimeout, Hangup, Connected, Steady, SameStream, RetryLeft, IsTerminal,
             Terminal
  <2>4. CASE ~(~IsTerminal(snd) /\ Connected(snd))
    <3>1. snd' = IF IsTerminal(snd) THEN fired ELSE Fail(fired)
      BY <1>10, <2>4 DEF SenderIdleTimeout
    <3>2. Steady(snd, snd')
      BY <2>1, <2>2, <3>1
    <3> QED
      BY <1>10, <2>4, <3>2, SteadyListens DEF SenderIdleTimeout
  <2> QED
    BY <2>3, <2>4
<1>11. CASE SenderPause
  <2> DEFINE t == SetState(snd, "Paused")
  <2>1. Steady(snd, t)
    <3>1. "Paused" \in TransferState
      BY DEF TransferState
    <3> QED
      BY <1>0, <3>1, SetStateSender
  <2>2. snd' = [t EXCEPT !.paused = TRUE]
    BY <1>11 DEF SenderPause
  <2> HIDE DEF t
  <2>3. Steady(t, snd')
    BY <2>1, <2>2 DEF Sender, Steady, SameStream, Pumped, IsTerminal
  <2>4. Steady(snd, snd')
    BY <1>0, <2>1, <2>3, SteadyIsTransitive
  <2> QED
    BY <1>11, <2>4, SteadyListens DEF SenderPause
<1>12. CASE SenderResume
  <2> DEFINE t == SetState(snd, snd.last)
             u == [t EXCEPT !.paused = FALSE]
  <2>1. Steady(snd, t)
    <3>1. snd.last \in TransferState
      BY <1>0 DEF Sender
    <3> QED
      BY <1>0, <3>1, SetStateSender
  <2>2. snd' = ScheduleSend(u) /\ ~Undisturbed
    BY <1>12 DEF SenderResume, Undisturbed
  <2>3. Steady(t, u)
    <3> HIDE DEF t
    <3> QED
      BY <2>1 DEF Sender, Steady, SameStream, Pumped, IsTerminal
  <2> HIDE DEF u, t
  <2>4. Steady(u, snd')
    BY <2>2, <2>3, ScheduleSendSender DEF Steady
  <2>5. Steady(snd, snd')
    BY <1>0, <2>1, <2>3, <2>4, SteadyIsTransitive DEF Steady
  <2> QED
    BY <1>12, <2>5, SteadyListens DEF SenderResume
<1> QED
  BY <1>1, <1>2, <1>3, <1>4, <1>5, <1>6, <1>7, <1>8, <1>9, <1>10, <1>11, <1>12

LEMMA OffsetSender ==
  ASSUME TypeInv, SenderGetsOffsetAck
  PROVE  /\ SenderReads("OffsetAck")
         /\ toS' = [toS EXCEPT ![snd.attempt] = Tail(@)]
         /\ Listens \/ Learns(Head(toS[snd.attempt]).n)
<1> DEFINE offset == Head(toS[snd.attempt]).n
           t == [snd EXCEPT !.receiverFinishAck = TRUE]
           u == ApplyOffsetAck(t, offset)
<1>0. snd \in Sender /\ RetryLeft /\ snd.attempt \in Attempt
  BY DEF TypeInv, TypeOK, Sender
<1>1. /\ SenderReads("OffsetAck") /\ toS[snd.attempt] # <<>>
      /\ toS' = [toS EXCEPT ![snd.attempt] = Tail(@)]
  BY DEF SenderGetsOffsetAck, SenderReads, ReadBySender
<1>2. offset \in Chunk
  <2>1. toS[snd.attempt] \in Seq(Packet)
    BY <1>0 DEF TypeInv, TypeOK
  <2>2. Head(toS[snd.attempt]) \in Packet
    BY <1>1, <2>1
  <2> QED
    BY <2>2 DEF Packet
<1>3. CASE ~snd.waitingForOffsetAck
  BY <1>0, <1>1, <1>3, TouchSender, SteadyListens DEF SenderGetsOffsetAck
<1>4. CASE snd.waitingForOffsetAck
  <2>1. Steady(snd, t) /\ t.state = snd.state
    BY <1>0 DEF Sender, Steady, SameStream, Pumped, IsTerminal
  <2>2. snd' = Touch(u) /\ snd.sock = "open"
    BY <1>1, <1>4 DEF SenderGetsOffsetAck, SenderReads
  <2> HIDE DEF t, offset
  <2>3. /\ u \in Sender
        /\ u.attempt = t.attempt /\ u.sock = t.sock
        /\ u.waitingForOffsetAck = FALSE
        /\ u.finishPending = t.finishPending /\ u.cancelled = t.cancelled
        /\ u.retryScheduled = t.retryScheduled
        /\ u.remaining = IF t.cancelled \/ IsTerminal(t) THEN t.remaining
                         ELSE Chunks - offset
        /\ u.pos = IF t.cancelled \/ IsTerminal(t) \/ offset = 0 THEN t.pos ELSE offset
        /\ u.hashFrom = IF t.cancelled \/ IsTerminal(t) THEN t.hashFrom
                        ELSE IF offset = 0 THEN t.pos ELSE 0
        /\ u.state = t.state
    BY <1>2, <2>1, ApplyOffsetAckSender DEF Steady
  <2> HIDE DEF u
  <2>4. Steady(u, snd')
    BY <2>2, <2>3, TouchSender
  <2>5. Learns(offset)
    BY <1>0, <1>1, <1>4, <2>1, <2>2, <2>3, <2>4
       DEF Learns, KeepsConnection, SenderGetsOffsetAck, Steady, SameStream, Pumped,
           RetryLeft, IsTerminal
  <2> QED
    BY <1>1, <2>5 DEF offset
<1> QED
  BY <1>1, <1>3, <1>4

LEMMA TimeoutSender ==
  ASSUME TypeInv, OffsetAckTimeout
  PROVE  Learns(0)
<1>0. snd \in Sender /\ RetryLeft /\ 0 \in Chunk
  BY ChunksAssumption DEF TypeInv, TypeOK, Chunk
<1> DEFINE u == ApplyOffsetAck(snd, 0)
<1>1. /\ u \in Sender
      /\ u.attempt = snd.attempt /\ u.sock = snd.sock
      /\ u.waitingForOffsetAck = FALSE
      /\ u.finishPending = snd.finishPending /\ u.cancelled = snd.cancelled
      /\ u.retryScheduled = snd.retryScheduled
      /\ u.remaining = IF snd.cancelled \/ IsTerminal(snd) THEN snd.remaining
                       ELSE Chunks - 0
      /\ u.pos = IF snd.cancelled \/ IsTerminal(snd) \/ 0 = 0 THEN snd.pos ELSE 0
      /\ u.hashFrom = IF snd.cancelled \/ IsTerminal(snd) THEN snd.hashFrom
                      ELSE IF 0 = 0 THEN snd.pos ELSE 0
      /\ u.state = snd.state
  BY <1>0, ApplyOffsetAckSender
<1> HIDE DEF u
<1>2. snd' = u /\ snd.waitingForOffsetAck /\ ~Undisturbed
  BY DEF OffsetAckTimeout, Undisturbed, u
<1> QED
  BY <1>0, <1>1, <1>2
     DEF OffsetAckTimeout, Learns, KeepsConnection, Pumped, RetryLeft, IsTerminal

LEMMA DataSender ==
  ASSUME TypeInv, SendData
  PROVE  Listens \/ SendsChunk
<1>0. snd \in Sender /\ RetryLeft
  BY DEF TypeInv, TypeOK
<1> DEFINE woken == [snd EXCEPT !.sendScheduled = FALSE]
<1>1. Steady(snd, woken)
  BY <1>0 DEF Sender, Steady, SameStream, Pumped, IsTerminal
<1>2. CASE ~MaySend
  <2>1. Steady(snd, snd')
    BY <1>1, <1>2 DEF SendData
  <2> QED
    BY <1>2, <2>1, SteadyListens DEF SendData
<1>3. Steady(snd, Wrote(woken)) /\ Wrote(woken).state = snd.state
      /\ ~Wrote(woken).sendScheduled
  <2>1. woken.state = snd.state /\ ~woken.sendScheduled
    BY <1>0 DEF Sender
  <2> HIDE DEF woken
  <2> QED
    BY <1>0, <1>1, <2>1, WroteSender, SteadyIsTransitive DEF Steady
<1>4. CASE MaySend /\ snd.pos = Chunks
  <2>1. snd' = Wrote(woken) /\ toR' = toR
    <3>1. ~(snd.pos < Chunks)
      BY <1>4, ChunksAssumption
    <3> QED
      BY <1>4, <3>1 DEF SendData
  <2> QED
    BY <1>3, <2>1, SteadyListens DEF SendData
<1>5. CASE MaySend /\ snd.pos < Chunks
  <2> DEFINE t == Wrote(woken)
  <2>1. /\ snd' = [t EXCEPT !.remaining = @ - 1, !.pos = @ + 1,
                            !.finishPending = @ \/ snd.remaining = 1]
        /\ toR' = IF Connected(snd)
                  THEN Post(toR, snd.attempt, [type |-> "Data", n |-> snd.pos + 1]) ELSE toR
    <3>1. snd.pos # Chunks
      BY <1>0, <1>5, ChunksAssumption DEF Sender
    <3> QED
      BY <1>5, <3>1 DEF SendData, Sends
  <2> HIDE DEF t
  <2>2. Steady(snd, t) /\ t.state = snd.state /\ ~t.sendScheduled
    BY <1>3 DEF t
  <2>3. t \in Sender /\ t.remaining > 0 /\ t.remaining = snd.remaining /\ t.pos = snd.pos /\ t.hashFrom = snd.hashFrom
    BY <1>5, <2>2 DEF MaySend, Steady, SameStream
  <2>4. t.remaining - 1 \in 0 .. Chunks /\ t.pos + 1 \in 0 .. Chunks
    BY <1>5, <2>3, ChunksAssumption DEF Sender
  <2>5. (t.finishPending \/ snd.remaining = 1) \in BOOLEAN
    BY <2>3 DEF Sender
  <2>6. /\ snd' \in Sender /\ snd'.remaining = snd.remaining - 1
        /\ snd'.pos = snd.pos + 1 /\ snd'.hashFrom = snd.hashFrom
        /\ snd'.finishPending = (t.finishPending \/ snd.remaining = 1)
        /\ snd'.attempt = t.attempt /\ snd'.sock = t.sock
        /\ snd'.cancelled = t.cancelled /\ snd'.retryScheduled = t.retryScheduled
        /\ snd'.waitingForOffsetAck = t.waitingForOffsetAck
        /\ snd'.sendScheduled = t.sendScheduled
        /\ snd'.state = t.state
    BY <2>1, <2>3, <2>4, <2>5 DEF Sender
  <2> QED
    BY <1>0, <1>5, <2>1, <2>2, <2>6
       DEF SendData, SendsChunk, KeepsConnection, Writes, MaySend, Steady, SameStream,
           Pumped, RetryLeft, IsTerminal
<1>6. MaySend => snd.pos = Chunks \/ snd.pos < Chunks
  BY DEF SendData
<1> QED
  BY <1>2, <1>4, <1>5, <1>6

LEMMA FinishSender ==
  ASSUME TypeInv, BytesWritten
  PROVE  Listens \/ SendsFinish
<1>0. snd \in Sender /\ RetryLeft /\ snd.sock = "open"
  BY DEF TypeInv, TypeOK, BytesWritten
<1> DEFINE drained == [snd EXCEPT !.unsent = FALSE]
           t == Wrote(drained)
           finishing == [t EXCEPT !.finishPending = FALSE, !.finishing = TRUE]
<1>1. Steady(snd, drained)
  BY <1>0 DEF Sender, Steady, SameStream, Pumped, IsTerminal
<1>2. CASE ~snd.finishPending
  <2>1. snd' = ScheduleSend(drained)
    BY <1>2 DEF BytesWritten
  <2> HIDE DEF drained
  <2>2. Steady(snd, snd')
    BY <1>0, <1>1, <2>1, ScheduleSendSender, SteadyIsTransitive DEF Steady
  <2> QED
    BY <1>2, <2>2, SteadyListens DEF BytesWritten
<1>3. CASE snd.finishPending /\ IsTerminal(snd)
  <2>1. Steady(snd, snd')
    BY <1>1, <1>3 DEF BytesWritten
  <2> QED
    BY <1>3, <2>1, SteadyListens DEF BytesWritten
<1>4. CASE snd.finishPending /\ ~IsTerminal(snd)
  <2>1. /\ snd' = IF snd.receiverFinishAck THEN finishing ELSE CompleteUpload(finishing)
        /\ toR' = Post(toR, snd.attempt, FinishPacket(snd))
    BY <1>0, <1>4 DEF BytesWritten, Sends, Connected
  <2>2. Steady(snd, t)
    <3> HIDE DEF drained
    <3> QED
      BY <1>0, <1>1, WroteSender, SteadyIsTransitive DEF Steady
  <2> HIDE DEF t
  <2>3. /\ finishing \in Sender
        /\ finishing.attempt = t.attempt /\ finishing.sock = t.sock
        /\ finishing.remaining = t.remaining /\ finishing.pos = t.pos /\ finishing.hashFrom = t.hashFrom
        /\ finishing.waitingForOffsetAck = t.waitingForOffsetAck
        /\ finishing.cancelled = t.cancelled /\ finishing.finishPending = FALSE
        /\ finishing.retryScheduled = t.retryScheduled
    BY <2>2 DEF Sender, Steady
  <2> HIDE DEF finishing
  <2>4. LET u == CompleteUpload(finishing)
        IN /\ u \in Sender
           /\ u.attempt = finishing.attempt /\ u.sock = finishing.sock
           /\ u.remaining = finishing.remaining /\ u.pos = finishing.pos /\ u.hashFrom = finishing.hashFrom
           /\ u.waitingForOffsetAck = finishing.waitingForOffsetAck
           /\ u.cancelled = finishing.cancelled
           /\ u.finishPending => finishing.finishPending
           /\ u.retryScheduled = finishing.retryScheduled
    BY <2>3, CompleteUploadSender
  <2>5. /\ snd' \in Sender
        /\ snd'.attempt = snd.attempt /\ snd'.sock = snd.sock
        /\ snd'.remaining = snd.remaining /\ snd'.pos = snd.pos
        /\ snd'.hashFrom = snd.hashFrom
        /\ snd'.waitingForOffsetAck = snd.waitingForOffsetAck
        /\ snd'.cancelled = snd.cancelled /\ ~snd'.finishPending
        /\ snd'.retryScheduled = snd.retryScheduled
    BY <2>1, <2>2, <2>3, <2>4 DEF Steady, SameStream
  <2> QED
    BY <1>0, <1>4, <2>1, <2>5
       DEF BytesWritten, SendsFinish, KeepsConnection, Writes, Connected, Pumped, RetryLeft,
           IsTerminal, Terminal
<1> QED
  BY <1>2, <1>3, <1>4

LEMMA CancelSender ==
  ASSUME TypeInv, SenderCancel
  PROVE  SendsCancel
<1>0. snd \in Sender /\ RetryLeft
  BY DEF TypeInv, TypeOK
<1> DEFINE t == Wrote(snd)
           u == [t EXCEPT !.waitingForOffsetAck = FALSE, !.cancelled = TRUE]
<1>1. Steady(snd, t) /\ t.state = snd.state
  BY <1>0, WroteSender
<1>2. snd' = SetState(u, "Cancelled") /\ CanCancel(snd)
  BY DEF SenderCancel
<1> HIDE DEF t
<1>3. /\ u \in Sender
      /\ u.attempt = t.attempt /\ u.sock = t.sock
      /\ u.remaining = t.remaining /\ u.pos = t.pos /\ u.hashFrom = t.hashFrom
      /\ u.waitingForOffsetAck = FALSE /\ u.finishPending = t.finishPending
      /\ u.sendScheduled = t.sendScheduled
      /\ u.retryScheduled = t.retryScheduled /\ u.state = t.state
  BY <1>1 DEF Sender, Steady
<1> HIDE DEF u
<1>4. "Cancelled" \in TransferState
  BY DEF TransferState
<1>5. Steady(u, snd')
  BY <1>2, <1>3, <1>4, SetStateSender
<1>6. snd'.state = "Cancelled"
  <2>1. u.state \in {"Queued", "Waiting", "Transfering", "Paused"}
    BY <1>1, <1>2, <1>3 DEF CanCancel
  <2>2. NextState(u, "Cancelled") = "Cancelled"
    BY <2>1 DEF NextState, Accepted, TransferState
  <2>3. snd' = [u EXCEPT !.state = "Cancelled", !.last = u.state]
    BY <1>2, <2>1, <2>2 DEF SetState
  <2> QED
    BY <1>3, <2>3 DEF Sender
<1> QED
  BY <1>0, <1>1, <1>3, <1>5, <1>6
     DEF SenderCancel, Sends, SendsCancel, KeepsConnection, Writes, Steady, SameStream,
         Pumped, RetryLeft, IsTerminal, Terminal

LEMMA RetrySender ==
  ASSUME TypeInv, RetryTimer
  PROVE  Listens \/ Reconnects
<1>0. snd \in Sender /\ RetryLeft /\ snd.retryScheduled
  BY DEF TypeInv, TypeOK, RetryTimer
<1> DEFINE woken == [snd EXCEPT !.retryScheduled = FALSE]
<1>1. woken \in Sender /\ SameStream(snd, woken) /\ woken.sock = snd.sock
      /\ woken.retryScheduled = FALSE /\ woken.state = snd.state
      /\ woken.sendScheduled = snd.sendScheduled
  BY <1>0 DEF Sender, SameStream
<1>2. CASE snd.cancelled \/ snd.state \in {"Cancelled", "Finish"}
  BY <1>1, <1>2
     DEF RetryTimer, Listens, KeepsConnection, SameStream, Pumped, RetryLeft, IsTerminal
<1>3. CASE ~(snd.cancelled \/ snd.state \in {"Cancelled", "Finish"})
  <2>1. snd' = RetryConnect(woken)
    BY <1>3 DEF RetryTimer
  <2> HIDE DEF woken
  <2>2. woken.attempt < RetryMax
    BY <1>0, <1>1 DEF RetryLeft, SameStream
  <2> QED
    BY <1>0, <1>1, <1>3, <2>1, <2>2, RetryConnectSender
       DEF RetryTimer, Reconnects, Hangup, SameStream, RetryLeft
<1> QED
  BY <1>2, <1>3

\* what start(), onConnected() and onEncrypted() make of the Sender
LEMMA ConnectingSender ==
  ASSUME TypeInv, Start \/ SenderConnected \/ SenderEncrypted
  PROVE  /\ snd' \in Sender /\ RetryLeft'
         /\ snd'.attempt = snd.attempt
         /\ snd'.remaining = snd.remaining /\ snd'.pos = snd.pos
         /\ snd'.hashFrom = snd.hashFrom
         /\ snd'.finishPending => snd.finishPending
         /\ snd.sock = "handshake" => ~snd'.finishPending \/ IsTerminal(snd')
         /\ snd'.cancelled = snd.cancelled
         /\ snd'.retryScheduled = snd.retryScheduled
         /\ snd'.sock \in {"connecting", "handshake", "open"}
         /\ snd'.sock = "open" => snd'.waitingForOffsetAck
         /\ snd'.sock # "open" =>
              /\ snd'.sendScheduled = snd.sendScheduled
              /\ snd'.waitingForOffsetAck = snd.waitingForOffsetAck
         /\ snd.state \in {"Cancelled", "Finish", "Failed"} => snd'.state = snd.state
         /\ IsTerminal(snd) => IsTerminal(snd')
<1>0. snd \in Sender /\ RetryLeft
  BY DEF TypeInv, TypeOK
<1>1. CASE Start
  <2>1. ~IsTerminal(snd)
    BY <1>1 DEF Start, IsTerminal, Terminal
  <2> QED
    BY <1>0, <1>1, <2>1, ConnectTransferSocketSender DEF Start, SameStream, RetryLeft
<1>2. CASE SenderConnected /\ TLS
  <2>1. snd' = [snd EXCEPT !.sock = "handshake"] /\ snd.sock = "connecting"
    BY <1>2 DEF SenderConnected
  <2> QED
    BY <1>0, <2>1 DEF Sender, RetryLeft, IsTerminal
<1>3. CASE (SenderConnected /\ ~TLS) \/ SenderEncrypted
  <2> DEFINE t == [snd EXCEPT !.sock = "open"]
             u == SetState(t, "Transfering")
             v == SendHeader(u)
             w == [v EXCEPT !.finishPending = FALSE, !.finishing = TRUE]
  <2>1. /\ t \in Sender /\ SameStream(snd, t) /\ t.sock = "open"
        /\ t.retryScheduled = snd.retryScheduled /\ t.state = snd.state
    BY <1>0 DEF Sender, SameStream
  <2>2. Steady(t, u)
    <3>1. "Transfering" \in TransferState
      BY DEF TransferState
    <3> HIDE DEF t
    <3> QED
      BY <2>1, <3>1, SetStateSender
  <2>3. \/ snd' = v /\ (snd.sock = "handshake" => ~snd.finishPending \/ IsTerminal(v))
        \/ snd' = CompleteUpload(w)
    BY <1>3 DEF SenderConnected, SenderEncrypted
  <2> HIDE DEF t, u
  <2>4. /\ v \in Sender
        /\ v.attempt = snd.attempt /\ v.sock = "open"
        /\ v.remaining = snd.remaining /\ v.pos = snd.pos /\ v.hashFrom = snd.hashFrom
        /\ v.waitingForOffsetAck = TRUE
        /\ v.finishPending = snd.finishPending /\ v.cancelled = snd.cancelled
        /\ v.retryScheduled = snd.retryScheduled
        /\ snd.state \in {"Cancelled", "Finish", "Failed"} => v.state = snd.state
        /\ IsTerminal(snd) => IsTerminal(v)
    BY <2>1, <2>2, SendHeaderSender DEF Steady, SameStream, IsTerminal
  <2> HIDE DEF v
  <2>5. CASE snd' = v /\ (snd.sock = "handshake" => ~snd.finishPending \/ IsTerminal(v))
    BY <1>0, <2>4, <2>5 DEF RetryLeft
  <2>6. CASE snd' = CompleteUpload(w)
    <3>1. /\ w \in Sender
          /\ w.attempt = v.attempt /\ w.sock = v.sock
          /\ w.remaining = v.remaining /\ w.pos = v.pos /\ w.hashFrom = v.hashFrom
          /\ w.waitingForOffsetAck = v.waitingForOffsetAck
          /\ w.cancelled = v.cancelled
          /\ w.finishPending = FALSE
          /\ w.retryScheduled = v.retryScheduled /\ w.state = v.state
      BY <2>4 DEF Sender
    <3> HIDE DEF w
    <3> QED
      BY <1>0, <2>4, <2>6, <3>1, CompleteUploadSender DEF RetryLeft, IsTerminal, Terminal
  <2> QED
    BY <2>3, <2>5, <2>6
<1> QED
  BY <1>1, <1>2, <1>3

-----------------------------------------------------------------------------
(* Type correctness *)

Queues == [Attempt -> Seq(Packet)]

LEMMA PostType ==
  ASSUME NEW q \in Queues, NEW a \in Attempt, NEW p \in Packet
  PROVE  Post(q, a, p) \in Queues
  BY DEF Post, Queues

LEMMA TailType ==
  ASSUME NEW q \in Queues, NEW a \in Attempt, q[a] # <<>>
  PROVE  [q EXCEPT ![a] = Tail(@)] \in Queues
  BY DEF Queues

LEMMA PacketTypes ==
  /\ \A t \in PacketKind : Packet0(t) \in Packet
  /\ \A n \in Chunk : [type |-> "OffsetAck", n |-> n] \in Packet
  /\ \A n \in Chunk : [type |-> "Data", n |-> n] \in Packet
<1>1. 0 \in Chunk
  BY ChunksAssumption DEF Chunk
<1> QED
  BY <1>1 DEF Packet, Packet0, PacketKind

LEMMA HangupType ==
  ASSUME TypeOK, NEW a \in Attempt, Hangup(a)
  PROVE  link' \in [Attempt -> {"none", "up", "down"}]
  BY DEF TypeOK, Hangup

LEMMA InitType == Init => TypeInv
<1> SUFFICES ASSUME Init PROVE TypeInv
  OBVIOUS
<1>1. 0 \in Attempt /\ 0 \in Chunk /\ Chunks \in 0 .. Chunks
  BY ChunksAssumption, RetryAssumption DEF Attempt, Chunk
<1>2. NewSender \in Sender /\ ~NewSender.retryScheduled
  BY <1>1 DEF NewSender, Sender, TransferState
<1>3. snd \in Sender /\ ~snd.retryScheduled
  <2>1. "Queued" \in TransferState
    BY DEF TransferState
  <2>2. Steady(NewSender, SetState(NewSender, "Queued"))
    BY <1>2, <2>1, SetStateSender
  <2> QED
    BY <1>2, <2>2 DEF Init, Steady
<1>4. <<>> \in Content /\ <<>> \in Seq(Packet)
  BY DEF Content
<1>5. NoReceiver \in Receiver
  BY <1>4 DEF NoReceiver, Receiver, TransferState
<1>6. NoFile \in File
  BY <1>4 DEF NoFile, File
<1>7. part \in File
  <2>1. ASSUME NEW n \in 0 .. Chunks, NEW d \in [1 .. n -> Chunk]
        PROVE  [there |-> TRUE, data |-> d] \in File
    <3>1. n \in Nat
      BY <2>1, ChunksAssumption
    <3>2. d \in Seq(Chunk)
      BY <2>1, <3>1, SeqDef
    <3> QED
      BY <3>2 DEF File, Content
  <2>2. ASSUME NEW n \in 0 .. Chunks
        PROVE  [i \in 1 .. n |-> i] \in [1 .. n -> Chunk] /\ [i \in 1 .. n |-> 0] \in [1 .. n -> Chunk]
    BY <1>1, <2>2, ChunksAssumption DEF Chunk
  <2>3. part = NoFile \/ \E n \in 0 .. Chunks : \E d \in [1 .. n -> Chunk] :
          part = [there |-> TRUE, data |-> d]
    BY <2>2 DEF Init, LeftOver
  <2> QED
    BY <1>6, <2>1, <2>3
<1> QED
  BY <1>3, <1>4, <1>5, <1>6, <1>7 DEF Init, TypeInv, TypeOK, RetryLeft

LEMMA SenderType ==
  ASSUME TypeInv, SenderNext
  PROVE  TypeInv'
<1>0. /\ snd \in Sender /\ snd.attempt \in Attempt
      /\ toR \in Queues /\ toS \in Queues
      /\ rcv \in [Attempt -> Receiver]
      /\ link \in [Attempt -> {"none", "up", "down"}]
      /\ part \in File /\ final \in File
  BY DEF TypeInv, TypeOK, Sender, Queues
<1>1. ASSUME KeepsConnection, toR' \in Queues
      PROVE  TypeInv'
  <2>1. link' \in [Attempt -> {"none", "up", "down"}]
    BY <1>0, <1>1 DEF KeepsConnection
  <2>2. toS' \in Queues
    BY <1>0, <1>1, TailType DEF KeepsConnection
  <2> QED
    BY <1>0, <1>1, <2>1, <2>2 DEF KeepsConnection, TypeInv, TypeOK, Queues
<1>2. ASSUME Listens
      PROVE  TypeInv'
  BY <1>0, <1>1, <1>2 DEF Listens
<1>3. ASSUME NEW offset, Learns(offset)
      PROVE  TypeInv'
  BY <1>0, <1>1, <1>3 DEF Learns
<1>4. ASSUME NEW p \in Packet, Writes(p)
      PROVE  toR' \in Queues
  BY <1>0, <1>4, PostType DEF Writes
<1>5. ASSUME SendsChunk
      PROVE  TypeInv'
  <2>1. snd.pos + 1 \in Chunk
    BY <1>0, <1>5, ChunksAssumption DEF SendsChunk, Sender, Chunk
  <2>2. [type |-> "Data", n |-> snd.pos + 1] \in Packet
    BY <2>1, PacketTypes
  <2> QED
    BY <1>1, <1>4, <1>5, <2>2 DEF SendsChunk
<1>6. FinishPacket(snd) \in Packet /\ Packet0("Cancel") \in Packet
      /\ Packet0("Header") \in Packet
  BY <1>0, PacketTypes, ChunksAssumption DEF PacketKind, FinishPacket, Packet, Chunk, Sender
<1>7. CASE SendData
  BY <1>2, <1>5, <1>7, DataSender
<1>8. CASE BytesWritten
  BY <1>1, <1>2, <1>4, <1>6, <1>8, FinishSender DEF SendsFinish
<1>9. CASE SenderCancel
  BY <1>1, <1>4, <1>6, <1>9, CancelSender DEF SendsCancel
<1>10. CASE RetryTimer
  <2>1. CASE Reconnects
    BY <1>0, <2>1 DEF Reconnects, TypeInv, TypeOK, RetryLeft, Queues
  <2> QED
    BY <1>2, <1>10, <2>1, RetrySender
<1>11. CASE SenderGetsOffsetAck
  BY <1>2, <1>3, <1>11, OffsetSender
<1>12. CASE OffsetAckTimeout
  BY <1>3, <1>12, TimeoutSender
<1>13. CASE Start \/ SenderConnected \/ SenderEncrypted
  <2>1. snd' \in Sender /\ RetryLeft'
    BY <1>13, ConnectingSender
  <2>2. toR' \in Queues
    <3> DEFINE q == toR[snd.attempt]
    <3>1. q \in Seq(Packet)
      BY <1>0 DEF Queues
    <3>2. Append(q, Packet0("Header")) \in Seq(Packet)
          /\ q \o <<Packet0("Header"), FinishPacket(snd)>> \in Seq(Packet)
      BY <1>6, <3>1
    <3>3. toR' \in {toR, [toR EXCEPT ![snd.attempt] = Append(q, Packet0("Header"))],
                    [toR EXCEPT ![snd.attempt] =
                       q \o <<Packet0("Header"), FinishPacket(snd)>>]}
      BY <1>13 DEF Start, SenderConnected, SenderEncrypted
    <3> HIDE DEF q
    <3> QED
      BY <1>0, <3>2, <3>3 DEF Queues
  <2>3. link' \in [Attempt -> {"none", "up", "down"}]
    BY <1>0, <1>13 DEF Start, SenderConnected, SenderEncrypted
  <2> QED
    BY <1>0, <1>13, <2>1, <2>2, <2>3
       DEF Start, SenderConnected, SenderEncrypted, TypeInv, TypeOK, Queues
<1>14. CASE \/ ConnectionRefused \/ PinMismatch
            \/ SenderGetsFinishAck \/ SenderGetsBusy \/ SenderGetsCancel
            \/ SenderGetsPause \/ SenderGetsResume
            \/ ReadError \/ SenderDisconnected \/ SenderIdleTimeout
            \/ SenderPause \/ SenderResume
  BY <1>2, <1>14, QuietSender
<1> QED
  BY <1>7, <1>8, <1>9, <1>10, <1>11, <1>12, <1>13, <1>14 DEF SenderNext

\* what removing a download's files leaves
LEMMA RemoveDownloadType ==
  ASSUME TypeOK, NEW a \in Attempt, NEW r \in Receiver, RemoveDownload(a, r)
  PROVE  rcv' \in [Attempt -> Receiver] /\ part' \in File /\ final' \in File
<1>1. NoFile \in File
  BY DEF NoFile, File, Content
<1>2. ASSUME NEW b \in Attempt
      PROVE  LET next == IF b = a THEN r ELSE rcv[b]
             IN next \in Receiver /\ Unlinked(next, {"part", Target}) \in Receiver
  BY UnlinkedReceiver DEF TypeOK
<1>3. rcv' \in [Attempt -> Receiver]
  BY <1>2 DEF RemoveDownload
<1> QED
  BY <1>1, <1>3 DEF RemoveDownload, TypeOK

LEMMA ReceiverType ==
  ASSUME TypeInv, NEW a \in Attempt, ReceiverNext(a)
  PROVE  TypeInv'
<1>0. /\ toR \in Queues /\ toS \in Queues
      /\ rcv \in [Attempt -> Receiver] /\ rcv[a] \in Receiver
      /\ part \in File /\ final \in File
      /\ TypeOK
      /\ link \in [Attempt -> {"none", "up", "down"}]
  BY DEF TypeInv, TypeOK, Queues
<1>1. ASSUME UNCHANGED snd, rcv' \in [Attempt -> Receiver], toR' \in Queues, toS' \in Queues,
             UNCHANGED link \/ Hangup(a), part' \in File, final' \in File
      PROVE  TypeInv'
  <2>1. link' \in [Attempt -> {"none", "up", "down"}]
    BY <1>0, <1>1, HangupType
  <2> QED
    BY <1>1, <2>1 DEF TypeInv, TypeOK, RetryLeft, Queues
<1>2. ASSUME NEW type, ReceiverReads(a, type)
      PROVE  [toR EXCEPT ![a] = Tail(@)] \in Queues
  BY <1>0, <1>2, TailType DEF ReceiverReads
<1>3. ASSUME NEW t \in PacketKind
      PROVE  Post(toS, a, Packet0(t)) \in Queues
  BY <1>0, <1>3, PostType, PacketTypes
<1>4. {"Cancel", "Busy", "Pause", "Resume", "FinishAck"} \subseteq PacketKind
      /\ {"Waiting", "Transfering", "Paused", "Cancelled"} \subseteq TransferState
  BY DEF PacketKind, TransferState
<1>5. NoFile \in File /\ <<>> \in Content
  BY DEF NoFile, File, Content
<1>6. Offline(Fail(rcv[a])) \in Receiver
  BY <1>0, FailedReceiver DEF SameDownload
<1>7. CASE Accept(a)
  <2> DEFINE r == [rcv[a] EXCEPT !.sock = "open"]
  <2>1. r \in Receiver
    BY <1>0 DEF Receiver
  <2>2. SetState(r, "Waiting") \in Receiver
    <3> HIDE DEF r
    <3> QED
      BY <1>4, <2>1, SetStateReceiver DEF SameDownload
  <2>3. rcv' = [rcv EXCEPT ![a] = SetState(r, "Waiting")]
    BY <1>7 DEF Accept
  <2> HIDE DEF r
  <2> QED
    BY <1>0, <1>1, <1>7, <2>2, <2>3 DEF Accept
<1>8. CASE RejectBusy(a)
  <2>1. [rcv[a] EXCEPT !.sock = "closed"] \in Receiver
    BY <1>0 DEF Receiver
  <2>2. rcv' \in [Attempt -> Receiver]
    BY <1>0, <1>8, <2>1 DEF RejectBusy
  <2> QED
    BY <1>0, <1>1, <1>3, <1>4, <1>8, <2>2 DEF RejectBusy
<1>9. CASE ReceiverGetsHeader(a)
  <2> DEFINE kept == IF Resumable THEN part.data ELSE <<>>
             r == [rcv[a] EXCEPT !.got = kept, !.file = Target]
  <2>1. kept \in Content /\ Len(kept) \in Chunk
    <3>1. CASE Resumable
      BY <1>0, <3>1, ChunksAssumption DEF Resumable, File, Chunk
    <3>2. CASE ~Resumable
      BY <1>5, <3>2, ChunksAssumption DEF Chunk
    <3> QED
      BY <3>1, <3>2
  <2> HIDE DEF kept
  <2>2. r \in Receiver
    BY <1>0, <2>1 DEF Receiver, Target
  <2>3. SetState(r, "Transfering") \in Receiver
    <3> HIDE DEF r
    <3> QED
      BY <1>4, <2>2, SetStateReceiver DEF SameDownload
  <2> HIDE DEF r
  <2>4. /\ part' = IF ResumePartial THEN [there |-> TRUE, data |-> kept] ELSE part
        /\ final' = IF ResumePartial THEN final ELSE [there |-> TRUE, data |-> <<>>]
        /\ rcv' = [b \in Attempt |->
                     CASE b = a -> SetState(r, "Transfering")
                       [] b # a /\ Oversize -> Unlinked(rcv[b], {"part"})
                       [] OTHER -> rcv[b]]
        /\ toS' = Post(toS, a, [type |-> "OffsetAck", n |-> Len(kept)])
        /\ toR' = [toR EXCEPT ![a] = Tail(@)]
        /\ ReceiverReads(a, "Header") /\ UNCHANGED <<snd, link>>
    BY <1>9 DEF ReceiverGetsHeader, ReadByReceiver, kept, r
  <2>5. rcv' \in [Attempt -> Receiver]
    <3>1. ASSUME NEW b \in Attempt
          PROVE  rcv[b] \in Receiver /\ Unlinked(rcv[b], {"part"}) \in Receiver
      BY <1>0, UnlinkedReceiver
    <3> QED
      BY <2>3, <2>4, <3>1
  <2>6. part' \in File /\ final' \in File
    BY <1>0, <1>5, <2>1, <2>4 DEF File
  <2>7. toS' \in Queues /\ toR' \in Queues
    BY <1>0, <1>2, <2>1, <2>4, PostType, PacketTypes
  <2> QED
    BY <1>1, <2>4, <2>5, <2>6, <2>7
<1>10. CASE RejectHeader(a)
  <2>1. ASSUME NEW b \in Attempt
        PROVE  rcv[b] \in Receiver /\ Unlinked(rcv[b], {"part"}) \in Receiver
    BY <1>0, UnlinkedReceiver
  <2>2. rcv' \in [Attempt -> Receiver] /\ part' \in File
    BY <1>0, <1>5, <1>6, <1>10, <2>1 DEF RejectHeader
  <2> QED
    BY <1>0, <1>1, <1>2, <1>3, <1>4, <1>10, <2>2 DEF RejectHeader, ReadByReceiver
<1>11. CASE ReceiverGetsData(a)
  <2> DEFINE chunk == Head(toR[a]).n
             next == Len(rcv[a].got) + 1
  <2>1. chunk \in Chunk
    <3>1. toR[a] \in Seq(Packet) /\ toR[a] # <<>>
      BY <1>0, <1>11 DEF Queues, ReceiverGetsData, ReceiverReads
    <3>2. Head(toR[a]) \in Packet
      BY <3>1
    <3> QED
      BY <3>2 DEF Packet
  <2>2. rcv[a].got \in Seq(Chunk) /\ next \in Nat \ {0}
    BY <1>0 DEF Receiver, Content
  <2> HIDE DEF chunk, next
  <2>3. Written(part, next, chunk) \in File /\ Written(final, next, chunk) \in File
    BY <1>0, <2>1, <2>2, WrittenFile
  <2>4. [rcv[a] EXCEPT !.got = Append(@, chunk)] \in Receiver
    <3>1. Append(rcv[a].got, chunk) \in Content
      BY <2>1, <2>2 DEF Content
    <3> QED
      BY <1>0, <3>1 DEF Receiver
  <2>5. \/ UNCHANGED <<rcv, part, final>>
        \/ /\ rcv' = [rcv EXCEPT ![a].got = Append(@, chunk)]
           /\ part' = IF rcv[a].file = "part" THEN Written(part, next, chunk) ELSE part
           /\ final' = IF rcv[a].file = "final" THEN Written(final, next, chunk) ELSE final
    BY <1>11 DEF ReceiverGetsData, chunk, next
  <2>6. rcv' \in [Attempt -> Receiver] /\ part' \in File /\ final' \in File
    BY <1>0, <2>3, <2>4, <2>5
  <2> QED
    BY <1>0, <1>1, <1>2, <1>11, <2>6 DEF ReceiverGetsData, ReadByReceiver
<1>12. CASE WriteError(a)
  BY <1>0, <1>1, <1>2, <1>3, <1>4, <1>6, <1>12, RemoveDownloadType
     DEF WriteError, ReadByReceiver
<1>13. CASE ChecksumFailed(a)
  BY <1>0, <1>1, <1>2, <1>3, <1>4, <1>6, <1>13, RemoveDownloadType
     DEF ChecksumFailed, ReadByReceiver
<1>14. CASE FinalizeDownload(a)
  <2>1. Finalized(rcv[a]) \in Receiver
    BY <1>0, FinalizedReceiver DEF SameDownload
  <2>2. ASSUME NEW b \in Attempt
        PROVE  Renamed(IF b = a THEN Finalized(rcv[a]) ELSE rcv[b]) \in Receiver
    BY <1>0, <2>1, RenamedReceiver
  <2>3. rcv' \in [Attempt -> Receiver] /\ part' \in File /\ final' \in File
    BY <1>0, <1>5, <1>14, <2>1, <2>2 DEF FinalizeDownload
  <2> QED
    BY <1>0, <1>1, <1>2, <1>3, <1>4, <1>14, <2>3 DEF FinalizeDownload, ReadByReceiver
<1>15. CASE FinalizeFails(a)
  <2>1. ASSUME NEW b \in Attempt
        PROVE  Unlinked(IF b = a THEN Offline(Fail(rcv[a])) ELSE rcv[b], {"final"}) \in Receiver
    BY <1>0, <1>6, UnlinkedReceiver
  <2>2. rcv' \in [Attempt -> Receiver] /\ final' \in File
    BY <1>5, <1>15, <2>1 DEF FinalizeFails
  <2> QED
    BY <1>0, <1>1, <1>2, <1>15, <2>2 DEF FinalizeFails, ReadByReceiver
<1>16. CASE ReceiverGetsCancel(a)
  <2>1. Offline(SetState(rcv[a], "Cancelled")) \in Receiver
    BY <1>0, <1>4, SetStateReceiver, OfflineReceiver DEF SameDownload
  <2> QED
    BY <1>0, <1>1, <1>2, <1>16, <2>1, RemoveDownloadType
       DEF ReceiverGetsCancel, ReadByReceiver
<1>17. CASE ReceiverDisconnected(a)
  <2>1. Offline(rcv[a]) \in Receiver
    BY <1>0, OfflineReceiver DEF SameDownload
  <2>2. rcv' \in [Attempt -> Receiver]
    BY <1>0, <1>6, <1>17, <2>1 DEF ReceiverDisconnected
  <2> QED
    BY <1>0, <1>1, <1>17, <2>2 DEF ReceiverDisconnected
<1>18. CASE ReceiverIdleTimeout(a)
  BY <1>0, <1>1, <1>6, <1>18 DEF ReceiverIdleTimeout
<1>19. CASE ReceiverPause(a)
  <2>1. SetState(rcv[a], "Paused") \in Receiver
    BY <1>0, <1>4, SetStateReceiver DEF SameDownload
  <2> QED
    BY <1>0, <1>1, <1>3, <1>4, <1>19, <2>1 DEF ReceiverPause
<1>20. CASE ReceiverResume(a)
  <2>1. rcv[a].last \in TransferState
    BY <1>0 DEF Receiver
  <2>2. SetState(rcv[a], rcv[a].last) \in Receiver
    BY <1>0, <2>1, SetStateReceiver DEF SameDownload
  <2> QED
    BY <1>0, <1>1, <1>3, <1>4, <1>20, <2>2 DEF ReceiverResume
<1>21. CASE ReceiverCancel(a)
  <2>1. SetState(rcv[a], "Cancelled") \in Receiver
    BY <1>0, <1>4, SetStateReceiver DEF SameDownload
  <2> QED
    BY <1>0, <1>1, <1>3, <1>4, <1>21, <2>1, RemoveDownloadType DEF ReceiverCancel
<1> QED
  BY <1>7, <1>8, <1>9, <1>10, <1>11, <1>12, <1>13, <1>14, <1>15, <1>16, <1>17, <1>18,
     <1>19, <1>20, <1>21 DEF ReceiverNext

LEMMA BreakType ==
  ASSUME TypeInv, NEW a \in Attempt, Break(a)
  PROVE  TypeInv'
<1>0. toR \in Queues /\ toS \in Queues /\ TypeOK
  BY DEF TypeInv, TypeOK, Queues
<1>1. PICK i \in 0 .. Len(toR[a]), j \in 0 .. Len(toS[a]) :
        /\ toR' = [toR EXCEPT ![a] = SubSeq(@, 1, i)]
        /\ toS' = [toS EXCEPT ![a] = SubSeq(@, 1, j)]
  BY DEF Break
<1>2. SubSeq(toR[a], 1, i) \in Seq(Packet) /\ SubSeq(toS[a], 1, j) \in Seq(Packet)
  BY <1>0, SubSeqProperties DEF Queues
<1>3. toR' \in Queues /\ toS' \in Queues
  BY <1>0, <1>1, <1>2 DEF Queues
<1> QED
  BY <1>0, <1>3, HangupType DEF Break, TypeInv, TypeOK, RetryLeft, Queues

LEMMA NextType == TypeInv /\ [Next]_vars => TypeInv'
<1> SUFFICES ASSUME TypeInv, [Next]_vars PROVE TypeInv'
  OBVIOUS
<1>1. CASE SenderNext
  BY <1>1, SenderType
<1>2. ASSUME NEW a \in Attempt, ReceiverNext(a) PROVE TypeInv'
  BY <1>2, ReceiverType
<1>3. ASSUME NEW a \in Attempt, Break(a) PROVE TypeInv'
  BY <1>3, BreakType
<1>4. CASE UNCHANGED vars
  BY <1>4 DEF vars, TypeInv, TypeOK, RetryLeft
<1> QED
  BY <1>1, <1>2, <1>3, <1>4 DEF Next

(***************************************************************************)
(* Every state the two peers can reach has its type, and a retry is only   *)
(* scheduled while there is an attempt left to make.                       *)
(***************************************************************************)
THEOREM TypeCorrect == Spec => [](TypeOK /\ RetryLeft)
<1>1. Spec => []TypeInv
  BY InitType, NextType, PTL DEF Spec
<1> QED
  BY <1>1, PTL DEF TypeInv

-----------------------------------------------------------------------------
(* Connections *)

\* a connection that has not been opened has carried nothing
UnusedLinks ==
  \A a \in Attempt : link[a] = "none" => toR[a] = <<>> /\ rcv[a] = NoReceiver

\* connections are opened in order, the current one when its socket connects
FutureUnused ==
  /\ \A a \in Attempt : a > snd.attempt => link[a] = "none"
  /\ snd.sock \in {"none", "connecting"} => link[snd.attempt] = "none"

\* a Receiver that the Sender has given up reads nothing any more
PastDrained == \A a \in Attempt : a < snd.attempt => Drained(a)

ConnectionInv == UnusedLinks /\ FutureUnused /\ PastDrained

-----------------------------------------------------------------------------
(* The Receiver's actions, by what they do to the downloads *)

\* what every action of Receiver a does
Proceeds(a) ==
  /\ UNCHANGED snd
  /\ link[a] # "none"
  /\ link' \in {link, [link EXCEPT ![a] = "down"]}
  /\ \/ toR' = toR
     \/ /\ rcv[a].sock = "open" /\ ~IsTerminal(rcv[a])
        /\ toR[a] # <<>> /\ toR' = [toR EXCEPT ![a] = Tail(@)]
  /\ \A b \in Attempt :
       /\ rcv[b].sock = "closed" => rcv'[b].sock = "closed"
       /\ IsTerminal(rcv[b]) => IsTerminal(rcv'[b])
       /\ b # a /\ rcv[b] = NoReceiver => rcv'[b] = NoReceiver

\* it touches no file
Rests(a) ==
  /\ UNCHANGED <<part, final>>
  /\ \A b \in Attempt : SameDownload(rcv[b], rcv'[b])

\* or it removes the .part, or finds it has none to remove
Removes(a) ==
  /\ UNCHANGED final
  /\ \A b \in Attempt :
       /\ rcv'[b].got = rcv[b].got
       /\ IsTerminal(rcv[b]) => IsTerminal(rcv'[b])
  /\ \/ /\ part' = part
        /\ \A b \in Attempt : rcv'[b].file = rcv[b].file
     \/ /\ part' = NoFile
        /\ \A b \in Attempt :
             rcv'[b].file = IF rcv[b].file = "part" THEN "unlinked" ELSE rcv[b].file

\* a Receiver that is at work belongs to a connection
LEMMA UsedLink ==
  ASSUME UnusedLinks, NEW a \in Attempt,
         rcv[a].sock # "none" \/ rcv[a].file # "null" \/ rcv[a].state # "Idle"
  PROVE  link[a] # "none"
  BY DEF UnusedLinks, NoReceiver

LEMMA RestingReceiver ==
  ASSUME TypeInv, UnusedLinks, NEW a \in Attempt,
         \/ Accept(a) \/ RejectBusy(a) \/ ReceiverDisconnected(a)
         \/ ReceiverIdleTimeout(a) \/ ReceiverPause(a) \/ ReceiverResume(a)
  PROVE  Proceeds(a) /\ Rests(a)
<1>0. rcv \in [Attempt -> Receiver] /\ rcv[a] \in Receiver
  BY DEF TypeInv, TypeOK
<1>1. ASSUME NEW r \in Receiver, rcv' = [rcv EXCEPT ![a] = r], SameDownload(rcv[a], r),
             rcv[a].sock = "closed" => r.sock = "closed",
             link[a] # "none", link' \in {link, [link EXCEPT ![a] = "down"]},
             UNCHANGED <<snd, toR, part, final>>
      PROVE  Proceeds(a) /\ Rests(a)
  BY <1>0, <1>1 DEF Proceeds, Rests, SameDownload
<1>2. CASE Accept(a)
  <2> DEFINE r == [rcv[a] EXCEPT !.sock = "open"]
  <2>1. SameDownload(rcv[a], r)
    BY <1>0 DEF Receiver, SameDownload, IsTerminal
  <2>2. "Waiting" \in TransferState
    BY DEF TransferState
  <2>3. rcv' = [rcv EXCEPT ![a] = SetState(r, "Waiting")] /\ rcv[a].sock = "none"
    BY <1>2 DEF Accept
  <2> HIDE DEF r
  <2>4. SameDownload(r, SetState(r, "Waiting"))
    BY <2>1, <2>2, SetStateReceiver DEF SameDownload
  <2>5. SameDownload(rcv[a], SetState(r, "Waiting"))
    BY <2>1, <2>4 DEF SameDownload
  <2> QED
    BY <1>1, <1>2, <2>3, <2>5 DEF Accept, SameDownload
<1>3. CASE RejectBusy(a)
  <2>1. SameDownload(rcv[a], [rcv[a] EXCEPT !.sock = "closed"])
        /\ [rcv[a] EXCEPT !.sock = "closed"].sock = "closed"
    BY <1>0 DEF Receiver, SameDownload, IsTerminal
  <2>2. rcv' = [rcv EXCEPT ![a] = [rcv[a] EXCEPT !.sock = "closed"]]
    BY <1>3 DEF RejectBusy
  <2> QED
    BY <1>1, <1>3, <2>1, <2>2 DEF RejectBusy, Hangup, SameDownload
<1>4. LET q == Offline(Fail(rcv[a]))
      IN SameDownload(rcv[a], q) /\ q.sock = "closed"
  BY <1>0, FailedReceiver
<1>5. CASE ReceiverDisconnected(a)
  <2>1. SameDownload(rcv[a], Offline(rcv[a])) /\ Offline(rcv[a]).sock = "closed"
    BY <1>0, OfflineReceiver
  <2>2. PICK r : /\ r \in {Offline(rcv[a]), Offline(Fail(rcv[a]))}
                 /\ rcv' = [rcv EXCEPT ![a] = r]
    BY <1>5 DEF ReceiverDisconnected
  <2>3. link[a] # "none"
    BY <1>5, UsedLink DEF ReceiverDisconnected
  <2> QED
    BY <1>1, <1>4, <1>5, <2>1, <2>2, <2>3 DEF ReceiverDisconnected, SameDownload
<1>6. CASE ReceiverIdleTimeout(a)
  <2>1. link[a] # "none"
    BY <1>6, UsedLink DEF ReceiverIdleTimeout
  <2> QED
    BY <1>1, <1>4, <1>6, <2>1 DEF ReceiverIdleTimeout, Hangup, SameDownload
<1>7. CASE ReceiverPause(a)
  <2>1. "Paused" \in TransferState
    BY DEF TransferState
  <2>2. SameDownload(rcv[a], SetState(rcv[a], "Paused"))
        /\ SetState(rcv[a], "Paused").sock = rcv[a].sock
    BY <1>0, <2>1, SetStateReceiver
  <2>3. link[a] # "none"
    BY <1>7, UsedLink DEF ReceiverPause
  <2> QED
    BY <1>1, <1>7, <2>2, <2>3 DEF ReceiverPause, SameDownload
<1>8. CASE ReceiverResume(a)
  <2>1. rcv[a].last \in TransferState
    BY <1>0 DEF Receiver
  <2>2. SameDownload(rcv[a], SetState(rcv[a], rcv[a].last))
        /\ SetState(rcv[a], rcv[a].last).sock = rcv[a].sock
    BY <1>0, <2>1, SetStateReceiver
  <2>3. link[a] # "none"
    BY <1>8, UsedLink DEF ReceiverResume, CanResume
  <2> QED
    BY <1>1, <1>8, <2>2, <2>3 DEF ReceiverResume, SameDownload
<1> QED
  BY <1>2, <1>3, <1>5, <1>6, <1>7, <1>8

\* the removals, in a folder where downloads are kept in .part files
LEMMA RemovingReceiver ==
  ASSUME TypeInv, UnusedLinks, ResumePartial, NEW a \in Attempt,
         \/ WriteError(a) \/ ChecksumFailed(a) \/ ReceiverGetsCancel(a)
         \/ ReceiverCancel(a)
  PROVE  Proceeds(a) /\ Removes(a)
<1>0. rcv \in [Attempt -> Receiver] /\ rcv[a] \in Receiver
  BY DEF TypeInv, TypeOK
<1>1. ASSUME NEW r, SameDownload(rcv[a], r), RemoveDownload(a, r),
             rcv[a].sock = "closed" => r.sock = "closed",
             link[a] # "none", link' \in {link, [link EXCEPT ![a] = "down"]},
             UNCHANGED snd,
             \/ toR' = toR
             \/ /\ rcv[a].sock = "open" /\ ~IsTerminal(rcv[a])
                /\ toR[a] # <<>> /\ toR' = [toR EXCEPT ![a] = Tail(@)]
      PROVE  Proceeds(a) /\ Removes(a)
  <2> DEFINE next(b) == IF b = a THEN r ELSE rcv[b]
  <2>1. \A b \in Attempt : /\ next(b) \in Receiver
                           /\ next(b).got = rcv[b].got /\ next(b).file = rcv[b].file
                           /\ rcv[b].sock = "closed" => next(b).sock = "closed"
                           /\ IsTerminal(rcv[b]) => IsTerminal(next(b))
                           /\ b # a => next(b) = rcv[b]
    BY <1>0, <1>1 DEF SameDownload
  <2>2. Target = "part" /\ UNCHANGED final
    BY <1>1 DEF Target, RemoveDownload
  <2>3. CASE rcv[a].file = "null"
    <3>1. part' = part /\ rcv' = [b \in Attempt |-> next(b)]
      BY <1>1, <2>3 DEF RemoveDownload
    <3> HIDE DEF next
    <3> QED
      BY <1>1, <2>1, <2>2, <3>1 DEF Proceeds, Removes
  <2>4. CASE rcv[a].file # "null"
    <3>1. part' = NoFile /\ rcv' = [b \in Attempt |-> Unlinked(next(b), {"part", "part"})]
      BY <1>1, <2>2, <2>4 DEF RemoveDownload
    <3> HIDE DEF next
    <3>2. \A b \in Attempt :
            /\ rcv'[b].got = rcv[b].got
            /\ rcv'[b].state = next(b).state /\ rcv'[b].sock = next(b).sock
            /\ rcv'[b].file = IF rcv[b].file = "part" THEN "unlinked" ELSE rcv[b].file
      BY <2>1, <3>1, UnlinkedReceiver
    <3>3. \A b \in Attempt : b # a /\ rcv[b] = NoReceiver => rcv'[b] = NoReceiver
      BY <2>1, <3>1 DEF Unlinked, NoReceiver
    <3>4. \A b \in Attempt :
            /\ rcv[b].sock = "closed" => rcv'[b].sock = "closed"
            /\ IsTerminal(rcv[b]) => IsTerminal(rcv'[b])
      BY <2>1, <3>2 DEF IsTerminal
    <3> QED
      BY <1>1, <2>2, <3>1, <3>2, <3>3, <3>4 DEF Proceeds, Removes
  <2> QED
    BY <2>3, <2>4
<1>2. ASSUME NEW type, ReceiverReads(a, type)
      PROVE  link[a] # "none" /\ rcv[a].sock = "open" /\ ~IsTerminal(rcv[a]) /\ toR[a] # <<>>
  BY <1>2, UsedLink DEF ReceiverReads
<1>3. LET q == Offline(Fail(rcv[a]))
      IN SameDownload(rcv[a], q) /\ q.sock = "closed"
  BY <1>0, FailedReceiver
<1>4. "Cancelled" \in TransferState
  BY DEF TransferState
<1>5. SameDownload(rcv[a], SetState(rcv[a], "Cancelled"))
      /\ SetState(rcv[a], "Cancelled").sock = rcv[a].sock
  BY <1>0, <1>4, SetStateReceiver
<1>6. LET q == Offline(SetState(rcv[a], "Cancelled"))
      IN SameDownload(rcv[a], q) /\ q.sock = "closed"
  <2>1. SetState(rcv[a], "Cancelled") \in Receiver
    BY <1>5 DEF SameDownload
  <2> QED
    BY <1>5, <2>1, OfflineReceiver DEF SameDownload
<1>7. CASE WriteError(a)
  BY <1>1, <1>2, <1>3, <1>7 DEF WriteError, ReadByReceiver, Hangup
<1>8. CASE ChecksumFailed(a)
  BY <1>1, <1>2, <1>3, <1>8 DEF ChecksumFailed, ReadByReceiver, Hangup
<1>9. CASE ReceiverGetsCancel(a)
  BY <1>1, <1>2, <1>6, <1>9 DEF ReceiverGetsCancel, ReadByReceiver, Hangup
<1>10. CASE ReceiverCancel(a)
  BY <1>1, <1>5, <1>10, UsedLink DEF ReceiverCancel
<1> QED
  BY <1>7, <1>8, <1>9, <1>10

\* a directory entry that goes away does not disturb another Receiver's work
LEMMA BystandingReceiver ==
  ASSUME NEW r \in Receiver, NEW q \in {r, Unlinked(r, {"part"})}
  PROVE  q.sock = r.sock /\ q.state = r.state /\ (r = NoReceiver => q = NoReceiver)
<1>1. LET u == Unlinked(r, {"part"}) IN u.sock = r.sock /\ u.state = r.state
  BY UnlinkedReceiver
<1>2. ASSUME r = NoReceiver PROVE Unlinked(r, {"part"}) = r
  <2>1. r.file = "null"
    BY <1>2 DEF NoReceiver
  <2> QED
    BY <2>1 DEF Unlinked
<1> QED
  BY <1>1, <1>2

\* the header opens the .part, with what it keeps of it
LEMMA HeaderReceiver ==
  ASSUME TypeInv, UnusedLinks, ResumePartial, NEW a \in Attempt, ReceiverGetsHeader(a)
  PROVE  /\ Proceeds(a) /\ UNCHANGED final
         /\ rcv'[a].file = "part"
         /\ part'.there /\ part'.data = rcv'[a].got
<1> DEFINE kept == IF Resumable THEN part.data ELSE <<>>
           r == [rcv[a] EXCEPT !.got = kept, !.file = "part"]
<1>0. /\ rcv \in [Attempt -> Receiver] /\ rcv[a] \in Receiver /\ part \in File
      /\ "Transfering" \in TransferState
  BY DEF TypeInv, TypeOK, TransferState
<1>1. kept \in Content
  BY <1>0 DEF File, Content
<1>2. /\ r \in Receiver /\ r.got = kept /\ r.file = "part"
      /\ r.sock = rcv[a].sock /\ r.state = rcv[a].state
  <2> HIDE DEF kept
  <2> QED
    BY <1>0, <1>1 DEF Receiver
<1>3. /\ part' = [there |-> TRUE, data |-> kept] /\ final' = final
      /\ rcv' = [b \in Attempt |->
                   CASE b = a -> SetState(r, "Transfering")
                     [] b # a /\ Oversize -> Unlinked(rcv[b], {"part"})
                     [] OTHER -> rcv[b]]
      /\ toR' = [toR EXCEPT ![a] = Tail(@)]
      /\ ReceiverReads(a, "Header") /\ UNCHANGED <<snd, link>>
  BY DEF ReceiverGetsHeader, ReadByReceiver, Target
<1> HIDE DEF kept, r
<1>4. SameDownload(r, SetState(r, "Transfering"))
      /\ SetState(r, "Transfering").sock = r.sock
  BY <1>0, <1>2, SetStateReceiver
<1>5. rcv'[a] = SetState(r, "Transfering")
  BY <1>3
<1>6. ASSUME NEW b \in Attempt, b # a
      PROVE  /\ rcv'[b].sock = rcv[b].sock /\ rcv'[b].state = rcv[b].state
             /\ rcv[b] = NoReceiver => rcv'[b] = NoReceiver
  <2>1. rcv'[b] \in {rcv[b], Unlinked(rcv[b], {"part"})} /\ rcv[b] \in Receiver
    BY <1>0, <1>3, <1>6
  <2> QED
    BY <2>1, BystandingReceiver
<1>7. link[a] # "none" /\ rcv[a].sock = "open" /\ ~IsTerminal(rcv[a]) /\ toR[a] # <<>>
  BY <1>3, UsedLink DEF ReceiverReads
<1>8. ASSUME NEW b \in Attempt
      PROVE  /\ rcv[b].sock = "closed" => rcv'[b].sock = "closed"
             /\ IsTerminal(rcv[b]) => IsTerminal(rcv'[b])
  BY <1>2, <1>4, <1>5, <1>6, <1>7, <1>8 DEF SameDownload, IsTerminal
<1> QED
  BY <1>2, <1>3, <1>4, <1>5, <1>6, <1>7, <1>8 DEF Proceeds, SameDownload

\* a rejected header ends the download
LEMMA RejectingReceiver ==
  ASSUME TypeInv, UnusedLinks, NEW a \in Attempt, RejectHeader(a)
  PROVE  /\ Proceeds(a) /\ UNCHANGED final
         /\ SameDownload(rcv[a], rcv'[a]) /\ IsTerminal(rcv'[a])
<1>0. rcv \in [Attempt -> Receiver] /\ rcv[a] \in Receiver
  BY DEF TypeInv, TypeOK
<1>1. PICK tidied \in BOOLEAN :
        rcv' = [b \in Attempt |->
                  CASE b = a -> Offline(Fail(rcv[a]))
                    [] b # a /\ tidied -> Unlinked(rcv[b], {"part"})
                    [] OTHER -> rcv[b]]
  BY DEF RejectHeader, Oversize
<1>2. LET q == Offline(Fail(rcv[a]))
      IN SameDownload(rcv[a], q) /\ q.sock = "closed" /\ IsTerminal(q)
  BY <1>0, FailedReceiver
<1>3. rcv'[a] = Offline(Fail(rcv[a]))
  BY <1>1
<1>4. ASSUME NEW b \in Attempt, b # a
      PROVE  /\ rcv'[b].sock = rcv[b].sock /\ rcv'[b].state = rcv[b].state
             /\ rcv[b] = NoReceiver => rcv'[b] = NoReceiver
  <2>1. rcv'[b] \in {rcv[b], Unlinked(rcv[b], {"part"})} /\ rcv[b] \in Receiver
    BY <1>0, <1>1, <1>4
  <2> QED
    BY <2>1, BystandingReceiver
<1>5. link[a] # "none" /\ rcv[a].sock = "open" /\ ~IsTerminal(rcv[a]) /\ toR[a] # <<>>
  BY UsedLink DEF RejectHeader, ReceiverReads
<1>6. ASSUME NEW b \in Attempt
      PROVE  /\ rcv[b].sock = "closed" => rcv'[b].sock = "closed"
             /\ IsTerminal(rcv[b]) => IsTerminal(rcv'[b])
  BY <1>2, <1>3, <1>4, <1>6 DEF SameDownload, IsTerminal
<1> QED
  BY <1>2, <1>3, <1>4, <1>5, <1>6 DEF Proceeds, RejectHeader, ReadByReceiver, Hangup

\* what a Receiver that reads a packet has to do with its connection
LEMMA ReadingReceiver ==
  ASSUME UnusedLinks, NEW a \in Attempt, NEW type, ReceiverReads(a, type)
  PROVE  link[a] # "none" /\ rcv[a].sock = "open" /\ ~IsTerminal(rcv[a]) /\ toR[a] # <<>>
  BY UsedLink DEF ReceiverReads

\* a chunk is appended to the .part as to what is counted, as long as the two agree
LEMMA DataReceiver ==
  ASSUME TypeInv, UnusedLinks, NEW a \in Attempt, ReceiverGetsData(a),
         rcv[a].file # "final",
         rcv[a].file = "part" => part.there /\ part.data = rcv[a].got
  PROVE  /\ Proceeds(a) /\ UNCHANGED final
         /\ rcv'[a].file = rcv[a].file
         /\ rcv[a].file = "null" => rcv'[a].got = rcv[a].got
         /\ rcv[a].file # "part" => part' = part
         /\ rcv[a].file = "part" => part'.there /\ part'.data = rcv'[a].got
<1> DEFINE chunk == Head(toR[a]).n
           next == Len(rcv[a].got) + 1
           r == [rcv[a] EXCEPT !.got = Append(@, chunk)]
<1>0. /\ rcv \in [Attempt -> Receiver] /\ rcv[a] \in Receiver /\ part \in File
      /\ rcv[a].got \in Seq(Chunk)
  BY DEF TypeInv, TypeOK, Receiver, Content
<1>1. chunk \in Chunk
  <2>1. toR[a] \in Seq(Packet) /\ toR[a] # <<>>
    BY DEF TypeInv, TypeOK, ReceiverGetsData, ReceiverReads
  <2>2. Head(toR[a]) \in Packet
    BY <2>1
  <2> QED
    BY <2>2 DEF Packet
<1>2. /\ toR' = [toR EXCEPT ![a] = Tail(@)] /\ UNCHANGED <<snd, link>>
      /\ link[a] # "none" /\ rcv[a].sock = "open" /\ ~IsTerminal(rcv[a]) /\ toR[a] # <<>>
  BY ReadingReceiver DEF ReceiverGetsData, ReadByReceiver
<1>3. /\ r.got = Append(rcv[a].got, chunk) /\ r.file = rcv[a].file
      /\ r.sock = rcv[a].sock /\ r.state = rcv[a].state
  BY <1>0 DEF Receiver
<1>4. \/ UNCHANGED <<rcv, part, final>> /\ (rcv[a].file = "null" \/ next > Chunks)
      \/ /\ rcv' = [rcv EXCEPT ![a] = r] /\ rcv[a].file # "null"
         /\ part' = IF rcv[a].file = "part" THEN Written(part, next, chunk) ELSE part
         /\ final' = final
  BY DEF ReceiverGetsData
<1>5. ASSUME rcv[a].file = "part"
      PROVE  LET f == Written(part, next, chunk)
             IN f.there /\ f.data = Append(rcv[a].got, chunk)
  <2> DEFINE d == [j \in 1 .. next |-> IF j = next THEN chunk ELSE rcv[a].got[j]]
  <2>1. next > Len(part.data) /\ next \in Nat
        /\ \A j \in 1 .. next : j = next \/ j <= Len(part.data)
    BY <1>0, <1>5
  <2>2. Written(part, next, chunk) = [part EXCEPT !.data = d]
    BY <1>5, <2>1 DEF Written
  <2>3. d = Append(rcv[a].got, chunk)
    BY <1>0, <1>1
  <2> HIDE DEF d, next
  <2> QED
    BY <1>0, <1>5, <2>2, <2>3 DEF File
<1> HIDE DEF r, next, chunk
<1>6. Proceeds(a)
  BY <1>0, <1>2, <1>3, <1>4 DEF Proceeds, IsTerminal
<1> QED
  BY <1>0, <1>3, <1>4, <1>5, <1>6

\* all but the directory entry of an opened handle
Keeps(r, q) ==
  /\ q.got = r.got /\ q.state = r.state /\ q.sock = r.sock
  /\ q.file = "null" <=> r.file = "null"
  /\ r.file = "null" => q = r

\* the .part gets its final name, or there is none
LEMMA FinalizingReceiver ==
  ASSUME TypeInv, UnusedLinks, ResumePartial, NEW a \in Attempt,
         FinalizeDownload(a) \/ FinalizeFails(a)
  PROVE  /\ Proceeds(a)
         /\ IsTerminal(rcv'[a]) /\ rcv'[a].got = rcv[a].got
         /\ rcv'[a].file = "null" => rcv[a].file = "null"
         /\ final'.there => final' = part /\ part.there /\ ~Mismatch(a)
<1>0. rcv \in [Attempt -> Receiver] /\ rcv[a] \in Receiver
  BY DEF TypeInv, TypeOK
<1>1. /\ toR' = [toR EXCEPT ![a] = Tail(@)] /\ UNCHANGED snd
      /\ link' = [link EXCEPT ![a] = "down"]
      /\ link[a] # "none" /\ rcv[a].sock = "open" /\ ~IsTerminal(rcv[a]) /\ toR[a] # <<>>
  BY ReadingReceiver DEF FinalizeDownload, FinalizeFails, ReadByReceiver, Hangup
<1>2. ASSUME NEW r, SameDownload(rcv[a], r), r.sock = "closed", IsTerminal(r),
             \A b \in Attempt :
               Keeps(IF b = a THEN r ELSE rcv[b], rcv'[b])
      PROVE  /\ Proceeds(a)
             /\ IsTerminal(rcv'[a]) /\ rcv'[a].got = rcv[a].got
             /\ rcv'[a].file = "null" => rcv[a].file = "null"
  <2>1. Keeps(r, rcv'[a])
    BY <1>2
  <2>2. /\ IsTerminal(rcv'[a]) /\ rcv'[a].got = rcv[a].got /\ rcv'[a].sock = "closed"
        /\ rcv'[a].file = "null" => rcv[a].file = "null"
    BY <1>2, <2>1 DEF SameDownload, IsTerminal, Keeps
  <2>3. ASSUME NEW b \in Attempt, b # a
        PROVE  /\ rcv'[b].sock = rcv[b].sock /\ rcv'[b].state = rcv[b].state
               /\ rcv[b] = NoReceiver => rcv'[b] = NoReceiver
    <3>1. Keeps(rcv[b], rcv'[b])
      BY <1>2, <2>3
    <3> QED
      BY <3>1 DEF NoReceiver, Keeps
  <2>4. ASSUME NEW b \in Attempt
        PROVE  /\ rcv[b].sock = "closed" => rcv'[b].sock = "closed"
               /\ IsTerminal(rcv[b]) => IsTerminal(rcv'[b])
    BY <2>2, <2>3, <2>4 DEF IsTerminal
  <2> QED
    BY <1>1, <2>2, <2>3, <2>4 DEF Proceeds
<1>3. CASE FinalizeDownload(a)
  <2>1. /\ SameDownload(rcv[a], Finalized(rcv[a]))
        /\ Finalized(rcv[a]).sock = "closed" /\ IsTerminal(Finalized(rcv[a]))
    BY <1>0, FinalizedReceiver
  <2>2. rcv' = [b \in Attempt |-> Renamed(IF b = a THEN Finalized(rcv[a]) ELSE rcv[b])]
        /\ final' = part /\ part.there /\ ~Mismatch(a)
    BY <1>3 DEF FinalizeDownload
  <2>3. ASSUME NEW b \in Attempt
        PROVE  Keeps(IF b = a THEN Finalized(rcv[a]) ELSE rcv[b], rcv'[b])
    <3> DEFINE q == IF b = a THEN Finalized(rcv[a]) ELSE rcv[b]
    <3>1. q \in Receiver /\ rcv'[b] = Renamed(q)
      BY <1>0, <2>1, <2>2 DEF SameDownload
    <3> HIDE DEF q
    <3>2. Keeps(q, Renamed(q))
      BY <3>1, RenamedReceiver DEF Keeps, Receiver, Renamed
    <3> QED
      BY <3>1, <3>2 DEF q
  <2> QED
    BY <1>2, <2>1, <2>2, <2>3
<1>4. CASE FinalizeFails(a)
  <2> DEFINE r == Offline(Fail(rcv[a]))
  <2>1. SameDownload(rcv[a], r) /\ r.sock = "closed" /\ IsTerminal(r)
    BY <1>0, FailedReceiver
  <2>2. rcv' = [b \in Attempt |-> Unlinked(IF b = a THEN r ELSE rcv[b], {"final"})]
        /\ ~final'.there
    BY <1>4 DEF FinalizeFails, NoFile
  <2> HIDE DEF r
  <2>3. ASSUME NEW b \in Attempt
        PROVE  Keeps(IF b = a THEN r ELSE rcv[b], rcv'[b])
    <3> DEFINE q == IF b = a THEN r ELSE rcv[b]
    <3>1. q \in Receiver /\ rcv'[b] = Unlinked(q, {"final"})
      BY <1>0, <2>1, <2>2 DEF SameDownload
    <3> HIDE DEF q
    <3>2. Keeps(q, Unlinked(q, {"final"}))
      BY <3>1, UnlinkedReceiver DEF Keeps, Unlinked
    <3> QED
      BY <3>1, <3>2 DEF q
  <2> QED
    BY <1>2, <2>1, <2>2, <2>3
<1> QED
  BY <1>3, <1>4

-----------------------------------------------------------------------------
(* The invariant *)

\* the current Receiver's handle and the .part are one file while both exist
HandleInv ==
  LET r == rcv[snd.attempt]
  IN /\ r.file = "null" => r.got = <<>>
     /\ ~IsTerminal(r) =>
          /\ r.file # "final"
          /\ r.file = "part" => part.there /\ part.data = r.got
          /\ r.file = "unlinked" => ~part.there

\* what is hashed, sent and left to send adds up, and the digest waits for it
DigestInv ==
  snd.sock # "closed" =>
    /\ snd.remaining + snd.pos = Chunks + snd.hashFrom
    /\ snd.finishPending => snd.hashFrom = 0
    /\ snd.waitingForOffsetAck => ~snd.finishPending \/ IsTerminal(snd)
    /\ snd.sock \in {"none", "connecting"} => ~snd.finishPending

\* so every Finish packet carries the digest of the whole file
WholeDigest(q) == \A i \in 1 .. Len(q) : q[i].type = "Finish" => q[i].n = 0

HashInv == DigestInv /\ WholeDigest(toR[snd.attempt])

DownloadInv == TypeInv /\ ConnectionInv /\ HashInv /\ HandleInv

IntegrityInv == DownloadInv /\ FileIntegrity

LEMMA WholeDigestSequences ==
  ASSUME NEW q \in Seq(Packet), WholeDigest(q)
  PROVE  /\ WholeDigest(<<>>)
         /\ \A p \in Packet : (p.type = "Finish" => p.n = 0) => WholeDigest(Append(q, p))
         /\ q # <<>> => WholeDigest(Tail(q))
         /\ \A i \in 0 .. Len(q) : WholeDigest(SubSeq(q, 1, i))
<1>1. WholeDigest(<<>>)
  BY DEF WholeDigest
<1>2. ASSUME NEW p \in Packet, p.type = "Finish" => p.n = 0
      PROVE  WholeDigest(Append(q, p))
  <2> SUFFICES ASSUME NEW i \in 1 .. Len(Append(q, p)), Append(q, p)[i].type = "Finish"
               PROVE  Append(q, p)[i].n = 0
    BY DEF WholeDigest
  <2>1. CASE i = Len(q) + 1
    BY <1>2, <2>1
  <2>2. CASE i \in 1 .. Len(q)
    BY <2>2 DEF WholeDigest
  <2> QED
    BY <2>1, <2>2
<1>3. ASSUME q # <<>> PROVE WholeDigest(Tail(q))
  <2> SUFFICES ASSUME NEW i \in 1 .. Len(Tail(q)), Tail(q)[i].type = "Finish"
               PROVE  Tail(q)[i].n = 0
    BY DEF WholeDigest
  <2>1. Tail(q)[i] = q[i + 1] /\ i + 1 \in 1 .. Len(q)
    BY <1>3
  <2> QED
    BY <2>1 DEF WholeDigest
<1>4. ASSUME NEW i \in 0 .. Len(q) PROVE WholeDigest(SubSeq(q, 1, i))
  <2> SUFFICES ASSUME NEW j \in 1 .. Len(SubSeq(q, 1, i)), SubSeq(q, 1, i)[j].type = "Finish"
               PROVE  SubSeq(q, 1, i)[j].n = 0
    BY DEF WholeDigest
  <2>1. SubSeq(q, 1, i)[j] = q[j] /\ j \in 1 .. Len(q)
    BY <1>4
  <2> QED
    BY <2>1 DEF WholeDigest
<1> QED
  BY <1>1, <1>2, <1>3, <1>4

\* only the Receiver of the current connection still reads
LEMMA CurrentReads ==
  ASSUME TypeInv, ConnectionInv, NEW a \in Attempt,
         rcv[a].sock = "open", ~IsTerminal(rcv[a]), toR[a] # <<>>
  PROVE  a = snd.attempt
<1>1. snd.attempt \in Nat /\ a \in Nat
  BY RetryAssumption DEF TypeInv, TypeOK, Sender, Attempt
<1>2. link[a] # "none"
  BY DEF ConnectionInv, UnusedLinks
<1>3. ~(a > snd.attempt)
  BY <1>2 DEF ConnectionInv, FutureUnused
<1>4. ~(a < snd.attempt)
  BY DEF ConnectionInv, PastDrained, Drained
<1> QED
  BY <1>1, <1>3, <1>4

-----------------------------------------------------------------------------
(* The Receiver's steps *)

LEMMA ProceedingConnection ==
  ASSUME TypeInv, ConnectionInv, HashInv, NEW a \in Attempt, Proceeds(a)
  PROVE  ConnectionInv' /\ HashInv'
<1>0. /\ toR \in [Attempt -> Seq(Packet)] /\ link \in [Attempt -> {"none", "up", "down"}]
      /\ snd' = snd /\ snd.attempt \in Attempt
  BY DEF TypeInv, TypeOK, Sender, Proceeds
<1>1. ASSUME NEW b \in Attempt
      PROVE  /\ link'[b] = "none" <=> link[b] = "none"
             /\ toR[b] = <<>> => toR'[b] = <<>>
             /\ b # a => toR'[b] = toR[b]
             /\ toR'[b] \in {toR[b], Tail(toR[b])} /\ (toR[b] # <<>> \/ toR'[b] = toR[b])
  BY <1>0, <1>1 DEF Proceeds
<1>2. UnusedLinks'
  <2> SUFFICES ASSUME NEW b \in Attempt, link'[b] = "none"
               PROVE  toR'[b] = <<>> /\ rcv'[b] = NoReceiver
    BY DEF UnusedLinks
  <2>1. link[b] = "none" /\ b # a
    BY <1>1 DEF Proceeds
  <2>2. toR[b] = <<>> /\ rcv[b] = NoReceiver
    BY <2>1 DEF ConnectionInv, UnusedLinks
  <2> QED
    BY <1>1, <2>1, <2>2 DEF Proceeds
<1>3. FutureUnused'
  BY <1>0, <1>1 DEF ConnectionInv, FutureUnused
<1>4. PastDrained'
  BY <1>0, <1>1 DEF ConnectionInv, PastDrained, Drained, Proceeds
<1>5. HashInv'
  <2> DEFINE q == toR[snd.attempt]
  <2>1. q \in Seq(Packet) /\ WholeDigest(q)
    BY <1>0 DEF HashInv
  <2>2. toR'[snd.attempt] = q \/ (q # <<>> /\ toR'[snd.attempt] = Tail(q))
    BY <1>0, <1>1
  <2> HIDE DEF q
  <2>3. WholeDigest(toR'[snd.attempt])
    BY <2>1, <2>2, WholeDigestSequences
  <2> QED
    BY <1>0, <2>3 DEF HashInv, DigestInv
<1> QED
  BY <1>2, <1>3, <1>4, <1>5 DEF ConnectionInv

\* a verified download that is finalized is the file
LEMMA VerifiedDownload ==
  ASSUME Verify, TypeInv, ConnectionInv, HashInv, NEW a \in Attempt,
         ReceiverReads(a, "Finish"), ~Mismatch(a)
  PROVE  rcv[a].got = Source
<1>1. a = snd.attempt /\ toR[a] \in Seq(Packet) /\ toR[a] # <<>>
  BY CurrentReads DEF ReceiverReads, TypeInv, TypeOK
<1>2. 1 \in 1 .. Len(toR[a]) /\ Head(toR[a]) = toR[a][1]
  BY <1>1
<1>3. Head(toR[a]).n = 0
  BY <1>1, <1>2 DEF HashInv, WholeDigest, ReceiverReads
<1>4. rcv[a].got = SubSeq(Source, 1, Chunks)
  BY <1>3 DEF Mismatch
<1>5. SubSeq(Source, 1, Chunks) = Source
  BY ChunksAssumption DEF Source
<1> QED
  BY <1>4, <1>5

\* the current Receiver gives the .part its final name, or finds it gone
Finalizes(a) ==
  /\ a = snd.attempt /\ ReceiverReads(a, "Finish") /\ ~Mismatch(a)
  /\ IsTerminal(rcv'[a])
  /\ final'.there => final' = part /\ part.there

LEMMA ReceiverDownload ==
  ASSUME ResumePartial, DownloadInv, NEW a \in Attempt, ReceiverNext(a)
  PROVE  /\ Proceeds(a) /\ ConnectionInv' /\ HashInv' /\ HandleInv'
         /\ final' = final \/ Finalizes(a)
<1> DEFINE now == snd.attempt
<1>0. /\ TypeInv /\ ConnectionInv /\ HashInv /\ HandleInv /\ UnusedLinks
      /\ now \in Attempt
  BY DEF DownloadInv, ConnectionInv, TypeInv, TypeOK, Sender
<1>1. ASSUME Proceeds(a), HandleInv', final' = final \/ Finalizes(a)
      PROVE  /\ Proceeds(a) /\ ConnectionInv' /\ HashInv' /\ HandleInv'
             /\ final' = final \/ Finalizes(a)
  BY <1>0, <1>1, ProceedingConnection
<1>2. ASSUME Proceeds(a)
      PROVE  snd' = snd
  BY <1>2 DEF Proceeds
<1>3. ASSUME Proceeds(a), Rests(a)
      PROVE  HandleInv' /\ final' = final
  BY <1>0, <1>2, <1>3 DEF Rests, SameDownload, HandleInv
<1>4. ASSUME Proceeds(a), Removes(a)
      PROVE  HandleInv' /\ final' = final
  <2>1. final' = final
    BY <1>4 DEF Removes
  <2>2. /\ rcv'[now].got = rcv[now].got
        /\ IsTerminal(rcv[now]) => IsTerminal(rcv'[now])
        /\ \/ part' = part /\ rcv'[now].file = rcv[now].file
           \/ /\ part' = NoFile
              /\ rcv'[now].file = IF rcv[now].file = "part" THEN "unlinked" ELSE rcv[now].file
    BY <1>0, <1>4 DEF Removes
  <2>3. ~NoFile.there
    BY DEF NoFile
  <2>4. HandleInv'
    BY <1>0, <1>2, <1>4, <2>2, <2>3 DEF HandleInv
  <2> QED
    BY <2>1, <2>4
<1>5. CASE \/ Accept(a) \/ RejectBusy(a) \/ ReceiverDisconnected(a)
           \/ ReceiverIdleTimeout(a) \/ ReceiverPause(a) \/ ReceiverResume(a)
  BY <1>0, <1>1, <1>3, <1>5, RestingReceiver
<1>6. CASE \/ WriteError(a) \/ ChecksumFailed(a) \/ ReceiverGetsCancel(a)
           \/ ReceiverCancel(a)
  BY <1>0, <1>1, <1>4, <1>6, RemovingReceiver
<1>7. ASSUME NEW type, ReceiverReads(a, type)
      PROVE  a = now /\ ~IsTerminal(rcv[a])
  BY <1>0, <1>7, CurrentReads DEF ReceiverReads
<1>8. CASE ReceiverGetsHeader(a)
  <2>1. a = now
    BY <1>7, <1>8 DEF ReceiverGetsHeader
  <2>2. /\ Proceeds(a) /\ final' = final /\ rcv'[a].file = "part"
        /\ part'.there /\ part'.data = rcv'[a].got
    BY <1>0, <1>8, HeaderReceiver
  <2> QED
    BY <1>0, <1>1, <1>2, <2>1, <2>2 DEF HandleInv
<1>9. CASE RejectHeader(a)
  <2>1. a = now
    BY <1>7, <1>9 DEF RejectHeader
  <2>2. /\ Proceeds(a) /\ final' = final
        /\ SameDownload(rcv[a], rcv'[a]) /\ IsTerminal(rcv'[a])
    BY <1>0, <1>9, RejectingReceiver
  <2> QED
    BY <1>0, <1>1, <1>2, <2>1, <2>2 DEF HandleInv, SameDownload
<1>10. CASE ReceiverGetsData(a)
  <2>1. a = now /\ ~IsTerminal(rcv[a])
    BY <1>7, <1>10 DEF ReceiverGetsData
  <2>2. /\ rcv[a].file # "final"
        /\ rcv[a].file = "part" => part.there /\ part.data = rcv[a].got
    BY <1>0, <2>1 DEF HandleInv
  <2>3. /\ Proceeds(a) /\ final' = final
        /\ rcv'[a].file = rcv[a].file
        /\ rcv[a].file = "null" => rcv'[a].got = rcv[a].got
        /\ rcv[a].file # "part" => part' = part
        /\ rcv[a].file = "part" => part'.there /\ part'.data = rcv'[a].got
    BY <1>0, <1>10, <2>2, DataReceiver
  <2>4. HandleInv'
    BY <1>0, <1>2, <2>1, <2>2, <2>3 DEF HandleInv
  <2> QED
    BY <1>1, <2>3, <2>4
<1>11. CASE FinalizeDownload(a) \/ FinalizeFails(a)
  <2>1. ReceiverReads(a, "Finish") /\ ~Mismatch(a)
    BY <1>11 DEF FinalizeDownload, FinalizeFails
  <2>2. a = now
    BY <1>7, <2>1
  <2>3. /\ Proceeds(a) /\ IsTerminal(rcv'[a]) /\ rcv'[a].got = rcv[a].got
        /\ rcv'[a].file = "null" => rcv[a].file = "null"
        /\ final'.there => final' = part /\ part.there
    BY <1>0, <1>11, FinalizingReceiver
  <2>4. HandleInv'
    BY <1>0, <1>2, <2>2, <2>3 DEF HandleInv
  <2> QED
    BY <1>1, <2>1, <2>2, <2>3, <2>4 DEF Finalizes
<1> QED
  BY <1>5, <1>6, <1>8, <1>9, <1>10, <1>11 DEF ReceiverNext

-----------------------------------------------------------------------------
(* The Sender's steps *)

\* a step on the current connection leaves all others alone
LEMMA SameConnection ==
  ASSUME TypeInv, ConnectionInv, UNCHANGED <<rcv, part, final>>,
         snd' \in Sender, snd'.attempt = snd.attempt,
         snd'.sock \in {"none", "connecting"} =>
           snd.sock \in {"none", "connecting"} /\ link' = link,
         \/ link' = link
         \/ \E l \in {"up", "down"} : link' = [link EXCEPT ![snd.attempt] = l],
         \/ toR' = toR
         \/ /\ link'[snd.attempt] # "none"
            /\ \E q \in Seq(Packet) : toR' = [toR EXCEPT ![snd.attempt] = q]
  PROVE  ConnectionInv'
<1>0. /\ toR \in [Attempt -> Seq(Packet)] /\ link \in [Attempt -> {"none", "up", "down"}]
      /\ snd.attempt \in Attempt
  BY DEF TypeInv, TypeOK, Sender
<1>1. ASSUME NEW b \in Attempt
      PROVE  /\ link'[b] = "none" => link[b] = "none" /\ toR'[b] = toR[b]
             /\ b # snd.attempt => link'[b] = link[b] /\ toR'[b] = toR[b]
  BY <1>0, <1>1
<1>2. UnusedLinks'
  BY <1>1 DEF ConnectionInv, UnusedLinks
<1>3. snd.attempt \in Nat /\ \A b \in Attempt : b \in Nat
  BY <1>0, RetryAssumption DEF Attempt
<1>4. FutureUnused'
  BY <1>0, <1>1, <1>3 DEF ConnectionInv, FutureUnused
<1>5. PastDrained'
  BY <1>1, <1>3 DEF ConnectionInv, PastDrained, Drained
<1> QED
  BY <1>2, <1>4, <1>5 DEF ConnectionInv

\* the Sender does not touch files or downloads
LEMMA SameDownloads ==
  ASSUME HandleInv, UNCHANGED <<rcv, part, final>>, snd'.attempt = snd.attempt
  PROVE  HandleInv'
  BY DEF HandleInv

\* what may be posted on the current connection without harm
LEMMA KeptConnection ==
  ASSUME DownloadInv, KeepsConnection, DigestInv',
         \/ toR' = toR
         \/ \E p \in Packet : Writes(p) /\ (p.type = "Finish" => p.n = 0)
  PROVE  ConnectionInv' /\ HashInv' /\ HandleInv'
<1> DEFINE q == toR[snd.attempt]
<1>0. /\ TypeInv /\ ConnectionInv /\ HashInv /\ HandleInv
      /\ toR \in [Attempt -> Seq(Packet)] /\ link \in [Attempt -> {"none", "up", "down"}]
      /\ snd.attempt \in Attempt
  BY DEF DownloadInv, TypeInv, TypeOK, Sender
<1>1. q \in Seq(Packet) /\ WholeDigest(q)
  BY <1>0 DEF HashInv
<1>2. toR' = toR \/ \E p \in Packet : /\ p.type = "Finish" => p.n = 0
                                      /\ link[snd.attempt] = "up"
                                      /\ toR' = [toR EXCEPT ![snd.attempt] = Append(q, p)]
  BY DEF Writes, Post
<1> HIDE DEF q
<1>3. WholeDigest(toR'[snd.attempt])
  <2>1. CASE toR' = toR
    BY <1>1, <2>1 DEF q
  <2>2. ASSUME NEW p \in Packet, p.type = "Finish" => p.n = 0,
               toR' = [toR EXCEPT ![snd.attempt] = Append(q, p)]
        PROVE  WholeDigest(toR'[snd.attempt])
    <3>1. toR'[snd.attempt] = Append(q, p)
      BY <1>0, <2>2
    <3> QED
      BY <1>1, <2>2, <3>1, WholeDigestSequences
  <2> QED
    BY <1>2, <2>1, <2>2
<1>4. toR' = toR \/ (/\ link'[snd.attempt] # "none"
                    /\ \E r \in Seq(Packet) : toR' = [toR EXCEPT ![snd.attempt] = r])
  <2>1. link[snd.attempt] = "up" => link'[snd.attempt] # "none"
    BY <1>0 DEF KeepsConnection
  <2>2. \A p \in Packet : Append(q, p) \in Seq(Packet)
    BY <1>1
  <2> QED
    BY <1>2, <2>1, <2>2
<1>5. ConnectionInv'
  BY <1>0, <1>4, SameConnection DEF KeepsConnection
<1>6. HandleInv'
  BY <1>0, SameDownloads DEF KeepsConnection
<1>7. HashInv'
  BY <1>3 DEF HashInv, KeepsConnection
<1> QED
  BY <1>5, <1>6, <1>7

\* start(), onConnected() and onEncrypted()
LEMMA ConnectingDownload ==
  ASSUME DownloadInv, Start \/ SenderConnected \/ SenderEncrypted
  PROVE  ConnectionInv' /\ HashInv' /\ HandleInv'
<1> DEFINE q == toR[snd.attempt]
           header == Packet0("Header")
<1>0. /\ TypeInv /\ ConnectionInv /\ HashInv /\ HandleInv
      /\ toR \in [Attempt -> Seq(Packet)] /\ link \in [Attempt -> {"none", "up", "down"}]
      /\ snd \in Sender /\ snd.attempt \in Attempt
  BY DEF DownloadInv, TypeInv, TypeOK, Sender
<1>1. /\ snd' \in Sender /\ snd'.attempt = snd.attempt
      /\ snd'.remaining = snd.remaining /\ snd'.pos = snd.pos
      /\ snd'.hashFrom = snd.hashFrom
      /\ snd'.finishPending => snd.finishPending
      /\ snd.sock = "handshake" => ~snd'.finishPending \/ IsTerminal(snd')
      /\ snd'.sock \in {"connecting", "handshake", "open"}
  BY <1>0, ConnectingSender
<1>2. /\ UNCHANGED <<rcv, part, final>> /\ snd.sock \in {"none", "connecting", "handshake"}
      /\ \/ Start /\ snd.sock = "none" /\ link' = link /\ toR' = toR
         \/ /\ snd.sock = "connecting" /\ link' = [link EXCEPT ![snd.attempt] = "up"]
            /\ toR' \in {toR, [toR EXCEPT ![snd.attempt] = Append(q, header)]}
         \/ /\ snd.sock = "handshake" /\ link' = link /\ link[snd.attempt] = "up"
            /\ \/ toR' = [toR EXCEPT ![snd.attempt] = Append(q, header)]
               \/ /\ snd.finishPending
                  /\ toR' = [toR EXCEPT ![snd.attempt] = q \o <<header, FinishPacket(snd)>>]
  BY DEF Start, SenderConnected, SenderEncrypted
<1>3. Start \/ snd'.sock \in {"handshake", "open"}
  <2>1. CASE SenderConnected /\ TLS
    <3>1. snd' = [snd EXCEPT !.sock = "handshake"]
      BY <2>1 DEF SenderConnected
    <3> QED
      BY <1>0, <3>1 DEF Sender
  <2>2. CASE (SenderConnected /\ ~TLS) \/ SenderEncrypted
    <3> DEFINE t == [snd EXCEPT !.sock = "open"]
               u == SetState(t, "Transfering")
               v == SendHeader(u)
               w == [v EXCEPT !.finishPending = FALSE, !.finishing = TRUE]
    <3>1. t \in Sender /\ t.sock = "open" /\ "Transfering" \in TransferState
      BY <1>0 DEF Sender, TransferState
    <3>2. snd' \in {v, CompleteUpload(w)}
      BY <2>2 DEF SenderConnected, SenderEncrypted
    <3> HIDE DEF t
    <3>3. u \in Sender /\ u.sock = "open"
      BY <3>1, SetStateSender DEF Steady
    <3> HIDE DEF u
    <3>4. v \in Sender /\ v.sock = "open"
      BY <3>3, SendHeaderSender
    <3> HIDE DEF v
    <3>5. w \in Sender /\ w.sock = "open"
      BY <3>4 DEF Sender
    <3> HIDE DEF w
    <3>6. CompleteUpload(w).sock = "open"
      BY <3>5, CompleteUploadSender
    <3> QED
      BY <3>2, <3>4, <3>6
  <2> QED
    BY <2>1, <2>2
<1>4. header \in Packet /\ header.type # "Finish" /\ FinishPacket(snd) \in Packet
      /\ FinishPacket(snd).n = snd.hashFrom
  BY <1>0, PacketTypes, ChunksAssumption
     DEF Packet0, PacketKind, FinishPacket, Packet, Chunk, Sender
<1>5. q \in Seq(Packet) /\ WholeDigest(q)
  BY <1>0 DEF HashInv
<1>6. Append(q, header) \in Seq(Packet) /\ WholeDigest(Append(q, header))
  BY <1>4, <1>5, WholeDigestSequences
<1>7. ASSUME snd.sock = "handshake", snd.finishPending
      PROVE  LET r == q \o <<header, FinishPacket(snd)>>
             IN r \in Seq(Packet) /\ WholeDigest(r)
  <2>1. FinishPacket(snd).n = 0
    BY <1>0, <1>4, <1>7 DEF HashInv, DigestInv
  <2> DEFINE p == FinishPacket(snd)
             r == Append(q, header)
  <2>2. q \o <<header, p>> = Append(r, p)
    BY <1>4, <1>5
  <2>3. r \in Seq(Packet) /\ WholeDigest(r) /\ p \in Packet /\ p.n = 0
    BY <1>4, <1>6, <2>1
  <2> HIDE DEF p, r
  <2>4. Append(r, p) \in Seq(Packet) /\ WholeDigest(Append(r, p))
    BY <2>3, WholeDigestSequences
  <2> QED
    BY <2>2, <2>4 DEF p
<1> HIDE DEF q, header
<1>8. toR' = toR \/ \E r \in Seq(Packet) :
        WholeDigest(r) /\ toR' = [toR EXCEPT ![snd.attempt] = r] /\ link'[snd.attempt] = "up"
  BY <1>0, <1>2, <1>6, <1>7
<1>9. WholeDigest(toR'[snd.attempt])
  BY <1>0, <1>5, <1>8 DEF q
<1>10. DigestInv'
  <2>1. snd.sock # "closed"
    BY <1>2
  <2>2. /\ snd.remaining + snd.pos = Chunks + snd.hashFrom
        /\ snd.finishPending => snd.hashFrom = 0
        /\ snd.sock \in {"none", "connecting"} => ~snd.finishPending
    BY <1>0, <2>1 DEF HashInv, DigestInv
  <2>3. snd'.sock \in {"none", "connecting"} => ~snd'.finishPending
    BY <1>1, <1>2, <1>3, <2>2 DEF Start
  <2> QED
    BY <1>1, <1>2, <2>2, <2>3 DEF DigestInv
<1>11. ConnectionInv'
  <2>1. snd'.sock \in {"none", "connecting"} =>
          snd.sock \in {"none", "connecting"} /\ link' = link
    BY <1>3 DEF Start
  <2>2. link' = link \/ \E l \in {"up", "down"} : link' = [link EXCEPT ![snd.attempt] = l]
    BY <1>2
  <2>3. \/ toR' = toR
        \/ /\ link'[snd.attempt] # "none"
           /\ \E r \in Seq(Packet) : toR' = [toR EXCEPT ![snd.attempt] = r]
    BY <1>8
  <2> QED
    BY <1>0, <1>1, <1>2, <2>1, <2>2, <2>3, SameConnection
<1> QED
  BY <1>0, <1>1, <1>2, <1>9, <1>10, <1>11, SameDownloads DEF HashInv

\* retryConnect() starts anew on a connection that nobody has used
LEMMA ReconnectingDownload ==
  ASSUME DownloadInv, Reconnects
  PROVE  ConnectionInv' /\ HashInv' /\ HandleInv'
<1> DEFINE now == snd.attempt
           next == snd.attempt + 1
<1>0. /\ TypeInv /\ ConnectionInv
      /\ link \in [Attempt -> {"none", "up", "down"}]
      /\ snd \in Sender /\ now \in Attempt
  BY DEF DownloadInv, TypeInv, TypeOK, Sender
<1>1. /\ now \in Nat /\ next \in Attempt /\ next > now
      /\ \A b \in Attempt : b \in Nat /\ (b < next => b < now \/ b = now)
                             /\ (b > next => b > now)
  BY <1>0, RetryAssumption DEF Reconnects, Attempt
<1>2. /\ snd'.attempt = next /\ snd'.sock = "connecting"
      /\ snd'.remaining = Chunks /\ snd'.pos = 0 /\ snd'.hashFrom = 0
      /\ ~snd'.waitingForOffsetAck /\ ~snd'.finishPending
      /\ link' = [link EXCEPT ![now] = "down"] /\ Drained(now)
      /\ UNCHANGED <<rcv, toR, part, final>>
  BY DEF Reconnects
<1> HIDE DEF now, next
<1>3. \A b \in Attempt : link'[b] = IF b = now THEN "down" ELSE link[b]
  BY <1>0, <1>2
<1>4. link[next] = "none" /\ toR[next] = <<>> /\ rcv[next] = NoReceiver
  BY <1>0, <1>1 DEF ConnectionInv, FutureUnused, UnusedLinks, now
<1>5. UnusedLinks'
  BY <1>0, <1>2, <1>3 DEF ConnectionInv, UnusedLinks
<1>6. FutureUnused'
  <2>1. \A b \in Attempt : b > next => link'[b] = "none"
    BY <1>0, <1>1, <1>3 DEF ConnectionInv, FutureUnused, now
  <2>2. link'[next] = "none"
    BY <1>1, <1>3, <1>4
  <2> QED
    BY <1>2, <2>1, <2>2 DEF FutureUnused
<1>7. PastDrained'
  BY <1>0, <1>1, <1>2 DEF ConnectionInv, PastDrained, Drained, now
<1>8. HashInv'
  <2>1. WholeDigest(toR'[next])
    BY <1>2, <1>4 DEF WholeDigest
  <2> QED
    BY <1>2, <2>1, ChunksAssumption DEF HashInv, DigestInv
<1>9. HandleInv'
  BY <1>0, <1>2, <1>4 DEF HandleInv, NoReceiver
<1> QED
  BY <1>5, <1>6, <1>7, <1>8, <1>9 DEF ConnectionInv

LEMMA SenderDownload ==
  ASSUME DownloadInv, SenderNext
  PROVE  ConnectionInv' /\ HashInv' /\ HandleInv'
<1>0. /\ TypeInv /\ snd \in Sender /\ DigestInv
      /\ snd.remaining \in 0 .. Chunks /\ snd.pos \in 0 .. Chunks
      /\ snd.hashFrom \in 0 .. Chunks
  BY DEF DownloadInv, HashInv, TypeInv, TypeOK, Sender
<1>1. ASSUME Listens
      PROVE  ConnectionInv' /\ HashInv' /\ HandleInv'
  <2>1. DigestInv'
    BY <1>0, <1>1 DEF Listens, KeepsConnection, DigestInv
  <2> QED
    BY <1>1, <2>1, KeptConnection DEF Listens
<1>2. ASSUME NEW offset \in 0 .. Chunks, Learns(offset)
      PROVE  ConnectionInv' /\ HashInv' /\ HandleInv'
  <2>1. DigestInv'
    <3>1. CASE snd.cancelled \/ IsTerminal(snd)
      BY <1>0, <1>2, <3>1 DEF Learns, KeepsConnection, DigestInv
    <3>2. CASE ~(snd.cancelled \/ IsTerminal(snd))
      BY <1>0, <1>2, <3>2, ChunksAssumption DEF Learns, KeepsConnection, DigestInv
    <3> QED
      BY <3>1, <3>2
  <2> QED
    BY <1>2, <2>1, KeptConnection DEF Learns
<1>3. ASSUME SendsChunk
      PROVE  ConnectionInv' /\ HashInv' /\ HandleInv'
  <2> DEFINE p == [type |-> "Data", n |-> snd.pos + 1]
  <2>1. p \in Packet /\ p.type # "Finish"
    <3>1. snd.pos + 1 \in Chunk
      BY <1>0, <1>3, ChunksAssumption DEF SendsChunk, Chunk
    <3> QED
      BY <3>1, PacketTypes
  <2>2. DigestInv'
    <3>1. snd.sock \in {"handshake", "open"} /\ snd'.sock = snd.sock
      BY <1>3 DEF SendsChunk, MaySend, Connected
    <3>2. snd'.remaining + snd'.pos = Chunks + snd'.hashFrom
      BY <1>0, <1>3, <3>1, ChunksAssumption DEF SendsChunk, DigestInv
    <3>3. snd'.finishPending => snd'.hashFrom = 0
      <4>1. CASE snd.remaining = 1
        BY <1>0, <1>3, <3>1, <4>1, ChunksAssumption DEF SendsChunk, DigestInv
      <4>2. CASE snd.remaining # 1
        BY <1>0, <1>3, <3>1, <4>2 DEF SendsChunk, DigestInv
      <4> QED
        BY <4>1, <4>2
    <3> QED
      BY <1>3, <3>1, <3>2, <3>3 DEF SendsChunk, DigestInv
  <2> HIDE DEF p
  <2>3. KeepsConnection /\ Writes(p)
    BY <1>3 DEF SendsChunk, p
  <2> QED
    BY <2>1, <2>2, <2>3, KeptConnection
<1>4. ASSUME SendsFinish
      PROVE  ConnectionInv' /\ HashInv' /\ HandleInv'
  <2>1. snd.hashFrom = 0
    BY <1>0, <1>4 DEF SendsFinish, DigestInv
  <2>2. FinishPacket(snd) \in Packet /\ FinishPacket(snd).n = 0
    BY <2>1, ChunksAssumption DEF FinishPacket, Packet, PacketKind, Chunk
  <2>3. DigestInv'
    BY <1>0, <1>4 DEF SendsFinish, DigestInv
  <2> QED
    BY <1>4, <2>2, <2>3, KeptConnection DEF SendsFinish
<1>5. ASSUME SendsCancel
      PROVE  ConnectionInv' /\ HashInv' /\ HandleInv'
  <2>1. Packet0("Cancel") \in Packet /\ Packet0("Cancel").type # "Finish"
    BY PacketTypes DEF Packet0, PacketKind
  <2>2. DigestInv'
    BY <1>0, <1>5 DEF SendsCancel, DigestInv
  <2> QED
    BY <1>5, <2>1, <2>2, KeptConnection DEF SendsCancel
<1>6. CASE SendData
  BY <1>0, <1>1, <1>3, <1>6, DataSender
<1>7. CASE BytesWritten
  BY <1>0, <1>1, <1>4, <1>7, FinishSender
<1>8. CASE SenderCancel
  BY <1>0, <1>5, <1>8, CancelSender
<1>9. CASE RetryTimer
  BY <1>0, <1>1, <1>9, RetrySender, ReconnectingDownload
<1>10. CASE SenderGetsOffsetAck
  <2>1. SenderReads("OffsetAck") /\ (Listens \/ Learns(Head(toS[snd.attempt]).n))
    BY <1>0, <1>10, OffsetSender
  <2>2. toS[snd.attempt] \in Seq(Packet) /\ toS[snd.attempt] # <<>>
    BY <1>0, <2>1 DEF TypeInv, TypeOK, Sender, SenderReads
  <2>3. Head(toS[snd.attempt]) \in Packet
    BY <2>2
  <2>4. Head(toS[snd.attempt]).n \in 0 .. Chunks
    BY <2>3 DEF Packet, Chunk
  <2> QED
    BY <1>1, <1>2, <2>1, <2>4
<1>11. CASE OffsetAckTimeout
  <2>1. Learns(0) /\ 0 \in 0 .. Chunks
    BY <1>0, <1>11, TimeoutSender, ChunksAssumption
  <2> QED
    BY <1>2, <2>1
<1>12. CASE Start \/ SenderConnected \/ SenderEncrypted
  BY <1>12, ConnectingDownload
<1>13. CASE \/ ConnectionRefused \/ PinMismatch
            \/ SenderGetsFinishAck \/ SenderGetsBusy \/ SenderGetsCancel
            \/ SenderGetsPause \/ SenderGetsResume
            \/ ReadError \/ SenderDisconnected \/ SenderIdleTimeout
            \/ SenderPause \/ SenderResume
  BY <1>0, <1>1, <1>13, QuietSender
<1> QED
  BY <1>6, <1>7, <1>8, <1>9, <1>10, <1>11, <1>12, <1>13 DEF SenderNext

-----------------------------------------------------------------------------
(* Integrity *)

LEMMA BreakDownload ==
  ASSUME DownloadInv, NEW a \in Attempt, Break(a)
  PROVE  ConnectionInv' /\ HashInv' /\ HandleInv'
<1>0. /\ TypeInv /\ ConnectionInv /\ HashInv /\ HandleInv
      /\ toR \in [Attempt -> Seq(Packet)] /\ link \in [Attempt -> {"none", "up", "down"}]
      /\ snd.attempt \in Attempt
  BY DEF DownloadInv, TypeInv, TypeOK, Sender
<1>1. /\ link[a] # "none" /\ link' = [link EXCEPT ![a] = "down"]
      /\ UNCHANGED <<snd, rcv, part, final>>
  BY DEF Break, Hangup
<1>2. PICK i \in 0 .. Len(toR[a]) : toR' = [toR EXCEPT ![a] = SubSeq(@, 1, i)]
  BY DEF Break
<1>3. toR[a] = <<>> => SubSeq(toR[a], 1, i) = <<>>
  BY <1>2
<1>4. ASSUME NEW b \in Attempt
      PROVE  /\ link'[b] = "none" <=> link[b] = "none"
             /\ toR[b] = <<>> => toR'[b] = <<>>
  BY <1>0, <1>1, <1>2, <1>3, <1>4
<1>5. ConnectionInv'
  BY <1>0, <1>1, <1>4 DEF ConnectionInv, UnusedLinks, FutureUnused, PastDrained, Drained
<1>6. WholeDigest(toR'[snd.attempt])
  <2> DEFINE q == toR[snd.attempt]
  <2>1. q \in Seq(Packet) /\ WholeDigest(q)
    BY <1>0 DEF HashInv
  <2>2. toR'[snd.attempt] = q \/ (a = snd.attempt /\ toR'[snd.attempt] = SubSeq(q, 1, i))
    BY <1>0, <1>2
  <2>3. a = snd.attempt => i \in 0 .. Len(q)
    BY <1>2
  <2> HIDE DEF q
  <2> QED
    BY <2>1, <2>2, <2>3, WholeDigestSequences
<1> QED
  BY <1>0, <1>1, <1>5, <1>6 DEF HashInv, DigestInv, HandleInv

LEMMA InitIntegrity == Init => IntegrityInv
<1> SUFFICES ASSUME Init PROVE IntegrityInv
  OBVIOUS
<1>1. TypeInv
  BY InitType
<1>2. snd \in Sender /\ snd.attempt \in Attempt
  BY <1>1 DEF TypeInv, TypeOK, Sender
<1>3. snd.attempt = 0 /\ snd.sock = "none" /\ snd.remaining = Chunks /\ snd.pos = 0
      /\ snd.hashFrom = 0 /\ ~snd.finishPending
  <2>1. NewSender \in Sender
    BY ChunksAssumption, RetryAssumption DEF NewSender, Sender, TransferState, Attempt
  <2>2. Steady(NewSender, SetState(NewSender, "Queued"))
    BY <2>1, SetStateSender DEF TransferState
  <2> QED
    BY <2>2 DEF Init, Steady, SameStream, NewSender
<1>4. \A a \in Attempt : link[a] = "none" /\ toR[a] = <<>> /\ rcv[a] = NoReceiver
  BY DEF Init
<1>5. ConnectionInv
  BY <1>2, <1>4 DEF ConnectionInv, UnusedLinks, FutureUnused, PastDrained, Drained
<1>6. HashInv
  BY <1>2, <1>3, <1>4, ChunksAssumption DEF HashInv, DigestInv, WholeDigest
<1>7. HandleInv
  BY <1>2, <1>4 DEF HandleInv, NoReceiver
<1>8. FileIntegrity
  BY DEF Init, FileIntegrity, NoFile
<1> QED
  BY <1>1, <1>5, <1>6, <1>7, <1>8 DEF IntegrityInv, DownloadInv

LEMMA NextDownload ==
  ASSUME ResumePartial, DownloadInv, [Next]_vars
  PROVE  /\ DownloadInv'
         /\ final' = final \/ \E a \in Attempt : ReceiverNext(a) /\ Finalizes(a)
<1>0. TypeInv /\ TypeInv'
  BY NextType DEF DownloadInv
<1>1. CASE SenderNext
  <2>1. UNCHANGED final
    BY <1>1 DEF SenderNext, Start, SenderConnected, ConnectionRefused, SenderEncrypted,
                PinMismatch, SenderGetsOffsetAck, SenderGetsFinishAck, SenderGetsBusy,
                SenderGetsCancel, SenderGetsPause, SenderGetsResume, SendData, ReadError,
                BytesWritten, SenderDisconnected, OffsetAckTimeout, RetryTimer,
                SenderIdleTimeout, SenderPause, SenderResume, SenderCancel
  <2> QED
    BY <1>0, <1>1, <2>1, SenderDownload DEF DownloadInv
<1>2. ASSUME NEW a \in Attempt, ReceiverNext(a)
      PROVE  DownloadInv' /\ (final' = final \/ Finalizes(a))
  BY <1>0, <1>2, ReceiverDownload DEF DownloadInv
<1>3. ASSUME NEW a \in Attempt, Break(a)
      PROVE  DownloadInv' /\ final' = final
  BY <1>0, <1>3, BreakDownload DEF DownloadInv, Break
<1>4. CASE UNCHANGED vars
  BY <1>0, <1>4
     DEF vars, DownloadInv, ConnectionInv, UnusedLinks, FutureUnused, PastDrained,
         Drained, HashInv, DigestInv, WholeDigest, HandleInv
<1> QED
  BY <1>1, <1>2, <1>3, <1>4 DEF Next

LEMMA NextIntegrity ==
  ASSUME Verify, ResumePartial, IntegrityInv, [Next]_vars
  PROVE  IntegrityInv'
<1>1. DownloadInv' /\ TypeInv /\ ConnectionInv /\ HashInv /\ HandleInv
  BY NextDownload DEF IntegrityInv, DownloadInv
<1>2. ASSUME NEW a \in Attempt, Finalizes(a), final'.there
      PROVE  final'.data = Source
  <2>1. rcv[a].got = Source /\ ~IsTerminal(rcv[a]) /\ a = snd.attempt
    BY <1>1, <1>2, VerifiedDownload DEF Finalizes, ReceiverReads
  <2>2. rcv[a].file \in {"null", "part", "final", "unlinked"}
    BY <1>1 DEF TypeInv, TypeOK, Receiver
  <2>3. Len(Source) = Chunks /\ Chunks # 0
    BY ChunksAssumption DEF Source
  <2> QED
    BY <1>1, <1>2, <2>1, <2>2, <2>3 DEF Finalizes, HandleInv
<1> QED
  <2>1. CASE final' = final
    BY <1>1, <2>1 DEF IntegrityInv, FileIntegrity
  <2>2. CASE \E a \in Attempt : ReceiverNext(a) /\ Finalizes(a)
    BY <1>1, <1>2, <2>2 DEF IntegrityInv, FileIntegrity
  <2>3. DownloadInv
    BY DEF IntegrityInv
  <2> QED
    BY <2>1, <2>2, <2>3, NextDownload

(***************************************************************************)
(* With VerifyChecksum, a file that finalizeDownload() has given its name  *)
(* is the sender's: for every size, however often connections break and    *)
(* are retried, whatever .part was there before, and whatever both users,  *)
(* their disks and late OffsetAcks do meanwhile.                           *)
(***************************************************************************)
THEOREM VerifiedFileIntegrity ==
  ASSUME Verify, ResumePartial
  PROVE  Spec => []FileIntegrity
<1>1. IntegrityInv /\ [Next]_vars => IntegrityInv'
  BY NextIntegrity
<1>2. IntegrityInv => FileIntegrity
  BY DEF IntegrityInv
<1> QED
  BY <1>1, <1>2, InitIntegrity, PTL DEF Spec

-----------------------------------------------------------------------------
(* The digest: for every set of events, checksums or not                   *)

(***************************************************************************)
(* What is hashed, sent and left to send adds up on lost connections too,  *)
(* where a late OffsetAckTimeout may still move the file.                  *)
(***************************************************************************)
DigestAddsUp ==
  /\ snd.remaining + snd.pos = Chunks + snd.hashFrom
  /\ DigestIsWhole
  /\ snd.waitingForOffsetAck => ~snd.finishPending \/ IsTerminal(snd)
  /\ snd.sock \in {"none", "connecting"} => ~snd.finishPending

\* t stays where s is in the file, and starts nothing
SameDigest(s, t) ==
  /\ t.remaining = s.remaining /\ t.pos = s.pos /\ t.hashFrom = s.hashFrom
  /\ t.finishPending => s.finishPending
  /\ t.waitingForOffsetAck => s.waitingForOffsetAck
  /\ IsTerminal(s) => IsTerminal(t)

LEMMA OnDisconnectedDigest ==
  ASSUME NEW s \in Sender
  PROVE  SameDigest(s, OnDisconnected(s))
<1> DEFINE idle == [s EXCEPT !.idleArmed = FALSE]
           waiting == SetState(idle, "Waiting")
<1>1. idle \in Sender /\ SameStream(s, idle) /\ idle.state = s.state
  BY DEF Sender, SameStream
<1>2. Steady(idle, waiting)
  <2>1. "Waiting" \in TransferState
    BY DEF TransferState
  <2> HIDE DEF idle
  <2> QED
    BY <1>1, <2>1, SetStateSender
<1>3. SameStream(waiting, ScheduleRetry(waiting)) /\ ScheduleRetry(waiting).state = waiting.state
  <2> HIDE DEF waiting
  <2> QED
    BY <1>2, ScheduleRetrySender DEF Steady
<1>4. Steady(idle, Fail(idle))
  <2> HIDE DEF idle
  <2> QED
    BY <1>1, FailSender
<1>5. \/ OnDisconnected(s) = s
      \/ OnDisconnected(s) = CompleteUpload(s)
      \/ OnDisconnected(s) = ScheduleRetry(waiting)
      \/ OnDisconnected(s) = Fail(idle)
  BY DEF OnDisconnected
<1> HIDE DEF idle, waiting
<1>6. SameDigest(s, CompleteUpload(s))
  BY CompleteUploadSender DEF SameDigest
<1>7. SameDigest(s, ScheduleRetry(waiting))
  BY <1>1, <1>2, <1>3 DEF SameDigest, Steady, SameStream, IsTerminal
<1>8. SameDigest(s, Fail(idle))
  BY <1>1, <1>4 DEF SameDigest, Steady, SameStream, IsTerminal
<1> QED
  BY <1>5, <1>6, <1>7, <1>8 DEF SameDigest

\* the quiet actions that give the connection up
Closers ==
  \/ ConnectionRefused \/ PinMismatch \/ SenderGetsBusy
  \/ SenderGetsCancel \/ SenderDisconnected \/ SenderIdleTimeout

LEMMA ClosingSender ==
  ASSUME TypeInv, snd'.sock # snd.sock,
         \/ ConnectionRefused \/ PinMismatch
         \/ SenderGetsFinishAck \/ SenderGetsBusy \/ SenderGetsCancel
         \/ SenderGetsPause \/ SenderGetsResume
         \/ ReadError \/ SenderDisconnected \/ SenderIdleTimeout
         \/ SenderPause \/ SenderResume
  PROVE  Closers
<1>0. snd \in Sender
  BY DEF TypeInv, TypeOK
<1>1. CASE SenderGetsFinishAck
  <2>1. CompleteUpload(snd) \in Sender /\ CompleteUpload(snd).sock = snd.sock
    BY <1>0, CompleteUploadSender
  <2> QED
    BY <1>1, <2>1, TouchSender DEF SenderGetsFinishAck, Steady
<1>2. CASE SenderGetsPause
  <2>1. [snd EXCEPT !.pausedByReceiver = TRUE] \in Sender
        /\ [snd EXCEPT !.pausedByReceiver = TRUE].sock = snd.sock
    BY <1>0 DEF Sender
  <2> QED
    BY <1>2, <2>1, TouchSender DEF SenderGetsPause, Steady
<1>3. CASE SenderGetsResume
  <2> DEFINE t == [snd EXCEPT !.pausedByReceiver = FALSE]
  <2>1. t \in Sender /\ t.sock = snd.sock
    BY <1>0 DEF Sender
  <2>2. snd' = Touch(ScheduleSend(t)) BY <1>3 DEF SenderGetsResume
  <2> HIDE DEF t
  <2>3. ScheduleSend(t) \in Sender /\ ScheduleSend(t).sock = snd.sock
    BY <2>1, ScheduleSendSender
  <2> QED
    BY <2>2, <2>3, TouchSender DEF Steady
<1>4. CASE ReadError
  <2>1. [snd EXCEPT !.sendScheduled = FALSE] \in Sender
        /\ [snd EXCEPT !.sendScheduled = FALSE].sock = snd.sock
    BY <1>0 DEF Sender
  <2> QED
    BY <1>4, <2>1, FailSender DEF ReadError, Steady
<1>5. CASE SenderPause
  <2> DEFINE t == SetState(snd, "Paused")
  <2>1. t \in Sender /\ t.sock = snd.sock
    BY <1>0, SetStateSender DEF Steady, TransferState
  <2>2. snd' = [t EXCEPT !.paused = TRUE] BY <1>5 DEF SenderPause
  <2> HIDE DEF t
  <2> QED
    BY <2>1, <2>2 DEF Sender
<1>6. CASE SenderResume
  <2> DEFINE t == SetState(snd, snd.last)
             u == [t EXCEPT !.paused = FALSE]
  <2>1. t \in Sender /\ t.sock = snd.sock
    <3>1. snd.last \in TransferState BY <1>0 DEF Sender
    <3> QED BY <1>0, <3>1, SetStateSender DEF Steady
  <2>2. snd' = ScheduleSend(u) BY <1>6 DEF SenderResume
  <2> HIDE DEF t
  <2>3. u \in Sender /\ u.sock = snd.sock BY <2>1 DEF Sender
  <2> HIDE DEF u
  <2> QED
    BY <2>2, <2>3, ScheduleSendSender
<1> QED
  BY <1>1, <1>2, <1>3, <1>4, <1>5, <1>6 DEF Closers

\* a connection that is given up takes nothing of the digest with it
LEMMA ClosingDigest ==
  ASSUME TypeInv, snd'.sock # snd.sock, Closers
  PROVE  SameDigest(snd, snd')
<1>0. snd \in Sender
  BY DEF TypeInv, TypeOK
<1>1. CASE ConnectionRefused
  BY <1>0, <1>1 DEF ConnectionRefused, Sender, SameDigest, IsTerminal
<1>2. ASSUME NEW t \in Sender, SameDigest(snd, t), snd' = Closed(Fail(t)) \/ snd' = Touch(Closed(Fail(t)))
      PROVE  SameDigest(snd, snd')
  <2>1. Steady(t, Fail(t)) BY FailSender
  <2> DEFINE c == Closed(Fail(t))
  <2>2. /\ c \in Sender /\ SameStream(Fail(t), c) /\ c.state = Fail(t).state
    BY <2>1, ClosedSender DEF Steady
  <2>3. snd' = c \/ snd' = Touch(c) BY <1>2
  <2> HIDE DEF c
  <2>4. Steady(c, Touch(c)) BY <2>2, TouchSender
  <2> QED
    BY <1>2, <2>1, <2>2, <2>3, <2>4 DEF SameDigest, Steady, SameStream, IsTerminal
<1>3. CASE PinMismatch
  <2>1. SameDigest(snd, snd) BY DEF SameDigest
  <2> QED
    BY <1>0, <1>2, <1>3, <2>1 DEF PinMismatch
<1>4. CASE SenderGetsBusy
  <2> DEFINE heard == [snd EXCEPT !.waitingForOffsetAck = FALSE]
             c == Closed(heard)
             gone == OnDisconnected(c)
             again == ScheduleRetry(gone)
             armed == IdleOn /\ ~snd.unsent
  <2>1. \/ snd' = Touch(snd)
        \/ snd' = [again EXCEPT !.idleArmed = armed]
        \/ snd' = Touch(Closed(Fail(heard)))
    BY <1>4 DEF SenderGetsBusy
  <2>2. heard \in Sender /\ SameDigest(snd, heard)
    BY <1>0 DEF Sender, SameDigest, IsTerminal
  <2>3. snd' # Touch(snd)
    BY <1>0, TouchSender DEF Steady
  <2> HIDE DEF heard
  <2>4. c \in Sender /\ SameDigest(heard, c)
    BY <2>2, ClosedSender DEF SameDigest, SameStream, IsTerminal
  <2>5. snd' = Touch(Closed(Fail(heard))) => SameDigest(snd, snd')
    BY <1>2, <2>2
  <2> HIDE DEF c
  <2>6. gone \in Sender /\ SameDigest(c, gone)
    BY <2>4, OnDisconnectedSender, OnDisconnectedDigest
  <2> HIDE DEF gone
  <2>7. again \in Sender /\ SameDigest(gone, again)
    BY <2>6, ScheduleRetrySender DEF SameDigest, SameStream, IsTerminal
  <2> HIDE DEF again, armed
  <2>8. SameDigest(again, [again EXCEPT !.idleArmed = armed])
    BY <2>7 DEF Sender, SameDigest, IsTerminal
  <2> QED
    BY <2>1, <2>2, <2>3, <2>4, <2>5, <2>6, <2>7, <2>8 DEF SameDigest
<1>5. CASE SenderGetsCancel
  <2> DEFINE t == [snd EXCEPT !.waitingForOffsetAck = FALSE, !.sendScheduled = FALSE,
                              !.finishPending = FALSE, !.finishing = FALSE,
                              !.cancelled = TRUE]
             u == SetState(t, "Cancelled")
             c == Closed(u)
  <2>1. t \in Sender /\ SameDigest(snd, t)
    BY <1>0 DEF Sender, SameDigest, IsTerminal
  <2>2. snd' = Touch(c) BY <1>5 DEF SenderGetsCancel
  <2>3. "Cancelled" \in TransferState BY DEF TransferState
  <2> HIDE DEF t
  <2>4. u \in Sender /\ SameDigest(t, u)
    BY <2>1, <2>3, SetStateSender DEF Steady, SameStream, SameDigest
  <2> HIDE DEF u
  <2>5. c \in Sender /\ SameDigest(u, c)
    BY <2>4, ClosedSender DEF SameDigest, SameStream, IsTerminal
  <2> HIDE DEF c
  <2>6. SameDigest(c, snd')
    BY <2>2, <2>5, TouchSender DEF Steady, SameStream, SameDigest
  <2> QED
    BY <2>1, <2>4, <2>5, <2>6 DEF SameDigest
<1>6. CASE SenderDisconnected
  <2> DEFINE c == Closed(snd)
             e == OnSocketError(c)
  <2>1. c \in Sender /\ SameDigest(snd, c)
    BY <1>0, ClosedSender DEF SameDigest, SameStream, IsTerminal
  <2>2. snd' = OnDisconnected(e) BY <1>6 DEF SenderDisconnected
  <2> HIDE DEF c
  <2>3. e \in Sender /\ SameDigest(c, e)
    BY <2>1, OnSocketErrorSender DEF Steady, SameStream, SameDigest
  <2> HIDE DEF e
  <2> QED
    BY <2>1, <2>2, <2>3, OnDisconnectedDigest DEF SameDigest
<1>7. CASE SenderIdleTimeout
  <2> DEFINE fired == [snd EXCEPT !.idleArmed = FALSE]
  <2>1. fired \in Sender /\ SameDigest(snd, fired) /\ fired.sock = snd.sock
    BY <1>0 DEF Sender, SameDigest, IsTerminal
  <2>2. snd' = Closed(Fail(fired)) \/ snd' = fired \/ snd' = Fail(fired)
    BY <1>7 DEF SenderIdleTimeout
  <2> HIDE DEF fired
  <2>3. snd' # fired /\ snd' # Fail(fired)
    BY <2>1, FailSender DEF Steady
  <2> QED
    BY <1>2, <2>1, <2>2, <2>3
<1> QED
  BY <1>1, <1>3, <1>4, <1>5, <1>6, <1>7 DEF Closers

\* nor is a retry scheduled for a file that has been sent, nor, with TLS, because
\* the connection was lost
LEMMA ClosingRetry ==
  ASSUME TypeInv, snd'.sock # snd.sock, Closers, snd'.retryScheduled
  PROVE  \/ snd.retryScheduled
         \/ /\ snd.remaining # 0 \/ snd.waitingForOffsetAck
            /\ TLS => SenderGetsBusy
<1>0. snd \in Sender
  BY DEF TypeInv, TypeOK
<1>1. ASSUME NEW t \in Sender, t.retryScheduled => snd.retryScheduled,
             snd' = Closed(Fail(t)) \/ snd' = Touch(Closed(Fail(t)))
      PROVE  snd.retryScheduled
  <2>1. Steady(t, Fail(t))
    BY FailSender
  <2> DEFINE c == Closed(Fail(t))
  <2>2. c \in Sender /\ c.retryScheduled = Fail(t).retryScheduled
    BY <2>1, ClosedSender DEF Steady
  <2>3. snd' = c \/ snd' = Touch(c)
    BY <1>1
  <2> HIDE DEF c
  <2>4. Steady(c, Touch(c))
    BY <2>2, TouchSender
  <2> QED
    BY <1>1, <2>1, <2>2, <2>3, <2>4 DEF Steady
<1>2. CASE ConnectionRefused
  BY <1>0, <1>2 DEF ConnectionRefused, Sender
<1>3. CASE PinMismatch
  BY <1>0, <1>1, <1>3 DEF PinMismatch
<1>4. CASE SenderGetsBusy
  <2>1. CASE ~snd.waitingForOffsetAck
    <3>1. snd' = Touch(snd)
      BY <1>4, <2>1 DEF SenderGetsBusy
    <3> QED
      BY <1>0, <3>1, TouchSender DEF Steady
  <2> QED
    BY <1>4, <2>1
<1>5. CASE SenderGetsCancel
  <2> DEFINE t == [snd EXCEPT !.waitingForOffsetAck = FALSE, !.sendScheduled = FALSE,
                              !.finishPending = FALSE, !.finishing = FALSE,
                              !.cancelled = TRUE]
             u == SetState(t, "Cancelled")
             c == Closed(u)
  <2>1. t \in Sender /\ t.retryScheduled = snd.retryScheduled
    BY <1>0 DEF Sender
  <2>2. snd' = Touch(c)
    BY <1>5 DEF SenderGetsCancel
  <2>3. "Cancelled" \in TransferState
    BY DEF TransferState
  <2> HIDE DEF t
  <2>4. u \in Sender /\ u.retryScheduled = t.retryScheduled
    BY <2>1, <2>3, SetStateSender DEF Steady
  <2> HIDE DEF u
  <2>5. c \in Sender /\ c.retryScheduled = u.retryScheduled
    BY <2>4, ClosedSender
  <2> HIDE DEF c
  <2> QED
    BY <2>1, <2>2, <2>4, <2>5, TouchSender DEF Steady
<1>6. CASE SenderDisconnected
  <2> DEFINE c == Closed(snd)
             e == OnSocketError(c)
  <2>1. c \in Sender /\ c.retryScheduled = snd.retryScheduled /\ c.remaining = snd.remaining
    BY <1>0, ClosedSender DEF SameStream
  <2>2. snd' = OnDisconnected(e)
    BY <1>6 DEF SenderDisconnected
  <2> HIDE DEF c
  <2>3. e \in Sender /\ e.retryScheduled = c.retryScheduled /\ e.remaining = c.remaining
    BY <2>1, OnSocketErrorSender DEF Steady, SameStream
  <2>5. TLS /\ snd.remaining # 0 => IsTerminal(e)
    <3>1. IsTerminal(Fail(c))
      BY <2>1, FailSender
    <3> QED
      BY <2>1, <3>1 DEF OnSocketError
  <2> HIDE DEF e
  <2>4. CASE snd.remaining = 0
    <3>1. snd' = e \/ snd' = CompleteUpload(e)
      BY <2>1, <2>2, <2>3, <2>4 DEF OnDisconnected
    <3> QED
      BY <2>1, <2>3, <3>1, CompleteUploadSender
  <2>6. CASE TLS /\ snd.remaining # 0
    <3>1. snd' = e
      BY <2>2, <2>5, <2>6 DEF OnDisconnected
    <3> QED
      BY <2>1, <2>3, <3>1
  <2> QED
    BY <2>4, <2>6
<1>7. CASE SenderIdleTimeout
  <2> DEFINE fired == [snd EXCEPT !.idleArmed = FALSE]
  <2>1. fired \in Sender /\ fired.retryScheduled = snd.retryScheduled
    BY <1>0 DEF Sender
  <2>2. snd' = Closed(Fail(fired)) \/ snd' = fired \/ snd' = Fail(fired)
    BY <1>7 DEF SenderIdleTimeout
  <2> HIDE DEF fired
  <2> QED
    BY <1>1, <2>1, <2>2, FailSender DEF Steady
<1> QED
  BY <1>2, <1>3, <1>4, <1>5, <1>6, <1>7 DEF Closers

(***************************************************************************)
(* The Sender's steps, by what they mean for the stream: it stays where it *)
(* is, learns the offset, writes a packet, or opens a connection.          *)
(***************************************************************************)
Idles ==
  /\ KeepsConnection
  /\ toR' = toR
  /\ SameDigest(snd, snd')
  /\ snd'.sock = snd.sock =>
       /\ snd'.waitingForOffsetAck = snd.waitingForOffsetAck
       /\ snd'.cancelled = snd.cancelled
  /\ snd'.retryScheduled =>
       \/ snd.retryScheduled
       \/ /\ snd'.sock = "closed" /\ (snd.remaining # 0 \/ snd.waitingForOffsetAck)
          /\ TLS => SenderGetsBusy

LEMMA IdlingSender ==
  ASSUME Listens, snd'.sock = snd.sock
  PROVE  Idles
  BY DEF Listens, KeepsConnection, Idles, SameDigest

\* sendData(), onBytesWritten() and processOffsetAckPacket() close no connection
LEMMA SocketStays ==
  ASSUME TypeInv, SendData \/ BytesWritten \/ SenderGetsOffsetAck
  PROVE  snd'.sock = snd.sock
<1>0. snd \in Sender
  BY DEF TypeInv, TypeOK
<1>1. CASE SendData
  <2> DEFINE woken == [snd EXCEPT !.sendScheduled = FALSE]
             w == Wrote(woken)
  <2>1. woken \in Sender /\ woken.sock = snd.sock
    BY <1>0 DEF Sender
  <2>2. \/ snd' = woken
        \/ snd' = w
        \/ snd' = [w EXCEPT !.remaining = @ - 1, !.pos = @ + 1,
                            !.finishPending = @ \/ snd.remaining = 1]
    BY <1>1 DEF SendData
  <2> HIDE DEF woken
  <2>3. w \in Sender /\ w.sock = snd.sock
    BY <2>1, WroteSender DEF Steady
  <2> HIDE DEF w
  <2> QED
    BY <2>1, <2>2, <2>3 DEF Sender
<1>2. CASE BytesWritten
  <2> DEFINE drained == [snd EXCEPT !.unsent = FALSE]
             w == Wrote(drained)
             finishing == [w EXCEPT !.finishPending = FALSE, !.finishing = TRUE]
  <2>1. drained \in Sender /\ drained.sock = snd.sock
    BY <1>0 DEF Sender
  <2>2. snd' \in {ScheduleSend(drained), drained, finishing, CompleteUpload(finishing)}
    BY <1>2 DEF BytesWritten
  <2> HIDE DEF drained
  <2>3. w \in Sender /\ w.sock = snd.sock
    BY <2>1, WroteSender DEF Steady
  <2> HIDE DEF w
  <2>4. finishing \in Sender /\ finishing.sock = snd.sock
    BY <2>3 DEF Sender
  <2> HIDE DEF finishing
  <2> QED
    BY <2>1, <2>2, <2>4, ScheduleSendSender, CompleteUploadSender
<1>3. CASE SenderGetsOffsetAck
  <2> DEFINE t == [snd EXCEPT !.receiverFinishAck = TRUE]
             n == Head(toS[snd.attempt]).n
             u == ApplyOffsetAck(t, n)
  <2>1. snd' = Touch(u) \/ snd' = Touch(snd)
    BY <1>3 DEF SenderGetsOffsetAck
  <2>2. t \in Sender /\ t.sock = snd.sock
    BY <1>0 DEF Sender
  <2>3. n \in Chunk
    <3>1. toS[snd.attempt] \in Seq(Packet) /\ toS[snd.attempt] # <<>>
      BY <1>0, <1>3 DEF TypeInv, TypeOK, Sender, SenderGetsOffsetAck, SenderReads
    <3>2. Head(toS[snd.attempt]) \in Packet
      BY <3>1
    <3> QED
      BY <3>2 DEF Packet
  <2> HIDE DEF t, n
  <2>4. u \in Sender /\ u.sock = snd.sock
    BY <2>2, <2>3, ApplyOffsetAckSender
  <2> HIDE DEF u
  <2> QED
    BY <1>0, <2>1, <2>4, TouchSender DEF Steady
<1> QED
  BY <1>1, <1>2, <1>3

LEMMA SenderSteps ==
  ASSUME TypeInv, SenderNext
  PROVE  \/ Start \/ SenderConnected \/ SenderEncrypted
         \/ Idles
         \/ OffsetAckTimeout /\ Learns(0)
         \/ SenderGetsOffsetAck /\ Learns(Head(toS[snd.attempt]).n)
         \/ SendsChunk \/ SendsFinish \/ SendsCancel \/ Reconnects
<1>1. CASE SendData
  BY <1>1, DataSender, SocketStays, IdlingSender
<1>2. CASE BytesWritten
  BY <1>2, FinishSender, SocketStays, IdlingSender
<1>3. CASE SenderGetsOffsetAck
  BY <1>3, OffsetSender, SocketStays, IdlingSender
<1>4. CASE RetryTimer
  <2>0. snd \in Sender
    BY DEF TypeInv, TypeOK
  <2> DEFINE woken == [snd EXCEPT !.retryScheduled = FALSE]
  <2>1. woken \in Sender /\ woken.sock = snd.sock /\ woken.attempt = snd.attempt
    BY <2>0 DEF Sender
  <2>2. snd' = woken \/ snd' = RetryConnect(woken)
    BY <1>4 DEF RetryTimer
  <2> HIDE DEF woken
  <2>3. snd.attempt < RetryMax /\ snd.attempt \in Nat
    BY <1>4, <2>0, RetryAssumption DEF RetryTimer, TypeInv, RetryLeft, Sender, Attempt
  <2>4. ASSUME Listens PROVE snd' = woken
    <3>1. snd'.attempt = snd.attempt
      BY <2>4 DEF Listens, KeepsConnection
    <3> QED
      BY <2>1, <2>2, <2>3, <3>1, RetryConnectSender
  <2> QED
    BY <1>4, <2>1, <2>4, RetrySender, IdlingSender
<1>5. CASE SenderCancel
  BY <1>5, CancelSender
<1>6. CASE OffsetAckTimeout
  BY <1>6, TimeoutSender
<1>7. CASE \/ ConnectionRefused \/ PinMismatch
           \/ SenderGetsFinishAck \/ SenderGetsBusy \/ SenderGetsCancel
           \/ SenderGetsPause \/ SenderGetsResume
           \/ ReadError \/ SenderDisconnected \/ SenderIdleTimeout
           \/ SenderPause \/ SenderResume
  <2>1. Listens
    BY <1>7, QuietSender
  <2>2. CASE snd'.sock = snd.sock
    BY <2>1, <2>2, IdlingSender
  <2>3. CASE snd'.sock # snd.sock
    BY <1>7, <2>1, <2>3, ClosingSender, ClosingDigest, ClosingRetry
       DEF Listens, KeepsConnection, Idles
  <2> QED
    BY <2>2, <2>3
<1> QED
  BY <1>1, <1>2, <1>3, <1>4, <1>5, <1>6, <1>7 DEF SenderNext

\* the offset of an OffsetAck that has arrived
LEMMA OffsetType ==
  ASSUME TypeInv, toS[snd.attempt] # <<>>
  PROVE  Head(toS[snd.attempt]).n \in 0 .. Chunks
<1>1. toS[snd.attempt] \in Seq(Packet)
  BY DEF TypeInv, TypeOK, Sender
<1>2. Head(toS[snd.attempt]) \in Packet
  BY <1>1
<1> QED
  BY <1>2 DEF Packet, Chunk

\* the Receivers and the network know nothing of the Sender's members
LEMMA ElsewhereSender ==
  ASSUME NEW a \in Attempt, ReceiverNext(a) \/ Break(a)
  PROVE  UNCHANGED snd
  BY DEF ReceiverNext, Break, Accept, RejectBusy, ReceiverGetsHeader, RejectHeader,
         ReceiverGetsData, WriteError, ChecksumFailed, FinalizeDownload, FinalizeFails,
         ReceiverGetsCancel, ReceiverDisconnected, ReceiverIdleTimeout, ReceiverPause,
         ReceiverResume, ReceiverCancel

LEMMA SenderDigest ==
  ASSUME TypeInv, DigestAddsUp, SenderNext
  PROVE  DigestAddsUp'
<1>0. /\ snd \in Sender /\ Chunks \in Nat
      /\ snd.remaining \in 0 .. Chunks /\ snd.pos \in 0 .. Chunks
      /\ snd.hashFrom \in 0 .. Chunks
  BY ChunksAssumption DEF TypeInv, TypeOK, Sender
<1>1. CASE Idles
  BY <1>1 DEF Idles, KeepsConnection, DigestAddsUp, DigestIsWhole, SameDigest
<1>2. ASSUME NEW offset \in 0 .. Chunks, Learns(offset)
      PROVE  DigestAddsUp'
  <2>1. CASE snd.cancelled \/ IsTerminal(snd)
    BY <1>0, <1>2, <2>1 DEF Learns, KeepsConnection, DigestAddsUp, DigestIsWhole
  <2>2. CASE ~(snd.cancelled \/ IsTerminal(snd))
    <3>1. ~snd.finishPending /\ ~snd'.finishPending /\ ~snd'.waitingForOffsetAck
      BY <1>2, <2>2 DEF Learns, DigestAddsUp
    <3>2. snd'.remaining + snd'.pos = Chunks + snd'.hashFrom
      BY <1>0, <1>2, <2>2 DEF Learns
    <3> QED
      BY <3>1, <3>2 DEF DigestAddsUp, DigestIsWhole
  <2> QED
    BY <2>1, <2>2
<1>3. ASSUME SendsChunk
      PROVE  DigestAddsUp'
  <2>1. /\ snd.sock \in {"handshake", "open"} /\ snd'.sock = snd.sock
        /\ snd.remaining > 0 /\ ~snd'.waitingForOffsetAck /\ snd' \in Sender
        /\ snd'.remaining = snd.remaining - 1 /\ snd'.pos = snd.pos + 1
        /\ snd'.hashFrom = snd.hashFrom
        /\ snd'.finishPending => snd.finishPending \/ snd.remaining = 1
    BY <1>3 DEF SendsChunk, MaySend, Connected, KeepsConnection
  <2>2. snd.remaining + snd.pos = Chunks + snd.hashFrom BY DEF DigestAddsUp
  <2>3. ~snd.finishPending
    BY <1>0, <2>1, <2>2 DEF DigestAddsUp, DigestIsWhole
  <2>4. snd'.pos \in 0 .. Chunks BY <2>1 DEF Sender
  <2>5. snd'.remaining + snd'.pos = Chunks + snd'.hashFrom BY <1>0, <2>1, <2>2
  <2>6. snd.remaining = 1 => snd'.hashFrom = 0 /\ snd'.pos = Chunks
    BY <1>0, <2>1, <2>2, <2>4
  <2> QED
    BY <2>1, <2>3, <2>5, <2>6 DEF DigestAddsUp, DigestIsWhole
<1>4. CASE SendsFinish
  BY <1>0, <1>4 DEF SendsFinish, KeepsConnection, DigestAddsUp, DigestIsWhole
<1>5. CASE SendsCancel
  BY <1>0, <1>5 DEF SendsCancel, KeepsConnection, DigestAddsUp, DigestIsWhole
<1>6. CASE Reconnects
  BY <1>0, <1>6 DEF Reconnects, DigestAddsUp, DigestIsWhole
<1>7. CASE SenderGetsOffsetAck /\ Learns(Head(toS[snd.attempt]).n)
  BY <1>2, <1>7, OffsetType DEF SenderGetsOffsetAck, SenderReads
<1>8. CASE OffsetAckTimeout /\ Learns(0)
  BY <1>0, <1>2, <1>8
<1>9. CASE Start \/ SenderConnected \/ SenderEncrypted
  <2>1. snd.sock \in {"none", "connecting"} \/ snd.sock = "handshake"
    BY <1>9 DEF Start, SenderConnected, SenderEncrypted
  <2>2. snd.sock \in {"none", "connecting"} => ~snd'.finishPending
    BY <1>9, ConnectingSender DEF DigestAddsUp
  <2>3. snd.sock = "handshake" =>
          /\ snd'.sock \notin {"none", "connecting"}
          /\ ~snd'.finishPending \/ IsTerminal(snd')
    <3>1. snd.sock = "handshake" => SenderEncrypted
      BY <1>9 DEF Start, SenderConnected
    <3>2. SenderEncrypted => snd'.sock # "connecting" /\ snd'.sock # "none"
      <4> SUFFICES ASSUME SenderEncrypted PROVE snd'.sock = "open" OBVIOUS
      <4> DEFINE t == [snd EXCEPT !.sock = "open"]
                 u == SetState(t, "Transfering")
                 v == SendHeader(u)
                 w == [v EXCEPT !.finishPending = FALSE, !.finishing = TRUE]
      <4>1. t \in Sender /\ t.sock = "open" BY <1>0 DEF Sender
      <4>2. snd' = v \/ snd' = CompleteUpload(w) BY DEF SenderEncrypted
      <4> HIDE DEF t
      <4>3. u \in Sender /\ u.sock = "open"
        BY <4>1, SetStateSender DEF Steady, TransferState
      <4> HIDE DEF u
      <4>4. v \in Sender /\ v.sock = "open" BY <4>3, SendHeaderSender
      <4> HIDE DEF v
      <4>5. w \in Sender /\ w.sock = "open" BY <4>4 DEF Sender
      <4> HIDE DEF w
      <4> QED
        BY <4>2, <4>4, <4>5, CompleteUploadSender
    <3> QED
      BY <1>9, <3>1, <3>2, ConnectingSender
  <2> QED
    BY <1>9, <2>1, <2>2, <2>3, ConnectingSender DEF DigestAddsUp, DigestIsWhole
<1> QED
  BY <1>1, <1>3, <1>4, <1>5, <1>6, <1>7, <1>8, <1>9, SenderSteps

(***************************************************************************)
(* The sha256 that finish() sends is that of the whole file: for every     *)
(* number of chunks and retries, and whatever happens, late OffsetAcks     *)
(* included (finish(), sender.cpp:393).                                    *)
(***************************************************************************)
THEOREM DigestStaysWhole == Spec => []DigestIsWhole
<1>1. Init => DigestAddsUp
  <2> SUFFICES ASSUME Init PROVE DigestAddsUp
    OBVIOUS
  <2>1. NewSender \in Sender /\ "Queued" \in TransferState
    BY ChunksAssumption, RetryAssumption DEF NewSender, Sender, TransferState, Attempt
  <2>2. Steady(NewSender, SetState(NewSender, "Queued"))
    BY <2>1, SetStateSender
  <2>3. SameStream(NewSender, snd)
    BY <2>2 DEF Init, Steady, SameStream
  <2> QED
    BY <2>3, ChunksAssumption DEF SameStream, NewSender, DigestAddsUp, DigestIsWhole
<1>2. TypeInv /\ DigestAddsUp /\ [Next]_vars => DigestAddsUp'
  <2> SUFFICES ASSUME TypeInv, DigestAddsUp, [Next]_vars PROVE DigestAddsUp'
    OBVIOUS
  <2>1. CASE UNCHANGED snd
    BY <2>1 DEF DigestAddsUp, DigestIsWhole, IsTerminal
  <2> QED
    BY <2>1, SenderDigest, ElsewhereSender DEF Next, vars
<1>3. DigestAddsUp => DigestIsWhole
  BY DEF DigestAddsUp
<1>4. TypeInv /\ [Next]_vars => TypeInv'
  BY NextType
<1> QED
  BY <1>1, <1>2, <1>3, <1>4, InitType, PTL DEF Spec
=============================================================================
