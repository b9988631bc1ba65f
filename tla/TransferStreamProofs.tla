------------------------ MODULE TransferStreamProofs ------------------------
(***************************************************************************)
(* What one connection after the other makes of the file, and what is left *)
(* alone once it is delivered or cancelled.                                *)
(*                                                                         *)
(* SettledInv and DeliveredInv need no more than that a partial download   *)
(* is resumed: a delivered file stays the delivered file, over any number  *)
(* of connections.  StreamInv is for the wire: what may be under way in    *)
(* either direction of the current connection, given where the Sender is   *)
(* in the file and what its Receiver has got.  It holds where nothing is   *)
(* sent before the TLS handshake ends and no OffsetAck is too late, and    *)
(* there every chunk arrives where it belongs without any checksum.        *)
(* LossInv is for the Sender alone: a cancelled upload has ended, one that *)
(* has not ended does not remember having ended, and so a lost connection  *)
(* brings one that runs to Disconnected, whatever paused it before.        *)
(* PromiseInv is for what the two tell each other: no word is believed     *)
(* that is not so, and nobody hangs up without one.  Where connections     *)
(* last it makes the Sender and the Receivers implement FileDelivery.      *)
(***************************************************************************)
EXTENDS TransferProtocolProofs

-----------------------------------------------------------------------------
(* Cancelled uploads, for every setting and every set of events            *)

LEMMA CancelledStep ==
  ASSUME TypeInv, [Next]_vars, snd.state = "Cancelled"
  PROVE  /\ snd'.state = "Cancelled" /\ snd'.attempt = snd.attempt
         /\ snd'.remaining = snd.remaining
<1>1. IsTerminal(snd)
  BY DEF IsTerminal, Terminal
<1>2. CASE SenderNext
  <2>1. CASE Start \/ SenderConnected \/ SenderEncrypted
    BY <2>1, ConnectingSender
  <2>2. CASE Idles
    BY <2>2 DEF Idles, KeepsConnection, SameDigest
  <2>3. ASSUME NEW offset, Learns(offset)
        PROVE  /\ snd'.state = "Cancelled" /\ snd'.attempt = snd.attempt
               /\ snd'.remaining = snd.remaining
    BY <1>1, <2>3 DEF Learns, KeepsConnection
  <2>4. ~SendsChunk /\ ~SendsFinish /\ ~Reconnects
    BY <1>1 DEF SendsChunk, MaySend, SendsFinish, Reconnects
  <2>5. CASE SendsCancel
    BY <2>5 DEF SendsCancel, KeepsConnection
  <2> QED
    BY <1>2, <2>1, <2>2, <2>3, <2>4, <2>5, SenderSteps
<1>3. ASSUME NEW a \in Attempt, ReceiverNext(a) \/ Break(a)
      PROVE  UNCHANGED snd
  BY <1>3, ElsewhereSender
<1> QED
  BY <1>2, <1>3 DEF Next, vars

(***************************************************************************)
(* A cancelled upload sends nothing more of the file and never connects    *)
(* again, whatever was scheduled before (Sender::cancel(), sender.cpp).    *)
(***************************************************************************)
THEOREM CancelledUploadsStayCancelled == Spec => CancelIsFinal
<1>1. TypeInv /\ [Next]_vars => [snd.state = "Cancelled" =>
                 /\ snd'.state = "Cancelled" /\ snd'.attempt = snd.attempt
                 /\ snd'.remaining = snd.remaining]_vars
  BY CancelledStep
<1>2. TypeInv /\ [Next]_vars => TypeInv'
  BY NextType
<1> QED
  BY <1>1, <1>2, InitType, PTL DEF Spec, CancelIsFinal

-----------------------------------------------------------------------------
(* The stream                                                              *)

\* partial downloads are resumed, and nothing is sent before the TLS handshake ends
Orderly == ResumePartial /\ (TLS => Undisturbed)

\* and no OffsetAck is too late
Plain == Orderly /\ "ackTimeout" \notin Events

\* what the packet p may be, at place i of the queue to the Receiver r of the Sender s
Placed(p, i, r, s) ==
  /\ p.type = "Header" => r.file = "null"
  /\ p.type \in {"Data", "Finish"} => r.file # "null" /\ ~s.waitingForOffsetAck
  /\ s.waitingForOffsetAck /\ ~IsTerminal(s) => p.type = "Header"
  /\ r.file # "null" /\ ~IsTerminal(r) =>
       /\ p.type = "Data" => p.n = Len(r.got) + i
       /\ p.type = "Finish" => Chunks + 1 = Len(r.got) + i

\* one header at most
Flow(q, r, s) ==
  /\ \A i \in 1 .. Len(q) : Placed(q[i], i, r, s)
  /\ \A i, j \in 1 .. Len(q) : q[i].type = "Header" /\ q[j].type = "Header" => i = j

\* the Sender stands in the file where the Receiver will, once it has read the queue
Lead(q, r, s, up) ==
  s.sock = "open" /\ ~s.waitingForOffsetAck /\ ~IsTerminal(s) =>
    /\ r.file # "null"
    /\ up /\ ~IsTerminal(r) /\ (s.remaining > 0 \/ s.finishPending) =>
         s.pos = Len(r.got) + Len(q)

\* the OffsetAck that is waited for names the Receiver's position
Replies(t, r, s) ==
  s.waitingForOffsetAck =>
    \A i \in 1 .. Len(t) :
      t[i].type = "OffsetAck" => r.file # "null" /\ t[i].n = Len(r.got)

\* before the header there is at most a Cancel packet, and no OffsetAck
Early(q, t, r, s) ==
  s.sock = "handshake" =>
    /\ r.file = "null"
    /\ \A i \in 1 .. Len(q) : q[i].type = "Cancel" /\ IsTerminal(s)
    /\ \A i \in 1 .. Len(t) : t[i].type # "OffsetAck"

\* nothing comes back on a connection that has not been opened
NoReplies == \A a \in Attempt : link[a] = "none" => toS[a] = <<>>

\* where the Sender is before it knows the offset, when it may retry, and that a
\* cancelled one has ended
Outset(s) ==
  /\ s.sock = "handshake" => TLS
  /\ s.sock \in {"none", "connecting", "handshake"} =>
       /\ s.remaining = Chunks /\ s.pos = 0 /\ ~s.waitingForOffsetAck
       /\ TLS => ~s.sendScheduled
  /\ s.waitingForOffsetAck => s.remaining = Chunks /\ s.pos = 0
  /\ s.retryScheduled => s.sock = "closed" /\ s.remaining > 0
  /\ s.cancelled => s.sock = "closed" \/ IsTerminal(s)

\* the Finish packet is the last thing the Sender has to say
Concludes(q, s) ==
  \A i \in 1 .. Len(q) :
    q[i].type = "Finish" => s.remaining = 0 /\ ~s.waitingForOffsetAck

\* a Receiver that listens has been started, one that hung up has ended, and a
\* paused one was at work
Started(r) ==
  /\ r.sock = "none" => r.file = "null"
  /\ r.sock = "open" => r.state # "Idle"
  /\ r.sock = "closed" => r.file = "null" \/ IsTerminal(r)
  /\ r.state = "Paused" => r.last \notin {"Idle", "Finish"}

AllStarted == \A a \in Attempt : Started(rcv[a])

\* what has been delivered has been sent to the last chunk, and its Receiver has ended
Settled == final.there => snd.remaining = 0 /\ IsTerminal(rcv[snd.attempt])

SettledInv ==
  /\ DownloadInv /\ DigestAddsUp /\ AllStarted
  /\ Outset(snd) /\ Settled /\ Concludes(toR[snd.attempt], snd)

CurrentStream ==
  LET now == snd.attempt
  IN /\ Flow(toR[now], rcv[now], snd)
     /\ Lead(toR[now], rcv[now], snd, link[now] = "up")
     /\ Replies(toS[now], rcv[now], snd)
     /\ Early(toR[now], toS[now], rcv[now], snd)

StreamInv == SettledInv /\ NoReplies /\ CurrentStream

-----------------------------------------------------------------------------
(* The Receivers, started and ended                                        *)

\* what is left of Started, and who may show a download as finished
Heir(r, q) == Started(q) /\ (q.state = "Finish" => r.state = "Finish")

LEMMA SetStateHeir ==
  ASSUME NEW r \in Receiver, Started(r), NEW new \in TransferState \ {"Idle"}
  PROVE  LET q == SetState(r, new)
         IN Started(q) /\ (q.state = "Finish" => r.state = "Finish" \/ new = "Finish")
<1> DEFINE q == SetState(r, new)
<1>1. SameDownload(r, q) /\ q.sock = r.sock
  BY SetStateReceiver
<1>2. CASE new = r.state
  BY <1>2 DEF SetState
<1>3. CASE new # r.state
  <2>1. q.state = NextState(r, new) /\ q.last = r.state
    BY <1>3 DEF SetState, Receiver
  <2>2. /\ r.state # "Idle" => q.state # "Idle"
        /\ q.state = "Paused" => r.state \notin {"Idle", "Finish"}
        /\ q.state = "Finish" => r.state = "Finish" \/ new = "Finish"
    <3>1. \/ q.state \in {r.state, new}
          \/ r.state = "Paused" /\ q.state = r.last
      BY <2>1 DEF NextState
    <3>2. "Idle" \in TransferState /\ "Finish" \in TransferState
      BY DEF TransferState
    <3>3. "Paused" \notin Accepted["Idle"] /\ "Paused" \notin Accepted["Finish"]
      BY <3>2 DEF Accepted
    <3>4. r.state \in {"Idle", "Finish"} => q.state # "Paused"
      BY <2>1, <3>3 DEF NextState
    <3> QED
      BY <3>1, <3>4 DEF Started
  <2>3. IsTerminal(r) => IsTerminal(q)
    BY <1>1 DEF SameDownload
  <2>4. q.sock = r.sock /\ q.file = r.file
    BY <1>1 DEF SameDownload
  <2> HIDE DEF q
  <2>5. Started(q)
    BY <2>1, <2>2, <2>3, <2>4 DEF Started
  <2> QED
    BY <2>2, <2>5 DEF q
<1> QED
  BY <1>2, <1>3

LEMMA FailedHeir ==
  ASSUME NEW r \in Receiver, Started(r)
  PROVE  Heir(r, Fail(r)) /\ Heir(r, Offline(Fail(r)))
<1>1. /\ Fail(r) \in Receiver /\ Fail(r).sock = r.sock /\ Fail(r).file = r.file
      /\ IsTerminal(Fail(r))
  BY FailReceiver DEF SameDownload
<1>2. Fail(r).state = "Finish" => r.state = "Finish"
  BY DEF Fail, Receiver
<1> DEFINE f == Fail(r)
           o == Offline(f)
<1> HIDE DEF f
<1>3. /\ o.state = f.state /\ o.sock = "closed" /\ o.file = f.file
  BY <1>1, OfflineReceiver DEF SameDownload, f
<1> HIDE DEF o
<1> QED
  BY <1>1, <1>2, <1>3 DEF Heir, Started, IsTerminal, Terminal, f, o

\* directory entries come and go without the Receiver
LEMMA EntryHeir ==
  ASSUME NEW r \in Receiver, Started(r)
  PROVE  Heir(r, Renamed(r)) /\ \A gone \in SUBSET {"part", "final"} : Heir(r, Unlinked(r, gone))
<1>1. Heir(r, r)
  BY DEF Heir
<1>2. ASSUME NEW f, r.file # "null"
      PROVE  Heir(r, [r EXCEPT !.file = f])
  <2> DEFINE q == [r EXCEPT !.file = f]
  <2>1. q.sock = r.sock /\ q.state = r.state /\ q.last = r.last
    BY DEF Receiver
  <2> HIDE DEF q
  <2>2. Heir(r, q)
    BY <1>2, <2>1 DEF Heir, Started, IsTerminal
  <2> QED
    BY <2>2 DEF q
<1>3. Heir(r, Renamed(r))
  BY <1>1, <1>2 DEF Renamed
<1>4. ASSUME NEW gone \in SUBSET {"part", "final"}
      PROVE  Heir(r, Unlinked(r, gone))
  BY <1>1, <1>2 DEF Unlinked
<1> QED
  BY <1>3, <1>4

LEMMA RemovedHeirs ==
  ASSUME rcv \in [Attempt -> Receiver], AllStarted, NEW a \in Attempt,
         NEW r \in Receiver, Heir(rcv[a], r), RemoveDownload(a, r)
  PROVE  \A b \in Attempt : Heir(rcv[b], rcv'[b])
<1> SUFFICES ASSUME NEW b \in Attempt PROVE Heir(rcv[b], rcv'[b])
  OBVIOUS
<1> DEFINE next == IF b = a THEN r ELSE rcv[b]
<1>1. next \in Receiver /\ Heir(rcv[b], next)
  BY DEF AllStarted, Heir
<1>2. rcv'[b] = next \/ rcv'[b] = Unlinked(next, {"part", Target})
  BY DEF RemoveDownload
<1>3. {"part", Target} \in SUBSET {"part", "final"}
  BY DEF Target
<1> HIDE DEF next
<1> QED
  BY <1>1, <1>2, <1>3, EntryHeir DEF Heir

LEMMA CancelledState ==
  ASSUME NEW r \in Receiver, Started(r), ~IsTerminal(r), r.sock = "open" \/ CanCancel(r)
  PROVE  SetState(r, "Cancelled").state = "Cancelled"
<1>1. r.state \in {"Queued", "Waiting", "Transfering", "Paused"}
  BY DEF Receiver, TransferState, IsTerminal, Terminal, Started, CanCancel
<1>2. "Cancelled" \in Accepted[r.state]
  BY <1>1 DEF Accepted, TransferState
<1> QED
  BY <1>1, <1>2 DEF SetState, NextState, Receiver

\* only finalizeDownload() shows a download as finished
LEMMA ReceiverHeirs ==
  ASSUME TypeInv, AllStarted, NEW a \in Attempt, ReceiverNext(a)
  PROVE  /\ AllStarted'
         /\ \A b \in Attempt : rcv'[b].state = "Finish" =>
              rcv[b].state = "Finish" \/ (FinalizeDownload(a) /\ b = a)
<1>0. /\ rcv \in [Attempt -> Receiver] /\ rcv[a] \in Receiver /\ Started(rcv[a])
      /\ {"Waiting", "Transfering", "Paused", "Cancelled", "Finish"}
           \subseteq TransferState \ {"Idle"}
  BY DEF TypeInv, TypeOK, AllStarted, TransferState
<1>1. ASSUME \A b \in Attempt : Heir(rcv[b], rcv'[b])
      PROVE  /\ AllStarted'
             /\ \A b \in Attempt : rcv'[b].state = "Finish" => rcv[b].state = "Finish"
  BY <1>1 DEF Heir, AllStarted
<1>2. ASSUME NEW r, rcv' = [rcv EXCEPT ![a] = r], Heir(rcv[a], r)
      PROVE  \A b \in Attempt : Heir(rcv[b], rcv'[b])
  BY <1>0, <1>2 DEF Heir, AllStarted
<1>3. ASSUME NEW r \in Receiver, Started(r), NEW new \in TransferState \ {"Idle", "Finish"}
      PROVE  SetState(r, new) \in Receiver /\ Heir(r, SetState(r, new))
             /\ SetState(r, new).sock = r.sock
  BY <1>3, SetStateHeir, SetStateReceiver DEF Heir, SameDownload
<1>4. Heir(rcv[a], Offline(Fail(rcv[a]))) /\ Offline(Fail(rcv[a])) \in Receiver
  BY <1>0, FailedHeir, FailedReceiver DEF SameDownload
<1>5. CASE Accept(a)
  <2> DEFINE r == [rcv[a] EXCEPT !.sock = "open"]
             q == SetState(r, "Waiting")
  <2>1. /\ rcv' = [rcv EXCEPT ![a] = q] /\ rcv[a].sock = "none"
    BY <1>5 DEF Accept
  <2>2. /\ r \in Receiver /\ r.state = rcv[a].state /\ r.last = rcv[a].last
        /\ r.sock = "open" /\ r.file = "null"
    BY <1>0, <2>1 DEF Receiver, Started
  <2> HIDE DEF r
  <2>3. /\ q.sock = "open" /\ q.file = "null"
    BY <1>0, <2>2, SetStateReceiver DEF SameDownload
  <2>4. /\ q.state # "Idle"
        /\ q.state = "Paused" => q.last \notin {"Idle", "Finish"}
        /\ q.state = "Finish" => r.state = "Finish"
    <3>1. CASE r.state = "Idle"
      <4>1. "Waiting" \in Accepted["Idle"]
        BY <1>0 DEF Accepted, TransferState
      <4>2. q.state = "Waiting"
        BY <2>2, <3>1, <4>1 DEF SetState, NextState, Receiver
      <4> QED
        BY <4>2
    <3>2. CASE r.state # "Idle"
      <4>1. Started(r)
        BY <1>0, <2>2, <3>2 DEF Started
      <4>2. Heir(r, q)
        BY <1>0, <1>3, <2>2, <4>1
      <4> QED
        BY <2>3, <4>2 DEF Heir, Started
    <3> QED
      BY <3>1, <3>2
  <2> HIDE DEF q
  <2>5. Heir(rcv[a], q)
    BY <2>2, <2>3, <2>4 DEF Heir, Started
  <2> QED
    BY <1>1, <1>2, <2>1, <2>5
<1>6. CASE RejectBusy(a)
  <2> DEFINE r == [rcv[a] EXCEPT !.sock = "closed"]
  <2>1. rcv' = [rcv EXCEPT ![a] = r] /\ rcv[a].sock = "none"
    BY <1>6 DEF RejectBusy
  <2>2. /\ r.state = rcv[a].state /\ r.last = rcv[a].last
        /\ r.sock = "closed" /\ r.file = "null"
    BY <1>0, <2>1 DEF Receiver, Started
  <2> HIDE DEF r
  <2>3. Heir(rcv[a], r)
    BY <1>0, <2>2 DEF Heir, Started
  <2> QED
    BY <1>1, <1>2, <2>1, <2>3
<1>7. CASE ReceiverGetsHeader(a)
  <2> DEFINE kept == IF Resumable THEN part.data ELSE <<>>
             r == [rcv[a] EXCEPT !.got = kept, !.file = Target]
             q == SetState(r, "Transfering")
  <2>1. /\ rcv' = [b \in Attempt |->
                     CASE b = a -> q
                       [] b # a /\ Oversize -> Unlinked(rcv[b], {"part"})
                       [] OTHER -> rcv[b]]
        /\ rcv[a].sock = "open" /\ ~IsTerminal(rcv[a])
    BY <1>7 DEF ReceiverGetsHeader, ReceiverReads
  <2>2. kept \in Content /\ Target \in {"part", "final"}
    BY DEF TypeInv, TypeOK, File, Content, Target
  <2> HIDE DEF kept
  <2>3. /\ r \in Receiver /\ r.state = rcv[a].state /\ r.last = rcv[a].last
        /\ r.sock = "open"
    BY <1>0, <2>1, <2>2 DEF Receiver
  <2> HIDE DEF r
  <2>4. Started(r)
    BY <1>0, <2>1, <2>3 DEF Started
  <2>5. Heir(rcv[a], q)
    BY <1>0, <1>3, <2>3, <2>4 DEF Heir
  <2> HIDE DEF q
  <2>6. ASSUME NEW b \in Attempt, b # a
        PROVE  Heir(rcv[b], rcv'[b])
    <3>1. Heir(rcv[b], rcv[b]) /\ Heir(rcv[b], Unlinked(rcv[b], {"part"}))
      BY <1>0, EntryHeir DEF Heir, AllStarted
    <3> QED
      BY <2>1, <2>6, <3>1
  <2>7. rcv'[a] = q
    BY <2>1
  <2> QED
    BY <1>1, <2>5, <2>6, <2>7
<1>8. CASE RejectHeader(a)
  <2>1. PICK tidied \in BOOLEAN :
          rcv' = [b \in Attempt |->
                    CASE b = a -> Offline(Fail(rcv[a]))
                      [] b # a /\ tidied -> Unlinked(rcv[b], {"part"})
                      [] OTHER -> rcv[b]]
    BY <1>8 DEF RejectHeader, Oversize
  <2>2. ASSUME NEW b \in Attempt
        PROVE  Heir(rcv[b], rcv'[b])
    <3>1. Heir(rcv[b], rcv[b]) /\ Heir(rcv[b], Unlinked(rcv[b], {"part"}))
      BY <1>0, EntryHeir DEF Heir, AllStarted
    <3> QED
      BY <1>4, <2>1, <3>1
  <2> QED
    BY <1>1, <2>2
<1>9. CASE ReceiverGetsData(a)
  <2> DEFINE chunk == Head(toR[a]).n
             r == [rcv[a] EXCEPT !.got = Append(@, chunk)]
  <2>1. UNCHANGED rcv \/ rcv' = [rcv EXCEPT ![a] = r]
    BY <1>9 DEF ReceiverGetsData
  <2>2. /\ r.state = rcv[a].state /\ r.last = rcv[a].last
        /\ r.sock = rcv[a].sock /\ r.file = rcv[a].file
    BY <1>0 DEF Receiver
  <2> HIDE DEF r
  <2>3. Heir(rcv[a], r) /\ \A b \in Attempt : Heir(rcv[b], rcv[b])
    BY <1>0, <2>2 DEF Heir, Started, IsTerminal, AllStarted
  <2> QED
    BY <1>1, <1>2, <2>1, <2>3
<1>10. CASE WriteError(a) \/ ChecksumFailed(a)
  <2>1. RemoveDownload(a, Offline(Fail(rcv[a])))
    BY <1>10 DEF WriteError, ChecksumFailed
  <2> QED
    BY <1>0, <1>1, <1>4, <2>1, RemovedHeirs
<1>11. CASE FinalizeDownload(a)
  <2> DEFINE f == SetState(rcv[a], "Finish")
             r == Offline(Fail(f))
  <2>1. f \in Receiver /\ Started(f)
    BY <1>0, SetStateHeir, SetStateReceiver DEF SameDownload
  <2>2. r \in Receiver /\ Started(r)
    BY <2>1, FailedHeir, FailedReceiver DEF Heir, SameDownload
  <2>3. \/ rcv' = [rcv EXCEPT ![a] = r]
        \/ rcv' = [b \in Attempt |-> Renamed(IF b = a THEN r ELSE rcv[b])]
    BY <1>11 DEF FinalizeDownload, Finalized
  <2> HIDE DEF r
  <2>4. ASSUME NEW b \in Attempt
        PROVE  /\ Started(rcv'[b])
               /\ rcv'[b].state = "Finish" => rcv[b].state = "Finish" \/ b = a
    <3> DEFINE next == IF b = a THEN r ELSE rcv[b]
    <3>1. next \in Receiver /\ Started(next) /\ (b # a => next = rcv[b])
      BY <1>0, <2>2 DEF AllStarted
    <3>2. rcv'[b] = next \/ rcv'[b] = Renamed(next)
      BY <1>0, <2>3
    <3> HIDE DEF next
    <3> QED
      BY <3>1, <3>2, EntryHeir DEF Heir
  <2> QED
    BY <1>11, <2>4 DEF AllStarted
<1>12. CASE FinalizeFails(a)
  <2> DEFINE r == Offline(Fail(rcv[a]))
  <2>1. rcv' = [b \in Attempt |-> Unlinked(IF b = a THEN r ELSE rcv[b], {"final"})]
    BY <1>12 DEF FinalizeFails
  <2> HIDE DEF r
  <2>2. ASSUME NEW b \in Attempt
        PROVE  Heir(rcv[b], rcv'[b])
    <3> DEFINE next == IF b = a THEN r ELSE rcv[b]
    <3>1. next \in Receiver /\ Heir(rcv[b], next)
      BY <1>0, <1>4 DEF AllStarted, Heir, r
    <3>2. rcv'[b] = Unlinked(next, {"final"})
      BY <2>1
    <3> HIDE DEF next
    <3> QED
      BY <3>1, <3>2, EntryHeir DEF Heir
  <2> QED
    BY <1>1, <2>2
<1>13. CASE ReceiverGetsCancel(a)
  <2> DEFINE q == SetState(rcv[a], "Cancelled")
  <2>1. RemoveDownload(a, Offline(q)) /\ rcv[a].sock = "open" /\ ~IsTerminal(rcv[a])
    BY <1>13 DEF ReceiverGetsCancel, ReceiverReads
  <2>2. q.state = "Cancelled" /\ q \in Receiver
    <3>1. q \in Receiver
      BY <1>0, SetStateReceiver DEF SameDownload
    <3> QED
      BY <1>0, <2>1, <3>1, CancelledState
  <2> HIDE DEF q
  <2>3. Offline(q) \in Receiver /\ Offline(q).state = "Cancelled"
        /\ Offline(q).sock = "closed"
    BY <2>2, OfflineReceiver DEF SameDownload
  <2>4. Heir(rcv[a], Offline(q))
    BY <2>3 DEF Heir, Started, IsTerminal, Terminal
  <2> QED
    BY <1>0, <1>1, <2>1, <2>3, <2>4, RemovedHeirs
<1>14. CASE ReceiverDisconnected(a)
  <2>1. rcv' = [rcv EXCEPT ![a] = IF IsTerminal(@) THEN Offline(@) ELSE Offline(Fail(@))]
    BY <1>14 DEF ReceiverDisconnected
  <2> DEFINE o == Offline(rcv[a])
  <2>2. /\ o.state = rcv[a].state /\ o.last = rcv[a].last /\ o.sock = "closed"
    BY <1>0 DEF Offline, Receiver
  <2> HIDE DEF o
  <2>3. IsTerminal(rcv[a]) => Heir(rcv[a], o)
    BY <1>0, <2>2 DEF Heir, Started, IsTerminal
  <2> QED
    BY <1>0, <1>1, <1>2, <1>4, <2>1, <2>3 DEF o
<1>15. CASE ReceiverIdleTimeout(a)
  BY <1>1, <1>2, <1>4, <1>15 DEF ReceiverIdleTimeout
<1>16. CASE ReceiverPause(a)
  BY <1>0, <1>1, <1>2, <1>3, <1>16 DEF ReceiverPause
<1>17. CASE ReceiverResume(a)
  <2>1. rcv[a].last \in TransferState \ {"Idle", "Finish"}
    BY <1>0, <1>17 DEF ReceiverResume, CanResume, Started, Receiver
  <2> QED
    BY <1>0, <1>1, <1>2, <1>3, <1>17, <2>1 DEF ReceiverResume
<1>18. CASE ReceiverCancel(a)
  BY <1>0, <1>1, <1>3, <1>18, RemovedHeirs DEF ReceiverCancel
<1> QED
  BY <1>5, <1>6, <1>7, <1>8, <1>9, <1>10, <1>11, <1>12, <1>13, <1>14, <1>15, <1>16, <1>17,
     <1>18 DEF ReceiverNext

LEMMA CancelledDownload ==
  ASSUME TypeInv, AllStarted, NEW a \in Attempt, ReceiverGetsCancel(a) \/ ReceiverCancel(a)
  PROVE  ~IsTerminal(rcv[a]) /\ rcv'[a].state = "Cancelled"
<1> DEFINE q == SetState(rcv[a], "Cancelled")
<1>1. rcv[a] \in Receiver /\ Started(rcv[a]) /\ "Cancelled" \in TransferState
  BY DEF TypeInv, TypeOK, AllStarted, TransferState
<1>2. ~IsTerminal(rcv[a]) /\ (rcv[a].sock = "open" \/ CanCancel(rcv[a]))
  BY DEF ReceiverGetsCancel, ReceiverReads, ReceiverCancel, CanCancel, IsTerminal, Terminal
<1>3. q \in Receiver /\ q.state = "Cancelled"
  BY <1>1, <1>2, CancelledState, SetStateReceiver DEF SameDownload
<1>4. RemoveDownload(a, Offline(q)) \/ RemoveDownload(a, q)
  BY DEF ReceiverGetsCancel, ReceiverCancel
<1> HIDE DEF q
<1>5. PICK r \in Receiver : r.state = "Cancelled" /\ RemoveDownload(a, r)
  BY <1>3, <1>4, OfflineReceiver DEF SameDownload
<1>6. rcv'[a] = r \/ rcv'[a] = Unlinked(r, {"part", Target})
  BY <1>5 DEF RemoveDownload
<1>7. Unlinked(r, {"part", Target}).state = r.state
  BY UnlinkedReceiver DEF Target
<1> QED
  BY <1>2, <1>5, <1>6, <1>7

-----------------------------------------------------------------------------
(* The end of the file, for late OffsetAcks too                            *)

\* the packets of a queue after one has been written, read or lost
LEMMA QueueParts ==
  ASSUME NEW q \in Seq(Packet)
  PROVE  /\ \A p \in Packet : \A i \in 1 .. Len(Append(q, p)) :
              \/ i \in 1 .. Len(q) /\ Append(q, p)[i] = q[i]
              \/ i = Len(q) + 1 /\ Append(q, p)[i] = p
         /\ q # <<>> => \A i \in 1 .. Len(Tail(q)) :
              i + 1 \in 1 .. Len(q) /\ Tail(q)[i] = q[i + 1]
         /\ \A k \in 0 .. Len(q) : \A i \in 1 .. Len(SubSeq(q, 1, k)) :
              i \in 1 .. Len(q) /\ SubSeq(q, 1, k)[i] = q[i]
  OBVIOUS

LEMMA ConcludesStays ==
  ASSUME NEW q \in Seq(Packet), NEW s, NEW t, Concludes(q, s),
         s.remaining = 0 => t.remaining = 0,
         t.waitingForOffsetAck => s.waitingForOffsetAck
  PROVE  /\ Concludes(q, t)
         /\ \A p \in Packet :
              (p.type = "Finish" => t.remaining = 0 /\ ~t.waitingForOffsetAck) =>
                Concludes(Append(q, p), t)
         /\ q # <<>> => Concludes(Tail(q), t)
         /\ \A k \in 0 .. Len(q) : Concludes(SubSeq(q, 1, k), t)
<1>1. Concludes(q, t)
  BY DEF Concludes
<1>2. ASSUME NEW p \in Packet,
             p.type = "Finish" => t.remaining = 0 /\ ~t.waitingForOffsetAck
      PROVE  Concludes(Append(q, p), t)
  <2> SUFFICES ASSUME NEW i \in 1 .. Len(Append(q, p)), Append(q, p)[i].type = "Finish"
               PROVE  t.remaining = 0 /\ ~t.waitingForOffsetAck
    BY DEF Concludes
  <2>1. \/ i \in 1 .. Len(q) /\ Append(q, p)[i] = q[i]
        \/ Append(q, p)[i] = p
    BY QueueParts
  <2> QED
    BY <1>1, <1>2, <2>1 DEF Concludes
<1>3. ASSUME q # <<>> PROVE Concludes(Tail(q), t)
  BY <1>1, <1>3, QueueParts DEF Concludes
<1>4. ASSUME NEW k \in 0 .. Len(q) PROVE Concludes(SubSeq(q, 1, k), t)
  BY <1>1, QueueParts DEF Concludes
<1> QED
  BY <1>1, <1>2, <1>3, <1>4

\* what SettledInv says, spelt out for the steps below
LEMMA SettledParts ==
  ASSUME SettledInv
  PROVE  LET now == snd.attempt
         IN /\ TypeInv /\ DownloadInv /\ DigestAddsUp /\ AllStarted
            /\ ConnectionInv /\ UnusedLinks /\ HashInv /\ HandleInv
            /\ now \in Attempt /\ now \in Nat /\ snd \in Sender
            /\ rcv \in [Attempt -> Receiver]
            /\ link \in [Attempt -> {"none", "up", "down"}]
            /\ toR \in [Attempt -> Seq(Packet)] /\ toS \in [Attempt -> Seq(Packet)]
            /\ snd.remaining \in 0 .. Chunks /\ snd.pos \in 0 .. Chunks
            /\ snd.hashFrom \in 0 .. Chunks /\ Chunks \in Nat \ {0}
            /\ Outset(snd) /\ Settled /\ Concludes(toR[now], snd)
  BY ChunksAssumption, RetryAssumption
     DEF SettledInv, DownloadInv, ConnectionInv, TypeInv, TypeOK, Sender, Attempt

\* the Sender's steps on the connection it has
LEMMA KeptSettled ==
  ASSUME SettledInv, KeepsConnection, snd.remaining = 0 => snd'.remaining = 0,
         snd'.waitingForOffsetAck => snd.waitingForOffsetAck,
         \/ toR' = toR
         \/ \E p \in Packet :
              /\ Writes(p)
              /\ p.type = "Finish" => snd'.remaining = 0 /\ ~snd'.waitingForOffsetAck
  PROVE  Settled' /\ Concludes(toR[snd.attempt], snd)'
<1> DEFINE q == toR[snd.attempt]
<1>1. /\ q \in Seq(Packet) /\ Concludes(q, snd) /\ toR \in [Attempt -> Seq(Packet)]
      /\ snd.attempt \in Attempt /\ Settled
  BY SettledParts
<1>2. snd'.attempt = snd.attempt /\ UNCHANGED <<rcv, final>>
  BY DEF KeepsConnection
<1>3. Settled'
  BY <1>1, <1>2 DEF Settled
<1>4. \/ toR'[snd.attempt] = q
      \/ \E p \in Packet : /\ toR'[snd.attempt] = Append(q, p)
                           /\ p.type = "Finish" =>
                                snd'.remaining = 0 /\ ~snd'.waitingForOffsetAck
  BY <1>1 DEF Writes, Post
<1> HIDE DEF q
<1>5. Concludes(toR'[snd.attempt], snd')
  <2>1. Concludes(q, snd')
    BY <1>1, ConcludesStays
  <2>2. ASSUME NEW p \in Packet, p.type = "Finish" => snd'.remaining = 0 /\ ~snd'.waitingForOffsetAck
        PROVE  Concludes(Append(q, p), snd')
    BY <1>1, <2>2, ConcludesStays
  <2> QED
    BY <1>4, <2>1, <2>2
<1> QED
  BY <1>2, <1>3, <1>5

\* start(), onConnected() and onEncrypted() send the header and nothing else
LEMMA OpeningSender ==
  ASSUME Orderly, TypeInv, DigestAddsUp, Outset(snd),
         Start \/ SenderConnected \/ SenderEncrypted
  PROVE  LET now == snd.attempt
             header == Packet0("Header")
         IN /\ snd.sock \in {"none", "connecting", "handshake"}
            /\ snd' \in Sender /\ snd'.attempt = now
            /\ snd'.remaining = Chunks /\ snd'.pos = 0
            /\ snd'.cancelled = snd.cancelled /\ snd'.retryScheduled = snd.retryScheduled
            /\ IsTerminal(snd) => IsTerminal(snd')
            /\ snd'.sock \in {"connecting", "handshake", "open"}
            /\ snd'.sock = "handshake" => TLS
            /\ snd'.sock = "open" <=> snd'.waitingForOffsetAck
            /\ snd'.sock # "open" => snd'.sendScheduled = snd.sendScheduled
            /\ snd'.sock # "open" => toR' = toR /\ snd.sock # "handshake"
            /\ snd'.sock = "open" => toR' = [toR EXCEPT ![now] = Append(@, header)]
            /\ link' = link \/ link' = [link EXCEPT ![now] = "up"]
            /\ snd.sock = "connecting" => link' = [link EXCEPT ![now] = "up"]
            /\ UNCHANGED <<rcv, toS, part, final>>
<1>1. /\ snd \in Sender /\ Chunks \in Nat \ {0}
      /\ snd.sock \in {"none", "connecting", "handshake"}
      /\ snd.remaining = Chunks /\ snd.pos = 0 /\ ~snd.waitingForOffsetAck
  BY ChunksAssumption DEF TypeInv, TypeOK, Start, SenderConnected, SenderEncrypted, Outset
<1>2. ~snd.finishPending
  BY <1>1 DEF DigestAddsUp, DigestIsWhole
<1>3. /\ snd' \in Sender /\ snd'.attempt = snd.attempt
      /\ snd'.remaining = Chunks /\ snd'.pos = 0
      /\ snd'.cancelled = snd.cancelled /\ snd'.retryScheduled = snd.retryScheduled
      /\ IsTerminal(snd) => IsTerminal(snd')
      /\ snd'.sock \in {"connecting", "handshake", "open"}
      /\ snd'.sock = "open" => snd'.waitingForOffsetAck
      /\ snd'.sock # "open" =>
           /\ snd'.sendScheduled = snd.sendScheduled
           /\ snd'.waitingForOffsetAck = snd.waitingForOffsetAck
  BY <1>1, ConnectingSender
<1>4. ASSUME NEW t \in Sender, t.sock = "open"
      PROVE  SendHeader(SetState(t, "Transfering")).sock = "open"
  <2>1. SetState(t, "Transfering") \in Sender /\ SetState(t, "Transfering").sock = "open"
    BY <1>4, SetStateSender DEF Steady, TransferState
  <2> QED
    BY <2>1, SendHeaderSender
<1> DEFINE open == [snd EXCEPT !.sock = "open"]
<1>5. open \in Sender /\ open.sock = "open"
  BY <1>1 DEF Sender
<1>6. CASE Start
  <2>1. snd'.sock = "connecting" /\ snd.sock = "none"
    BY <1>1, <1>6, ConnectTransferSocketSender DEF Start
  <2> QED
    BY <1>1, <1>3, <1>6, <2>1 DEF Start
<1>7. CASE SenderConnected /\ TLS
  <2>1. snd'.sock = "handshake"
    BY <1>1, <1>7 DEF SenderConnected, Sender
  <2> QED
    BY <1>1, <1>3, <1>7, <2>1 DEF SenderConnected
<1>8. CASE SenderConnected /\ ~TLS
  <2>1. snd'.sock = "open"
    BY <1>4, <1>5, <1>8 DEF SenderConnected
  <2> QED
    BY <1>1, <1>3, <1>8, <2>1 DEF SenderConnected
<1>9. CASE SenderEncrypted
  <2>1. /\ snd' = SendHeader(SetState(open, "Transfering"))
        /\ toR' = [toR EXCEPT ![snd.attempt] = Append(@, Packet0("Header"))]
    BY <1>2, <1>9 DEF SenderEncrypted
  <2>2. snd'.sock = "open"
    BY <1>4, <1>5, <2>1
  <2> QED
    BY <1>1, <1>3, <1>9, <2>1, <2>2 DEF SenderEncrypted
<1> QED
  BY <1>6, <1>7, <1>8, <1>9

\* the Sender touches no download
LEMMA SenderElsewhere ==
  ASSUME SenderNext
  PROVE  UNCHANGED <<rcv, part, final>>
  BY DEF SenderNext, Start, SenderConnected, ConnectionRefused, SenderEncrypted, PinMismatch,
         SenderGetsOffsetAck, SenderGetsFinishAck, SenderGetsBusy, SenderGetsCancel,
         SenderGetsPause, SenderGetsResume, SendData, ReadError, BytesWritten,
         SenderDisconnected, OffsetAckTimeout, RetryTimer, SenderIdleTimeout,
         SenderPause, SenderResume, SenderCancel

LEMMA OpeningSettled ==
  ASSUME Orderly, SettledInv, Start \/ SenderConnected \/ SenderEncrypted
  PROVE  Outset(snd)' /\ Settled' /\ Concludes(toR[snd.attempt], snd)'
<1> DEFINE now == snd.attempt
           q == toR[now]
           header == Packet0("Header")
<1>1. /\ TypeInv /\ DigestAddsUp /\ Outset(snd) /\ Settled /\ Concludes(q, snd)
      /\ now \in Attempt /\ toR \in [Attempt -> Seq(Packet)] /\ q \in Seq(Packet)
      /\ Chunks \in Nat \ {0}
  BY SettledParts
<1>2. /\ snd.sock \in {"none", "connecting", "handshake"}
      /\ snd'.attempt = now /\ snd'.remaining = Chunks /\ snd'.pos = 0
      /\ snd'.cancelled = snd.cancelled /\ snd'.retryScheduled = snd.retryScheduled
      /\ IsTerminal(snd) => IsTerminal(snd')
      /\ snd'.sock \in {"connecting", "handshake", "open"}
      /\ snd'.sock = "handshake" => TLS
      /\ snd'.sock = "open" <=> snd'.waitingForOffsetAck
      /\ snd'.sock # "open" => snd'.sendScheduled = snd.sendScheduled
      /\ snd'.sock # "open" => toR' = toR
      /\ snd'.sock = "open" => toR' = [toR EXCEPT ![now] = Append(@, header)]
      /\ UNCHANGED <<rcv, final>>
  BY <1>1, OpeningSender
<1>3. Outset(snd')
  <2>1. snd'.sock # "open" => (TLS => ~snd'.sendScheduled)
    BY <1>1, <1>2 DEF Outset
  <2>2. ~snd'.retryScheduled
    BY <1>1, <1>2 DEF Outset
  <2>3. snd'.cancelled => IsTerminal(snd')
    BY <1>1, <1>2 DEF Outset
  <2> QED
    BY <1>2, <2>1, <2>2, <2>3 DEF Outset
<1>4. snd.remaining # 0
  BY <1>1, <1>2 DEF Outset
<1>5. Settled'
  BY <1>1, <1>2, <1>4 DEF Settled
<1>6. toR'[now] = q \/ toR'[now] = Append(q, header)
  BY <1>1, <1>2
<1>7. header \in Packet /\ header.type = "Header"
  BY PacketTypes DEF PacketKind, Packet0
<1> HIDE DEF q, header
<1>8. \A i \in 1 .. Len(q) : q[i].type # "Finish"
  BY <1>1, <1>4 DEF Concludes
<1>9. \A i \in 1 .. Len(Append(q, header)) : Append(q, header)[i].type # "Finish"
  BY <1>1, <1>7, <1>8, QueueParts
<1>10. Concludes(toR'[now], snd')
  BY <1>6, <1>8, <1>9 DEF Concludes
<1> QED
  BY <1>2, <1>3, <1>5, <1>10

LEMMA LearningSettled ==
  ASSUME SettledInv, NEW n \in 0 .. Chunks, Learns(n), snd.sock = "open" \/ n = 0
  PROVE  Outset(snd)' /\ Settled' /\ Concludes(toR[snd.attempt], snd)'
<1>1. /\ Outset(snd) /\ Settled /\ Concludes(toR[snd.attempt], snd) /\ Chunks \in Nat \ {0}
  BY SettledParts
<1>2. /\ KeepsConnection /\ toR' = toR /\ snd'.attempt = snd.attempt
      /\ UNCHANGED <<rcv, final>>
      /\ snd.waitingForOffsetAck /\ ~snd'.waitingForOffsetAck /\ snd'.sock = snd.sock
      /\ snd'.cancelled = snd.cancelled /\ snd'.retryScheduled = snd.retryScheduled
      /\ IsTerminal(snd) => IsTerminal(snd')
      /\ snd'.remaining = IF snd.cancelled \/ IsTerminal(snd) THEN snd.remaining
                          ELSE Chunks - n
  BY DEF Learns, KeepsConnection
<1>3. snd.remaining = Chunks /\ snd.sock \notin {"none", "connecting", "handshake"}
  BY <1>1, <1>2 DEF Outset
<1>4. Settled'
  BY <1>1, <1>2, <1>3 DEF Settled
<1>5. Concludes(toR[snd.attempt], snd)'
  BY <1>1, <1>2 DEF Concludes
<1>6. snd'.retryScheduled => snd'.sock = "closed" /\ snd'.remaining > 0
  BY <1>1, <1>2, <1>3 DEF Outset
<1>7. snd'.cancelled => snd'.sock = "closed" \/ IsTerminal(snd')
  BY <1>1, <1>2 DEF Outset
<1>8. Outset(snd')
  BY <1>2, <1>3, <1>6, <1>7 DEF Outset
<1> QED
  BY <1>4, <1>5, <1>8

\* sending, listening and closing
LEMMA GoingSettled ==
  ASSUME Orderly, SettledInv, Idles \/ SendsChunk \/ SendsFinish \/ SendsCancel
  PROVE  Outset(snd)' /\ Settled' /\ Concludes(toR[snd.attempt], snd)'
<1>1. /\ TypeInv /\ DigestAddsUp /\ Outset(snd) /\ snd.remaining \in 0 .. Chunks
      /\ snd.pos \in 0 .. Chunks /\ snd.hashFrom \in 0 .. Chunks /\ Chunks \in Nat \ {0}
      /\ snd \in Sender
  BY SettledParts
<1>2. /\ KeepsConnection
      /\ snd'.sock = snd.sock => (TLS /\ snd.sock # "open" =>
                                    (snd'.sendScheduled => snd.sendScheduled))
      /\ snd'.sock \in {snd.sock, "closed"}
      /\ IsTerminal(snd) => IsTerminal(snd')
  BY DEF Idles, SendsChunk, SendsFinish, SendsCancel, KeepsConnection, Pumped, Orderly
<1>3. CASE Idles
  <2>1. /\ toR' = toR
        /\ snd'.remaining = snd.remaining /\ snd'.pos = snd.pos
        /\ snd'.waitingForOffsetAck => snd.waitingForOffsetAck
        /\ snd'.sock = snd.sock => snd'.cancelled = snd.cancelled
        /\ snd'.retryScheduled =>
             \/ snd.retryScheduled
             \/ snd'.sock = "closed" /\ (snd.remaining # 0 \/ snd.waitingForOffsetAck)
    BY <1>3 DEF Idles, SameDigest
  <2>2. Settled' /\ Concludes(toR[snd.attempt], snd)'
    BY <1>2, <2>1, KeptSettled
  <2>3. snd'.retryScheduled => snd'.sock = "closed" /\ snd'.remaining > 0
    BY <1>1, <1>2, <2>1 DEF Outset
  <2>4. snd'.cancelled => snd'.sock = "closed" \/ IsTerminal(snd')
    BY <1>1, <1>2, <2>1 DEF Outset
  <2>5. Outset(snd')
    BY <1>1, <1>2, <2>1, <2>3, <2>4 DEF Outset
  <2> QED
    BY <2>2, <2>5
<1>4. CASE SendsChunk
  <2> DEFINE p == [type |-> "Data", n |-> snd.pos + 1]
  <2>1. /\ Writes(p) /\ snd'.sock = snd.sock /\ snd'.cancelled = snd.cancelled
        /\ ~IsTerminal(snd) /\ ~snd.cancelled /\ snd.sendScheduled
        /\ ~snd.waitingForOffsetAck /\ ~snd'.waitingForOffsetAck
        /\ snd.remaining > 0 /\ snd.pos < Chunks
        /\ snd'.retryScheduled = snd.retryScheduled
        /\ snd.sock \in {"handshake", "open"}
    BY <1>4 DEF SendsChunk, MaySend, Connected
  <2>2. snd.sock = "open"
    BY <1>1, <2>1 DEF Outset
  <2>3. p \in Packet /\ p.type = "Data"
    <3>1. snd.pos + 1 \in Chunk
      BY <1>1, <2>1 DEF Chunk
    <3> QED
      BY <3>1, PacketTypes
  <2> HIDE DEF p
  <2>4. Settled' /\ Concludes(toR[snd.attempt], snd)'
    BY <1>1, <1>2, <2>1, <2>3, KeptSettled
  <2>5. Outset(snd')
    BY <1>1, <2>1, <2>2 DEF Outset
  <2> QED
    BY <2>4, <2>5
<1>5. CASE SendsFinish
  <2> DEFINE p == FinishPacket(snd)
  <2>1. /\ Writes(p) /\ snd'.sock = snd.sock /\ snd.sock = "open"
        /\ snd.finishPending /\ ~IsTerminal(snd) /\ snd'.cancelled = snd.cancelled
        /\ snd'.remaining = snd.remaining /\ snd'.pos = snd.pos
        /\ snd'.waitingForOffsetAck = snd.waitingForOffsetAck
        /\ snd'.retryScheduled = snd.retryScheduled
    BY <1>5 DEF SendsFinish
  <2>2. snd.remaining = 0 /\ ~snd.waitingForOffsetAck
    BY <1>1, <2>1 DEF DigestAddsUp, DigestIsWhole
  <2>3. p \in Packet
    BY <1>1 DEF FinishPacket, Packet, PacketKind, Chunk
  <2> HIDE DEF p
  <2>4. Settled' /\ Concludes(toR[snd.attempt], snd)'
    BY <1>2, <2>1, <2>2, <2>3, KeptSettled
  <2>5. Outset(snd')
    BY <1>1, <1>2, <2>1, <2>2 DEF Outset
  <2> QED
    BY <2>4, <2>5
<1>6. CASE SendsCancel
  <2> DEFINE p == Packet0("Cancel")
  <2>1. /\ Writes(p) /\ snd'.sock = snd.sock
        /\ ~snd'.waitingForOffsetAck /\ IsTerminal(snd')
        /\ snd'.remaining = snd.remaining /\ snd'.pos = snd.pos
        /\ snd'.retryScheduled = snd.retryScheduled
    BY <1>6 DEF SendsCancel
  <2>2. p \in Packet /\ p.type = "Cancel"
    BY PacketTypes DEF PacketKind, Packet0
  <2> HIDE DEF p
  <2>3. Settled' /\ Concludes(toR[snd.attempt], snd)'
    BY <1>2, <2>1, <2>2, KeptSettled
  <2>4. Outset(snd')
    BY <1>1, <1>2, <2>1 DEF Outset
  <2> QED
    BY <2>3, <2>4
<1> QED
  BY <1>3, <1>4, <1>5, <1>6

LEMMA ReconnectingSettled ==
  ASSUME SettledInv, Reconnects
  PROVE  Outset(snd)' /\ Settled' /\ Concludes(toR[snd.attempt], snd)'
<1> DEFINE new == snd'.attempt
<1>1. /\ snd.attempt \in Attempt /\ Outset(snd) /\ Settled /\ snd.remaining \in 0 .. Chunks
      /\ FutureUnused /\ UnusedLinks /\ Chunks \in Nat \ {0}
  BY SettledParts DEF ConnectionInv
<1>2. /\ snd.retryScheduled /\ snd.attempt < RetryMax /\ ~snd.cancelled
      /\ new = snd.attempt + 1 /\ snd'.sock = "connecting"
      /\ snd'.remaining = Chunks /\ snd'.pos = 0 /\ ~snd'.waitingForOffsetAck
      /\ snd'.cancelled = snd.cancelled /\ ~snd'.retryScheduled /\ ~snd'.sendScheduled
      /\ UNCHANGED <<rcv, toR, final>>
  BY DEF Reconnects
<1>3. new \in Attempt /\ new > snd.attempt
  BY <1>1, <1>2, RetryAssumption DEF Attempt
<1>4. toR'[new] = <<>>
  BY <1>1, <1>2, <1>3 DEF FutureUnused, UnusedLinks
<1>5. ~final.there
  BY <1>1, <1>2 DEF Outset, Settled
<1> HIDE DEF new
<1>6. Concludes(toR'[new], snd')
  BY <1>4 DEF Concludes
<1>7. Settled' /\ Outset(snd')
  BY <1>2, <1>5 DEF Settled, Outset
<1> QED
  BY <1>6, <1>7 DEF new

LEMMA SenderSettled ==
  ASSUME Orderly, SettledInv, SenderNext
  PROVE  SettledInv'
<1>1. /\ TypeInv /\ DownloadInv /\ DigestAddsUp /\ AllStarted /\ Outset(snd)
      /\ Chunks \in Nat \ {0}
  BY SettledParts
<1>2. DownloadInv' /\ DigestAddsUp' /\ AllStarted'
  <2>1. DownloadInv'
    BY <1>1, NextDownload DEF Orderly, Next
  <2>2. DigestAddsUp'
    BY <1>1, SenderDigest
  <2> QED
    BY <1>1, <2>1, <2>2, SenderElsewhere DEF AllStarted
<1>3. Outset(snd)' /\ Settled' /\ Concludes(toR[snd.attempt], snd)'
  <2>1. CASE SenderGetsOffsetAck /\ Learns(Head(toS[snd.attempt]).n)
    <3>1. snd.sock = "open" /\ toS[snd.attempt] # <<>>
      BY <2>1 DEF SenderGetsOffsetAck, SenderReads
    <3> QED
      BY <1>1, <2>1, <3>1, OffsetType, LearningSettled
  <2>2. CASE Learns(0)
    BY <1>1, <2>2, LearningSettled
  <2> QED
    BY <1>1, <2>1, <2>2, SenderSteps, OpeningSettled, GoingSettled, ReconnectingSettled
<1> QED
  BY <1>2, <1>3 DEF SettledInv

LEMMA ReceiverSettled ==
  ASSUME Orderly, SettledInv, NEW a \in Attempt, ReceiverNext(a)
  PROVE  SettledInv'
<1>1. /\ TypeInv /\ DownloadInv /\ ConnectionInv /\ DigestAddsUp /\ AllStarted
      /\ Outset(snd) /\ Settled
      /\ snd.attempt \in Attempt /\ toR \in [Attempt -> Seq(Packet)]
      /\ Concludes(toR[snd.attempt], snd)
  BY SettledParts
<1>2. DownloadInv'
  BY <1>1, NextDownload DEF Orderly, Next
<1>3. Proceeds(a) /\ (final' = final \/ Finalizes(a))
  BY <1>1, ReceiverDownload DEF Orderly
<1>4. snd' = snd
  BY <1>3 DEF Proceeds
<1>5. AllStarted'
  BY <1>1, ReceiverHeirs
<1>6. Concludes(toR'[snd.attempt], snd)
  <2> DEFINE q == toR[snd.attempt]
  <2>1. toR'[snd.attempt] = q \/ (q # <<>> /\ toR'[snd.attempt] = Tail(q))
    BY <1>1, <1>3 DEF Proceeds
  <2>2. q \in Seq(Packet) /\ Concludes(q, snd)
    BY <1>1
  <2> HIDE DEF q
  <2> QED
    BY <2>1, <2>2, ConcludesStays
<1>7. Settled'
  <2>1. CASE final' = final
    BY <1>1, <1>3, <1>4, <2>1 DEF Settled, Proceeds
  <2>2. CASE Finalizes(a)
    <3>1. a = snd.attempt /\ ReceiverReads(a, "Finish") /\ IsTerminal(rcv'[a])
      BY <2>2 DEF Finalizes
    <3>2. 1 \in 1 .. Len(toR[a]) /\ toR[a][1].type = "Finish"
      BY <1>1, <3>1 DEF ReceiverReads
    <3>3. snd.remaining = 0
      BY <1>1, <3>1, <3>2 DEF Concludes
    <3> QED
      BY <1>4, <3>1, <3>3 DEF Settled
  <2> QED
    BY <1>3, <2>1, <2>2
<1>8. Outset(snd)' /\ DigestAddsUp'
  BY <1>1, <1>4 DEF Outset, DigestAddsUp, DigestIsWhole, IsTerminal
<1> QED
  BY <1>2, <1>4, <1>5, <1>6, <1>7, <1>8 DEF SettledInv

LEMMA BreakSettled ==
  ASSUME Orderly, SettledInv, NEW a \in Attempt, Break(a)
  PROVE  SettledInv'
<1>1. /\ DownloadInv /\ DigestAddsUp /\ AllStarted /\ Outset(snd) /\ Settled
      /\ snd.attempt \in Attempt /\ toR \in [Attempt -> Seq(Packet)]
      /\ Concludes(toR[snd.attempt], snd)
  BY SettledParts
<1>2. DownloadInv'
  BY <1>1, NextDownload DEF Orderly, Next
<1>3. UNCHANGED <<snd, rcv, final>>
  BY DEF Break
<1>4. Concludes(toR'[snd.attempt], snd)
  <2> DEFINE q == toR[snd.attempt]
  <2>1. PICK i \in 0 .. Len(toR[a]) : toR' = [toR EXCEPT ![a] = SubSeq(@, 1, i)]
    BY DEF Break
  <2>2. toR'[snd.attempt] = q \/ (i \in 0 .. Len(q) /\ toR'[snd.attempt] = SubSeq(q, 1, i))
    BY <1>1, <2>1
  <2>3. q \in Seq(Packet) /\ Concludes(q, snd)
    BY <1>1
  <2> HIDE DEF q
  <2>4. \A k \in 0 .. Len(q) : Concludes(SubSeq(q, 1, k), snd)
    BY <2>3, ConcludesStays
  <2> QED
    BY <2>2, <2>3, <2>4
<1> QED
  BY <1>1, <1>2, <1>3, <1>4
     DEF SettledInv, AllStarted, Settled, Outset, DigestAddsUp, DigestIsWhole, IsTerminal

LEMMA NextSettled ==
  ASSUME Orderly, SettledInv, [Next]_vars
  PROVE  SettledInv'
<1>1. CASE UNCHANGED vars
  <2>1. DownloadInv'
    BY NextDownload DEF Orderly, SettledInv
  <2> QED
    BY <1>1, <2>1 DEF vars, SettledInv, DigestAddsUp, DigestIsWhole, IsTerminal, Outset,
                      Settled, AllStarted, Concludes
<1> QED
  BY <1>1, SenderSettled, ReceiverSettled, BreakSettled DEF Next

LEMMA InitSettled == Init => SettledInv
<1> SUFFICES ASSUME Init PROVE SettledInv
  OBVIOUS
<1>1. DownloadInv
  BY InitIntegrity DEF IntegrityInv
<1>2. NewSender \in Sender /\ "Queued" \in TransferState
  BY ChunksAssumption, RetryAssumption DEF NewSender, Sender, TransferState, Attempt
<1>3. SameStream(NewSender, snd) /\ snd.sock = "none" /\ ~snd.retryScheduled
      /\ ~snd.sendScheduled
  <2>1. Steady(NewSender, SetState(NewSender, "Queued"))
    BY <1>2, SetStateSender
  <2>2. NewSender.sock = "none" /\ ~NewSender.retryScheduled /\ ~NewSender.sendScheduled
    BY DEF NewSender
  <2>3. SetState(NewSender, "Queued").sendScheduled = NewSender.sendScheduled
    BY DEF SetState, NewSender
  <2> QED
    BY <2>1, <2>2, <2>3 DEF Init, Steady, SameStream
<1>4. /\ snd.remaining = Chunks /\ snd.pos = 0 /\ snd.hashFrom = 0 /\ snd.attempt = 0
      /\ ~snd.waitingForOffsetAck /\ ~snd.finishPending /\ ~snd.cancelled
  BY <1>3 DEF SameStream, NewSender
<1>5. DigestAddsUp
  BY <1>4, ChunksAssumption DEF DigestAddsUp, DigestIsWhole
<1>6. Outset(snd)
  BY <1>3, <1>4 DEF Outset
<1>7. Settled
  BY DEF Init, Settled, NoFile
<1>8. AllStarted
  <2>1. Started(NoReceiver)
    BY DEF Started, NoReceiver
  <2> QED
    BY <2>1 DEF Init, AllStarted
<1>9. Concludes(toR[snd.attempt], snd)
  <2>1. toR[snd.attempt] = <<>>
    BY <1>4, RetryAssumption DEF Init, Attempt
  <2> QED
    BY <2>1 DEF Concludes
<1> QED
  BY <1>1, <1>5, <1>6, <1>7, <1>8, <1>9 DEF SettledInv

-----------------------------------------------------------------------------
(* With TLS: one connection, whatever is lost                              *)

NeverBusy == \A a \in Attempt : \A i \in 1 .. Len(toS[a]) : toS[a][i].type # "Busy"

\* with TLS nothing schedules a retry: a lost connection is a TlsError, and the
\* busy answer cannot be read
TlsInv ==
  /\ DownloadInv /\ AllStarted
  /\ snd.attempt = 0 /\ ~snd.retryScheduled /\ NeverBusy
  /\ final.there => IsTerminal(rcv[snd.attempt])

LEMMA TlsParts ==
  ASSUME TlsInv
  PROVE  /\ TypeInv /\ DownloadInv /\ AllStarted /\ NeverBusy
         /\ snd \in Sender /\ snd.attempt \in Attempt
         /\ snd.attempt = 0 /\ ~snd.retryScheduled
         /\ toS \in [Attempt -> Seq(Packet)]
  BY DEF TlsInv, DownloadInv, TypeInv, TypeOK, Sender

\* the replies are read, lost, or become more
LEMMA NeverBusyStays ==
  ASSUME toS \in [Attempt -> Seq(Packet)], NeverBusy, NEW a \in Attempt,
         \/ toS' = toS
         \/ toS[a] # <<>> /\ toS' = [toS EXCEPT ![a] = Tail(@)]
         \/ \E p \in Packet : p.type # "Busy" /\ toS' = Post(toS, a, p)
         \/ \E k \in 0 .. Len(toS[a]) : toS' = [toS EXCEPT ![a] = SubSeq(@, 1, k)]
  PROVE  NeverBusy'
<1> SUFFICES ASSUME NEW b \in Attempt, NEW i \in 1 .. Len(toS'[b])
             PROVE  toS'[b][i].type # "Busy"
  BY DEF NeverBusy
<1> DEFINE q == toS[b]
<1>1. q \in Seq(Packet) /\ \A j \in 1 .. Len(q) : q[j].type # "Busy"
  BY DEF NeverBusy
<1>2. \/ toS'[b] = q
      \/ q # <<>> /\ toS'[b] = Tail(q)
      \/ \E p \in Packet : p.type # "Busy" /\ toS'[b] = Append(q, p)
      \/ \E k \in 0 .. Len(q) : toS'[b] = SubSeq(q, 1, k)
  BY DEF Post
<1> HIDE DEF q
<1>3. ASSUME NEW p \in Packet, p.type # "Busy", toS'[b] = Append(q, p)
      PROVE  toS'[b][i].type # "Busy"
  BY <1>1, <1>3, QueueParts
<1>4. ASSUME NEW k \in 0 .. Len(q), toS'[b] = SubSeq(q, 1, k)
      PROVE  toS'[b][i].type # "Busy"
  BY <1>1, <1>4, QueueParts
<1>5. CASE q # <<>> /\ toS'[b] = Tail(q)
  BY <1>1, <1>5, QueueParts
<1> QED
  BY <1>1, <1>2, <1>3, <1>4, <1>5

LEMMA TlsSender ==
  ASSUME TLS, TlsInv, SenderNext
  PROVE  snd'.attempt = 0 /\ ~snd'.retryScheduled /\ NeverBusy'
<1>1. /\ TypeInv /\ NeverBusy /\ snd.attempt \in Attempt
      /\ snd.attempt = 0 /\ ~snd.retryScheduled
      /\ toS \in [Attempt -> Seq(Packet)]
  BY TlsParts
<1>2. ~SenderGetsBusy
  <2> SUFFICES ASSUME SenderGetsBusy PROVE FALSE
    OBVIOUS
  <2>1. toS[snd.attempt] # <<>> /\ Head(toS[snd.attempt]).type = "Busy"
    BY DEF SenderGetsBusy, SenderReads
  <2>2. 1 \in 1 .. Len(toS[snd.attempt]) /\ toS[snd.attempt][1] = Head(toS[snd.attempt])
    BY <1>1, <2>1
  <2> QED
    BY <1>1, <2>1, <2>2 DEF NeverBusy
<1>3. CASE Start \/ SenderConnected \/ SenderEncrypted
  <2>1. toS' = toS
    BY <1>3 DEF Start, SenderConnected, SenderEncrypted
  <2>2. snd'.attempt = snd.attempt /\ snd'.retryScheduled = snd.retryScheduled
    BY <1>1, <1>3, ConnectingSender
  <2> QED
    BY <1>1, <2>1, <2>2 DEF NeverBusy
<1>4. ASSUME KeepsConnection, snd'.retryScheduled => snd.retryScheduled
      PROVE  snd'.attempt = 0 /\ ~snd'.retryScheduled /\ NeverBusy'
  BY <1>1, <1>4, NeverBusyStays DEF KeepsConnection
<1>5. CASE Idles
  BY <1>2, <1>4, <1>5 DEF Idles
<1>6. ASSUME NEW n, Learns(n)
      PROVE  snd'.attempt = 0 /\ ~snd'.retryScheduled /\ NeverBusy'
  BY <1>4, <1>6 DEF Learns
<1>7. CASE SendsChunk \/ SendsFinish \/ SendsCancel
  BY <1>4, <1>7 DEF SendsChunk, SendsFinish, SendsCancel
<1>8. ~Reconnects
  BY <1>1 DEF Reconnects
<1> QED
  BY <1>1, <1>3, <1>5, <1>6, <1>7, <1>8, SenderSteps

LEMMA TlsReceiver ==
  ASSUME TLS, TlsInv, NEW a \in Attempt, ReceiverNext(a)
  PROVE  NeverBusy'
<1>1. NeverBusy /\ toS \in [Attempt -> Seq(Packet)]
  BY TlsParts
<1>2. /\ \A type \in PacketKind : Packet0(type) \in Packet /\ Packet0(type).type = type
      /\ {"Cancel", "FinishAck", "Pause", "Resume"} \subseteq PacketKind \ {"Busy"}
  BY PacketTypes DEF Packet0, PacketKind
<1>3. CASE ReceiverGetsHeader(a)
  <2> DEFINE kept == IF Resumable THEN part.data ELSE <<>>
             ack == [type |-> "OffsetAck", n |-> Len(kept)]
  <2>1. toS' = Post(toS, a, ack)
    BY <1>3 DEF ReceiverGetsHeader
  <2>2. ack.type # "Busy" /\ ack \in Packet
    <3>1. Len(kept) \in Chunk
      BY ChunksAssumption DEF Resumable, Chunk
    <3>2. "OffsetAck" \in PacketKind
      BY DEF PacketKind
    <3> HIDE DEF kept
    <3> QED
      BY <3>1, <3>2 DEF Packet
  <2> HIDE DEF ack
  <2> QED
    BY <1>1, <2>1, <2>2, NeverBusyStays
<1>4. CASE ~ReceiverGetsHeader(a)
  <2>1. \/ toS' = toS
        \/ \E type \in {"Cancel", "FinishAck", "Pause", "Resume"} :
             toS' = Post(toS, a, Packet0(type))
    BY <1>4 DEF ReceiverNext, Accept, RejectBusy, RejectHeader,
           ReceiverGetsData, WriteError, ChecksumFailed, FinalizeDownload, FinalizeFails,
           ReceiverGetsCancel, ReceiverDisconnected, ReceiverIdleTimeout, ReceiverPause,
           ReceiverResume, ReceiverCancel
  <2>2. toS' = toS \/ \E p \in Packet : p.type # "Busy" /\ toS' = Post(toS, a, p)
    BY <1>2, <2>1
  <2> QED
    BY <1>1, <2>2, NeverBusyStays
<1> QED
  BY <1>3, <1>4

LEMMA NextTls ==
  ASSUME TLS, ResumePartial, TlsInv, [Next]_vars
  PROVE  TlsInv'
<1>1. /\ TypeInv /\ DownloadInv /\ AllStarted /\ NeverBusy
      /\ snd.attempt \in Attempt /\ snd.attempt = 0 /\ ~snd.retryScheduled
      /\ final.there => IsTerminal(rcv[snd.attempt])
      /\ toS \in [Attempt -> Seq(Packet)]
  BY TlsParts DEF TlsInv
<1>2. DownloadInv'
  BY <1>1, NextDownload
<1>3. CASE SenderNext
  BY <1>1, <1>2, <1>3, TlsSender, SenderElsewhere DEF TlsInv, AllStarted
<1>4. ASSUME NEW a \in Attempt, ReceiverNext(a)
      PROVE  TlsInv'
  <2>1. Proceeds(a) /\ (final' = final \/ Finalizes(a))
    BY <1>1, <1>4, ReceiverDownload
  <2>2. snd' = snd
    BY <2>1 DEF Proceeds
  <2>3. final'.there => IsTerminal(rcv'[snd.attempt])
    BY <1>1, <2>1 DEF Proceeds, Finalizes
  <2> QED
    BY <1>1, <1>2, <1>4, <2>2, <2>3, ReceiverHeirs, TlsReceiver DEF TlsInv
<1>5. ASSUME NEW a \in Attempt, Break(a)
      PROVE  TlsInv'
  <2>1. UNCHANGED <<snd, rcv, final>>
    BY <1>5 DEF Break
  <2>2. NeverBusy'
    BY <1>1, <1>5, NeverBusyStays DEF Break
  <2> QED
    BY <1>1, <1>2, <2>1, <2>2 DEF TlsInv, AllStarted
<1>6. CASE UNCHANGED vars
  BY <1>1, <1>2, <1>6 DEF vars, TlsInv, AllStarted, NeverBusy
<1> QED
  BY <1>3, <1>4, <1>5, <1>6 DEF Next

-----------------------------------------------------------------------------
(* The delivered file, for every set of events                             *)

DeliveredInv == IF TLS THEN TlsInv ELSE SettledInv

LEMMA InitDelivered == Init => DeliveredInv
<1> SUFFICES ASSUME Init PROVE DeliveredInv
  OBVIOUS
<1>1. SettledInv /\ DownloadInv /\ AllStarted
  BY InitSettled DEF SettledInv
<1>2. /\ final = NoFile /\ toS = [a \in Attempt |-> <<>>]
      /\ snd \in {NewSender, SetState(NewSender, "Queued")}
  BY DEF Init
<1>3. ~final.there /\ NeverBusy
  BY <1>2 DEF NoFile, NeverBusy
<1>4. snd.attempt = 0 /\ ~snd.retryScheduled
  <2>1. NewSender.attempt = 0 /\ ~NewSender.retryScheduled
    BY DEF NewSender
  <2>2. NewSender \in Sender /\ "Queued" \in TransferState
    BY ChunksAssumption, RetryAssumption DEF NewSender, Sender, TransferState, Attempt
  <2> QED
    BY <1>2, <2>1, <2>2, SetStateSender DEF Steady, SameStream
<1> QED
  BY <1>1, <1>3, <1>4 DEF DeliveredInv, TlsInv

LEMMA NextDelivered ==
  ASSUME ResumePartial, DeliveredInv, [Next]_vars
  PROVE  DeliveredInv'
  BY NextTls, NextSettled DEF DeliveredInv, Orderly

LEMMA DeliveredInvariant == ResumePartial => (Spec => []DeliveredInv)
<1>1. ASSUME ResumePartial PROVE Spec => []DeliveredInv
  <2>1. DeliveredInv /\ [Next]_vars => DeliveredInv'
    BY <1>1, NextDelivered
  <2> QED
    BY <2>1, InitDelivered, PTL DEF Spec
<1> QED
  BY <1>1

LEMMA DeliveredStep ==
  ASSUME ResumePartial, DeliveredInv, [Next]_vars, final.there
  PROVE  final' = final /\ snd'.attempt = snd.attempt
<1>1. /\ DownloadInv /\ TypeInv /\ IsTerminal(rcv[snd.attempt]) /\ ~snd.retryScheduled
  <2>1. CASE TLS
    BY <2>1, TlsParts DEF DeliveredInv, TlsInv
  <2>2. CASE ~TLS
    BY <2>2, SettledParts DEF DeliveredInv, Outset, Settled
  <2> QED
    BY <2>1, <2>2
<1>2. final' = final
  <2>1. ASSUME NEW a \in Attempt PROVE ~Finalizes(a)
    BY <1>1 DEF Finalizes, ReceiverReads
  <2> QED
    BY <1>1, <2>1, NextDownload
<1>3. CASE SenderNext
  <2>1. ~Reconnects
    BY <1>1 DEF Reconnects
  <2>2. CASE Start \/ SenderConnected \/ SenderEncrypted
    BY <1>1, <1>2, <2>2, ConnectingSender
  <2>3. CASE KeepsConnection
    BY <1>2, <2>3 DEF KeepsConnection
  <2>4. ASSUME NEW n, Learns(n) PROVE KeepsConnection
    BY <2>4 DEF Learns
  <2>5. Idles \/ SendsChunk \/ SendsFinish \/ SendsCancel => KeepsConnection
    BY DEF Idles, SendsChunk, SendsFinish, SendsCancel
  <2> QED
    BY <1>1, <1>2, <1>3, <2>1, <2>2, <2>3, <2>4, <2>5, SenderSteps
<1>4. ASSUME NEW a \in Attempt, ReceiverNext(a) \/ Break(a)
      PROVE  UNCHANGED snd
  BY <1>4, ElsewhereSender
<1> QED
  BY <1>2, <1>3, <1>4 DEF Next, vars

(***************************************************************************)
(* A file that has its final name is not touched again: not by the         *)
(* Receivers of connections that are gone, nor by a late cancel or a       *)
(* second finalizeDownload() (receiver.cpp).                               *)
(***************************************************************************)
THEOREM DeliveredFileStays ==
  ASSUME ResumePartial
  PROVE  Spec => DeliveredFileIsStable
<1>1. Spec => []DeliveredInv
  BY DeliveredInvariant
<1>2. DeliveredInv /\ [Next]_vars => [final.there => final' = final]_vars
  BY DeliveredStep
<1> QED
  BY <1>1, <1>2, PTL DEF Spec, DeliveredFileIsStable

(***************************************************************************)
(* A delivered upload is not sent again: no retry is scheduled, or fires,  *)
(* once the last chunk has been sent (onDisconnected(), sender.cpp).       *)
(***************************************************************************)
THEOREM DeliveredUploadsStay ==
  ASSUME ResumePartial
  PROVE  Spec => DeliveredOnce
<1>1. Spec => []DeliveredInv
  BY DeliveredInvariant
<1>2. DeliveredInv /\ [Next]_vars => [final.there => snd'.attempt = snd.attempt]_vars
  BY DeliveredStep
<1> QED
  BY <1>1, <1>2, PTL DEF Spec, DeliveredOnce

LEMMA FinishedStep ==
  ASSUME ResumePartial, DeliveredInv, FinishedDownloadIsWhole, FileIntegrity', [Next]_vars
  PROVE  FinishedDownloadIsWhole'
<1> SUFFICES ASSUME NEW b \in Attempt, rcv'[b].state = "Finish"
             PROVE  final'.there /\ final'.data = Source
  BY DEF FinishedDownloadIsWhole
<1>1. TypeInv /\ AllStarted
  BY TlsParts, SettledParts DEF DeliveredInv
<1>2. CASE rcv[b].state = "Finish"
  BY <1>2, DeliveredStep DEF FinishedDownloadIsWhole
<1>3. ASSUME NEW a \in Attempt, FinalizeDownload(a)
      PROVE  final'.there
  BY <1>3 DEF FinalizeDownload
<1>4. CASE \E a \in Attempt : ReceiverNext(a)
  BY <1>1, <1>2, <1>3, <1>4, ReceiverHeirs DEF FileIntegrity
<1>5. CASE UNCHANGED rcv
  BY <1>2, <1>5
<1>6. SenderNext \/ UNCHANGED vars \/ (\E a \in Attempt : Break(a)) => UNCHANGED rcv
  BY SenderElsewhere DEF vars, Break
<1> QED
  BY <1>4, <1>5, <1>6 DEF Next

-----------------------------------------------------------------------------
(* Queues                                                                  *)

\* the Receiver got nothing more, the Sender sent nothing more
LEMMA FlowStays ==
  ASSUME NEW q \in Seq(Packet), NEW r, NEW t, NEW s, NEW u, Flow(q, r, s),
         t.got = r.got, t.file = "null" <=> r.file = "null",
         IsTerminal(r) => IsTerminal(t),
         u.waitingForOffsetAck => s.waitingForOffsetAck, IsTerminal(s) => IsTerminal(u)
  PROVE  Flow(q, t, u)
  BY DEF Flow, Placed

LEMMA FlowParts ==
  ASSUME NEW q \in Seq(Packet), NEW r, NEW s, Flow(q, r, s)
  PROVE  /\ \A i \in 0 .. Len(q) : Flow(SubSeq(q, 1, i), r, s)
         /\ \A p \in Packet :
              Placed(p, Len(q) + 1, r, s) /\ p.type # "Header" => Flow(Append(q, p), r, s)
         /\ IsTerminal(r) /\ q # <<>> => Flow(Tail(q), r, s)
<1>1. ASSUME NEW i \in 0 .. Len(q) PROVE Flow(SubSeq(q, 1, i), r, s)
  <2>1. \A j \in 1 .. Len(SubSeq(q, 1, i)) : j \in 1 .. Len(q) /\ SubSeq(q, 1, i)[j] = q[j]
    BY <1>1, QueueParts
  <2> DEFINE u == SubSeq(q, 1, i)
  <2> HIDE DEF u
  <2> QED
    BY <2>1 DEF Flow, u
<1>2. ASSUME NEW p \in Packet, Placed(p, Len(q) + 1, r, s), p.type # "Header"
      PROVE  Flow(Append(q, p), r, s)
  <2>1. \A j \in 1 .. Len(Append(q, p)) :
          \/ j \in 1 .. Len(q) /\ Append(q, p)[j] = q[j]
          \/ j = Len(q) + 1 /\ Append(q, p)[j] = p
    BY <1>2, QueueParts
  <2> DEFINE u == Append(q, p)
  <2> HIDE DEF u
  <2> QED
    BY <1>2, <2>1 DEF Flow, u
<1>3. ASSUME IsTerminal(r), q # <<>> PROVE Flow(Tail(q), r, s)
  <2>1. \A j \in 1 .. Len(Tail(q)) : j + 1 \in 1 .. Len(q) /\ Tail(q)[j] = q[j + 1] /\ j \in Nat
    BY <1>3, QueueParts
  <2> DEFINE u == Tail(q)
  <2> HIDE DEF u
  <2>2. ASSUME NEW j \in 1 .. Len(u) PROVE Placed(u[j], j, r, s)
    <3>1. Placed(q[j + 1], j + 1, r, s) /\ u[j] = q[j + 1]
      BY <2>1, <2>2 DEF Flow, u
    <3> QED
      BY <1>3, <3>1 DEF Placed
  <2>3. ASSUME NEW j \in 1 .. Len(u), NEW k \in 1 .. Len(u),
               u[j].type = "Header", u[k].type = "Header"
        PROVE  j = k
    <3>1. j + 1 = k + 1 /\ j \in Nat /\ k \in Nat
      BY <2>1, <2>3 DEF Flow, u
    <3> QED
      BY <3>1
  <2> QED
    BY <2>2, <2>3 DEF Flow, u
<1> QED
  BY <1>1, <1>2, <1>3

\* when the header is the first packet, nothing of the file follows it yet
LEMMA HeaderFlow ==
  ASSUME NEW q \in Seq(Packet), NEW r, NEW s, NEW t, Flow(q, r, s),
         q # <<>>, Head(q).type = "Header"
  PROVE  /\ r.file = "null"
         /\ Flow(Tail(q), t, s)
<1>1. 1 \in 1 .. Len(q) /\ q[1] = Head(q)
  OBVIOUS
<1>2. r.file = "null"
  BY <1>1 DEF Flow, Placed
<1>3. ASSUME NEW j \in 1 .. Len(Tail(q))
      PROVE  Placed(Tail(q)[j], j, t, s) /\ Tail(q)[j].type # "Header"
  <2>1. Tail(q)[j] = q[j + 1] /\ j + 1 \in 1 .. Len(q) /\ j + 1 # 1
    BY <1>3
  <2>2. Placed(q[j + 1], j + 1, r, s) /\ q[j + 1].type # "Header"
    BY <1>1, <2>1 DEF Flow
  <2>3. q[j + 1].type \notin {"Header", "Data", "Finish"}
    BY <1>2, <2>1, <2>2 DEF Placed
  <2> QED
    BY <2>1, <2>2, <2>3 DEF Placed
<1> QED
  BY <1>2, <1>3 DEF Flow

\* a Receiver at work that reads a chunk finds the one it expects
LEMMA DataFlow ==
  ASSUME NEW q \in Seq(Packet), NEW r, NEW s, NEW t, Flow(q, r, s),
         q # <<>>, Head(q).type = "Data", ~IsTerminal(r), r.got \in Seq(Chunk),
         t.got = Append(r.got, Head(q).n), t.file = r.file
  PROVE  /\ r.file # "null" /\ ~s.waitingForOffsetAck
         /\ Head(q).n = Len(r.got) + 1 /\ Head(q).n \in Chunk
         /\ Len(t.got) = Len(r.got) + 1
         /\ Flow(Tail(q), t, s)
<1>1. 1 \in 1 .. Len(q) /\ q[1] = Head(q) /\ q[1] \in Packet
  OBVIOUS
<1>2. /\ r.file # "null" /\ ~s.waitingForOffsetAck
      /\ Head(q).n = Len(r.got) + 1
  BY <1>1 DEF Flow, Placed
<1>3. Head(q).n \in Chunk
  BY <1>1 DEF Packet
<1>4. Len(t.got) = Len(r.got) + 1 /\ Len(r.got) \in Nat
  BY <1>3
<1>5. ASSUME NEW j \in 1 .. Len(Tail(q))
      PROVE  Placed(Tail(q)[j], j, t, s)
  <2>1. Tail(q)[j] = q[j + 1] /\ j + 1 \in 1 .. Len(q) /\ j + 1 # 1 /\ j \in Nat
    BY <1>5
  <2>2. Placed(q[j + 1], j + 1, r, s)
    BY <2>1 DEF Flow
  <2> DEFINE m == Len(r.got)
             n == Len(t.got)
  <2>3. m \in Nat /\ n = m + 1 /\ j \in Nat
    BY <1>4, <2>1
  <2> HIDE DEF m, n
  <2>4. m + (j + 1) = n + j
    BY <2>3
  <2> QED
    BY <1>2, <2>1, <2>2, <2>4 DEF Placed, m, n
<1>6. ASSUME NEW j \in 1 .. Len(Tail(q))
      PROVE  Tail(q)[j].type # "Header"
  <2>1. Tail(q)[j] = q[j + 1] /\ j + 1 \in 1 .. Len(q)
    BY <1>6
  <2>2. Placed(q[j + 1], j + 1, r, s)
    BY <2>1 DEF Flow
  <2> QED
    BY <1>2, <2>1, <2>2 DEF Placed
<1> QED
  BY <1>2, <1>3, <1>4, <1>5, <1>6 DEF Flow

-----------------------------------------------------------------------------
(* The Receivers' steps                                                    *)

\* what the current connection carries, spelt out for the steps below
LEMMA StreamParts ==
  ASSUME StreamInv
  PROVE  LET now == snd.attempt
         IN /\ SettledInv /\ TypeInv /\ DownloadInv /\ ConnectionInv /\ UnusedLinks
            /\ HandleInv /\ DigestAddsUp /\ AllStarted /\ NoReplies
            /\ now \in Attempt /\ now \in Nat /\ snd \in Sender
            /\ rcv \in [Attempt -> Receiver]
            /\ link \in [Attempt -> {"none", "up", "down"}]
            /\ toR \in [Attempt -> Seq(Packet)] /\ toS \in [Attempt -> Seq(Packet)]
            /\ toR[now] \in Seq(Packet) /\ toS[now] \in Seq(Packet)
            /\ rcv[now].got \in Seq(Chunk)
            /\ snd.remaining \in 0 .. Chunks /\ snd.pos \in 0 .. Chunks
            /\ snd.hashFrom \in 0 .. Chunks /\ Chunks \in Nat \ {0}
            /\ Outset(snd) /\ Settled /\ Concludes(toR[now], snd)
            /\ Flow(toR[now], rcv[now], snd)
            /\ Lead(toR[now], rcv[now], snd, link[now] = "up")
            /\ Replies(toS[now], rcv[now], snd)
            /\ Early(toR[now], toS[now], rcv[now], snd)
<1>1. /\ SettledInv /\ NoReplies /\ CurrentStream
  BY DEF StreamInv
<1>2. rcv[snd.attempt].got \in Seq(Chunk)
  BY <1>1, SettledParts DEF Receiver, Content
<1> QED
  BY <1>1, <1>2, SettledParts DEF CurrentStream

\* what a Receiver may write is no OffsetAck unless it reads the header
Answers(a) ==
  toS' = toS \/ \E p \in Packet : p.type # "OffsetAck" /\ toS' = Post(toS, a, p)

LEMMA PostedReplies ==
  ASSUME TypeInv, NEW a \in Attempt, Answers(a), NEW b \in Attempt
  PROVE  /\ \A i \in 1 .. Len(toS'[b]) : toS'[b][i].type = "OffsetAck" =>
                i \in 1 .. Len(toS[b]) /\ toS'[b][i] = toS[b][i]
         /\ link[b] = "none" => toS'[b] = toS[b]
<1>1. toS \in [Attempt -> Seq(Packet)] /\ toS[b] \in Seq(Packet)
  BY DEF TypeInv, TypeOK
<1>2. toS'[b] = toS[b] \/ \E p \in Packet : /\ p.type # "OffsetAck" /\ link[b] # "none"
                                            /\ toS'[b] = Append(toS[b], p)
  BY <1>1 DEF Answers, Post
<1> DEFINE q == toS[b]
<1>3. ASSUME NEW p \in Packet, p.type # "OffsetAck", NEW i \in 1 .. Len(Append(q, p)),
             Append(q, p)[i].type = "OffsetAck"
      PROVE  i \in 1 .. Len(q) /\ Append(q, p)[i] = q[i]
  BY <1>1, <1>3
<1> QED
  BY <1>1, <1>2, <1>3

\* a Receiver that gets no more of the file, or gives it up, disturbs nothing
LEMMA RestingStream ==
  ASSUME StreamInv, NEW a \in Attempt, Proceeds(a), Answers(a),
         LET r == rcv[snd.attempt]
             t == rcv'[snd.attempt]
         IN /\ t.got = r.got /\ (t.file = "null" <=> r.file = "null")
            /\ toR' = toR \/ a # snd.attempt \/ IsTerminal(t)
  PROVE  CurrentStream'
<1> DEFINE now == snd.attempt
           q == toR[now]
           r == rcv[now]
           t == rcv'[now]
<1>1. /\ TypeInv /\ now \in Attempt /\ snd' = snd /\ q \in Seq(Packet)
      /\ toR \in [Attempt -> Seq(Packet)] /\ link \in [Attempt -> {"none", "up", "down"}]
      /\ Flow(q, r, snd) /\ Lead(q, r, snd, link[now] = "up") /\ Replies(toS[now], r, snd)
      /\ Early(q, toS[now], r, snd)
  BY StreamParts DEF Proceeds
<1>2. /\ IsTerminal(r) => IsTerminal(t)
      /\ link'[now] = "up" => link[now] = "up"
      /\ \/ toR'[now] = q
         \/ IsTerminal(t) /\ q # <<>> /\ toR'[now] = Tail(q)
  <2>1. IsTerminal(r) => IsTerminal(t)
    BY <1>1 DEF Proceeds
  <2>2. link'[now] = "up" => link[now] = "up"
    BY <1>1 DEF Proceeds
  <2>3. toR' = toR \/ (toR[a] # <<>> /\ toR' = [toR EXCEPT ![a] = Tail(@)])
    BY DEF Proceeds
  <2>4. toR'[now] = q \/ (a = now /\ q # <<>> /\ toR'[now] = Tail(q))
    BY <1>1, <2>3
  <2>5. toR' = toR \/ a # now \/ IsTerminal(t)
    OBVIOUS
  <2> QED
    BY <2>1, <2>2, <2>4, <2>5
<1> HIDE DEF q, t, r
<1>3. Flow(q, t, snd)
  BY <1>1, <1>2, FlowStays DEF t, r
<1>4. Flow(toR'[now], t, snd)
  BY <1>1, <1>2, <1>3, FlowParts
<1>5. Lead(toR'[now], t, snd, link'[now] = "up")
  BY <1>1, <1>2 DEF Lead, t, r
<1>6. Replies(toS'[now], t, snd)
  <2>1. \A i \in 1 .. Len(toS'[now]) : toS'[now][i].type = "OffsetAck" =>
          i \in 1 .. Len(toS[now]) /\ toS'[now][i] = toS[now][i]
    BY <1>1, PostedReplies
  <2>2. t.got = r.got /\ (t.file = "null" <=> r.file = "null")
    BY DEF t, r
  <2> QED
    BY <1>1, <2>1, <2>2 DEF Replies
<1>7. Early(toR'[now], toS'[now], t, snd)
  <2> SUFFICES ASSUME snd.sock = "handshake"
               PROVE  /\ t.file = "null"
                      /\ \A i \in 1 .. Len(toR'[now]) :
                           toR'[now][i].type = "Cancel" /\ IsTerminal(snd)
                      /\ \A i \in 1 .. Len(toS'[now]) : toS'[now][i].type # "OffsetAck"
    BY DEF Early
  <2>1. /\ r.file = "null"
        /\ \A i \in 1 .. Len(q) : q[i].type = "Cancel" /\ IsTerminal(snd)
        /\ \A i \in 1 .. Len(toS[now]) : toS[now][i].type # "OffsetAck"
    BY <1>1 DEF Early
  <2>2. t.file = "null"
    BY <2>1 DEF t, r
  <2>3. \A i \in 1 .. Len(toR'[now]) : toR'[now][i].type = "Cancel" /\ IsTerminal(snd)
    <3>1. q # <<>> => \A i \in 1 .. Len(Tail(q)) :
                        i + 1 \in 1 .. Len(q) /\ Tail(q)[i] = q[i + 1]
      BY <1>1, QueueParts
    <3> QED
      BY <1>2, <2>1, <3>1
  <2>4. \A i \in 1 .. Len(toS'[now]) : toS'[now][i].type # "OffsetAck"
    BY <1>1, <2>1, PostedReplies
  <2> QED
    BY <2>2, <2>3, <2>4
<1> QED
  BY <1>1, <1>4, <1>5, <1>6, <1>7 DEF CurrentStream, t

\* the header is read once, and answered with what is kept
LEMMA HeaderStream ==
  ASSUME ResumePartial, StreamInv, NEW a \in Attempt, ReceiverGetsHeader(a)
  PROVE  CurrentStream'
<1> DEFINE q == toR[a]
           t == rcv'[a]
           kept == IF Resumable THEN part.data ELSE <<>>
           ack == [type |-> "OffsetAck", n |-> Len(kept)]
<1>1. /\ TypeInv /\ ConnectionInv /\ UnusedLinks /\ q \in Seq(Packet)
      /\ rcv \in [Attempt -> Receiver] /\ rcv[a] \in Receiver
      /\ toR \in [Attempt -> Seq(Packet)] /\ toS \in [Attempt -> Seq(Packet)]
  BY StreamParts
<1>2. /\ a = snd.attempt /\ q # <<>> /\ Head(q).type = "Header"
      /\ snd' = snd /\ link' = link /\ toR'[a] = Tail(q)
      /\ snd.sock # "handshake"
  BY <1>1, CurrentReads DEF ReceiverGetsHeader, ReceiverReads, ReadByReceiver
<1>3. /\ Flow(q, rcv[a], snd) /\ Lead(q, rcv[a], snd, link[a] = "up")
      /\ Replies(toS[a], rcv[a], snd)
  BY <1>2, StreamParts
<1>4. rcv[a].file = "null" /\ Flow(Tail(q), t, snd)
  <2> HIDE DEF q, t
  <2> QED
    BY <1>1, <1>2, <1>3, HeaderFlow
<1>5. t.file # "null" /\ t.got = kept
  <2>1. t = SetState([rcv[a] EXCEPT !.got = kept, !.file = Target], "Transfering")
    BY DEF ReceiverGetsHeader
  <2> DEFINE r == [rcv[a] EXCEPT !.got = kept, !.file = Target]
  <2>2. kept \in Content /\ Target = "part"
    BY <1>1 DEF TypeInv, TypeOK, File, Content, Target
  <2> HIDE DEF kept
  <2>3. r \in Receiver /\ r.got = kept /\ r.file = "part"
    BY <1>1, <2>2 DEF Receiver
  <2>4. "Transfering" \in TransferState
    BY DEF TransferState
  <2> HIDE DEF r
  <2>5. SameDownload(r, SetState(r, "Transfering"))
    BY <2>3, <2>4, SetStateReceiver
  <2> QED
    BY <2>1, <2>3, <2>5 DEF SameDownload, r
<1>6. toS' = Post(toS, a, ack)
  BY DEF ReceiverGetsHeader
<1>7. Replies(toS'[a], t, snd)
  <2> SUFFICES ASSUME snd.waitingForOffsetAck, NEW i \in 1 .. Len(toS'[a]),
                      toS'[a][i].type = "OffsetAck"
               PROVE  t.file # "null" /\ toS'[a][i].n = Len(t.got)
    BY DEF Replies
  <2>1. \A j \in 1 .. Len(toS[a]) : toS[a][j].type # "OffsetAck"
    BY <1>3, <1>4 DEF Replies
  <2>2. toS'[a] = toS[a] \/ toS'[a] = Append(toS[a], ack)
    BY <1>1, <1>6 DEF Post
  <2> DEFINE back == toS[a]
  <2>3. back \in Seq(Packet)
    BY <1>1
  <2> HIDE DEF ack, back
  <2>4. toS'[a][i] = ack
    BY <2>1, <2>2, <2>3 DEF back
  <2> QED
    BY <1>5, <2>4 DEF ack
<1>8. Lead(Tail(q), t, snd, link'[a] = "up")
  BY <1>3, <1>4 DEF Lead
<1> QED
  BY <1>2, <1>4, <1>7, <1>8 DEF CurrentStream, Early

\* each chunk that is read is the next one of the file
LEMMA DataStream ==
  ASSUME StreamInv, NEW a \in Attempt, ReceiverGetsData(a)
  PROVE  /\ CurrentStream'
         /\ a = snd.attempt /\ rcv[a].file # "null"
         /\ rcv'[a].got = Append(rcv[a].got, Len(rcv[a].got) + 1)
         /\ Len(rcv[a].got) < Chunks
<1> DEFINE q == toR[a]
           r == rcv[a]
           t == rcv'[a]
           chunk == Head(q).n
           next == Len(r.got) + 1
<1>1. /\ TypeInv /\ ConnectionInv /\ q \in Seq(Packet)
      /\ rcv \in [Attempt -> Receiver] /\ rcv[a] \in Receiver
      /\ toR \in [Attempt -> Seq(Packet)] /\ r.got \in Seq(Chunk)
  BY StreamParts DEF Receiver, Content
<1>2. /\ a = snd.attempt /\ q # <<>> /\ Head(q).type = "Data" /\ ~IsTerminal(r)
      /\ snd' = snd /\ link' = link /\ toS' = toS /\ toR'[a] = Tail(q)
      /\ snd.sock # "handshake"
  BY <1>1, CurrentReads DEF ReceiverGetsData, ReceiverReads, ReadByReceiver
<1>3. /\ Flow(q, r, snd) /\ Lead(q, r, snd, link[a] = "up")
  BY <1>2, StreamParts
<1> DEFINE u == [r EXCEPT !.got = Append(r.got, chunk)]
<1>4. u.got = Append(r.got, chunk) /\ u.file = r.file /\ u.state = r.state
  BY <1>1 DEF Receiver
<1>5. (r.file = "null" \/ next > Chunks) \/ t = u
  BY <1>1 DEF ReceiverGetsData
<1> HIDE DEF u, q
<1>6. /\ r.file # "null" /\ ~snd.waitingForOffsetAck
      /\ chunk = next /\ chunk \in Chunk
      /\ Len(u.got) = next
      /\ Flow(Tail(q), u, snd)
  <2> HIDE DEF r
  <2> QED
    BY <1>1, <1>2, <1>3, <1>4, DataFlow DEF r
<1>7. t = u /\ Len(r.got) < Chunks
  BY <1>1, <1>5, <1>6, ChunksAssumption DEF Chunk
<1>8. Lead(Tail(q), t, snd, link'[a] = "up")
  <2> DEFINE m == Len(r.got)
             n == Len(t.got)
             k == Len(q)
             l == Len(Tail(q))
  <2>1. k \in Nat /\ l = k - 1 /\ m \in Nat /\ n = m + 1
    BY <1>1, <1>2, <1>6, <1>7
  <2> HIDE DEF m, n, k, l
  <2>2. n + l = m + k
    BY <2>1
  <2>3. t.file = r.file /\ t.state = r.state
    BY <1>4, <1>7
  <2> HIDE DEF t
  <2> QED
    BY <1>2, <1>3, <2>2, <2>3 DEF Lead, IsTerminal, m, n, k, l
<1>9. Replies(toS'[a], t, snd)
  BY <1>6 DEF Replies
<1> HIDE DEF t, r
<1>10. CurrentStream'
  BY <1>2, <1>6, <1>7, <1>8, <1>9 DEF CurrentStream, Early, t
<1> QED
  BY <1>2, <1>4, <1>6, <1>7, <1>10 DEF t, r

\* the Finish packet is read when all has been read
LEMMA FinishStream ==
  ASSUME StreamInv, NEW a \in Attempt, ReceiverReads(a, "Finish")
  PROVE  /\ a = snd.attempt /\ rcv[a].file # "null" /\ ~IsTerminal(rcv[a])
         /\ snd.remaining = 0 /\ Len(rcv[a].got) = Chunks
<1>1. /\ TypeInv /\ ConnectionInv /\ toR \in [Attempt -> Seq(Packet)]
      /\ rcv[snd.attempt].got \in Seq(Chunk)
  BY StreamParts
<1>2. /\ a = snd.attempt /\ toR[a] # <<>> /\ Head(toR[a]).type = "Finish"
      /\ ~IsTerminal(rcv[a])
  BY <1>1, CurrentReads DEF ReceiverReads
<1>3. 1 \in 1 .. Len(toR[a]) /\ toR[a][1] = Head(toR[a])
  BY <1>1, <1>2
<1>4. Placed(Head(toR[a]), 1, rcv[a], snd) /\ snd.remaining = 0
  BY <1>2, <1>3, StreamParts DEF Flow, Concludes
<1>5. rcv[a].file # "null" /\ Chunks + 1 = Len(rcv[a].got) + 1
  BY <1>2, <1>4 DEF Placed
<1>6. Len(rcv[a].got) \in Nat
  BY <1>1, <1>2
<1> QED
  BY <1>2, <1>4, <1>5, <1>6, ChunksAssumption

\* and the rest only ends a download or leaves it as it is
LEMMA OtherStream ==
  ASSUME ResumePartial, StreamInv, NEW a \in Attempt,
         \/ Accept(a) \/ RejectBusy(a) \/ ReceiverDisconnected(a)
         \/ ReceiverIdleTimeout(a) \/ ReceiverPause(a) \/ ReceiverResume(a)
         \/ WriteError(a) \/ ChecksumFailed(a) \/ ReceiverGetsCancel(a)
         \/ ReceiverCancel(a) \/ RejectHeader(a)
         \/ FinalizeDownload(a) \/ FinalizeFails(a)
  PROVE  CurrentStream'
<1> DEFINE now == snd.attempt
<1>1. /\ TypeInv /\ ConnectionInv /\ UnusedLinks /\ now \in Attempt
      /\ rcv \in [Attempt -> Receiver] /\ rcv[a] \in Receiver
  BY StreamParts
<1>2. Answers(a)
  <2>1. \A type \in PacketKind : Packet0(type) \in Packet /\ Packet0(type).type = type
    BY PacketTypes DEF Packet0
  <2>2. {"Busy", "Cancel", "FinishAck", "Pause", "Resume"} \subseteq PacketKind \ {"OffsetAck"}
    BY DEF PacketKind
  <2> QED
    BY <2>1, <2>2
       DEF Answers, Accept, RejectBusy, ReceiverDisconnected, ReceiverIdleTimeout,
           ReceiverPause, ReceiverResume, WriteError, ChecksumFailed, ReceiverGetsCancel,
           ReceiverCancel, RejectHeader, FinalizeDownload, FinalizeFails
<1>3. ASSUME NEW type, ReceiverReads(a, type)
      PROVE  a = now /\ ~IsTerminal(rcv[a])
  BY <1>1, <1>3, CurrentReads DEF ReceiverReads
<1>4. CASE \/ Accept(a) \/ RejectBusy(a) \/ ReceiverDisconnected(a)
           \/ ReceiverIdleTimeout(a) \/ ReceiverPause(a) \/ ReceiverResume(a)
  <2>1. Proceeds(a) /\ Rests(a)
    BY <1>1, <1>4, RestingReceiver
  <2>2. toR' = toR
    BY <1>4 DEF Accept, RejectBusy, ReceiverDisconnected, ReceiverIdleTimeout,
                ReceiverPause, ReceiverResume
  <2>3. rcv'[now].got = rcv[now].got /\ rcv'[now].file = rcv[now].file
    BY <1>1, <2>1 DEF Rests, SameDownload
  <2> QED
    BY <1>2, <2>1, <2>2, <2>3, RestingStream
<1>5. CASE WriteError(a) \/ ChecksumFailed(a) \/ ReceiverGetsCancel(a) \/ ReceiverCancel(a)
  <2>1. Proceeds(a) /\ Removes(a)
    BY <1>1, <1>5, RemovingReceiver
  <2>2. /\ rcv'[now].got = rcv[now].got
        /\ rcv'[now].file = "null" <=> rcv[now].file = "null"
    BY <1>1, <2>1 DEF Removes
  <2>3. ASSUME NEW r \in Receiver, IsTerminal(r), RemoveDownload(a, r)
        PROVE  IsTerminal(rcv'[a])
    <3>1. rcv'[a] = r \/ rcv'[a] = Unlinked(r, {"part", Target})
      BY <2>3 DEF RemoveDownload
    <3>2. Unlinked(r, {"part", Target}).state = r.state
      BY <2>3, UnlinkedReceiver DEF Target
    <3> QED
      BY <2>3, <3>1, <3>2 DEF IsTerminal
  <2>4. toR' = toR \/ a # now \/ IsTerminal(rcv'[now])
    <3>1. CASE WriteError(a) \/ ChecksumFailed(a)
      <4>1. Offline(Fail(rcv[a])) \in Receiver /\ IsTerminal(Offline(Fail(rcv[a])))
        BY <1>1, FailedReceiver DEF SameDownload
      <4>2. RemoveDownload(a, Offline(Fail(rcv[a])))
        BY <3>1 DEF WriteError, ChecksumFailed
      <4> QED
        BY <2>3, <4>1, <4>2
    <3>2. CASE ReceiverGetsCancel(a) \/ ReceiverCancel(a)
      <4>1. rcv'[a].state = "Cancelled"
        BY <1>1, <3>2, CancelledDownload, StreamParts
      <4> QED
        BY <4>1 DEF IsTerminal, Terminal
    <3> QED
      BY <1>5, <3>1, <3>2
  <2> QED
    BY <1>2, <2>1, <2>2, <2>4, RestingStream
<1>6. CASE RejectHeader(a)
  <2>1. /\ Proceeds(a) /\ SameDownload(rcv[a], rcv'[a]) /\ IsTerminal(rcv'[a])
    BY <1>1, <1>6, RejectingReceiver
  <2>2. a = now
    BY <1>3, <1>6 DEF RejectHeader
  <2> QED
    BY <1>2, <2>1, <2>2, RestingStream DEF SameDownload
<1>7. CASE FinalizeDownload(a) \/ FinalizeFails(a)
  <2>1. /\ Proceeds(a) /\ IsTerminal(rcv'[a]) /\ rcv'[a].got = rcv[a].got
        /\ rcv'[a].file = "null" => rcv[a].file = "null"
    BY <1>1, <1>7, FinalizingReceiver
  <2>2. a = now /\ ReceiverReads(a, "Finish")
    BY <1>3, <1>7 DEF FinalizeDownload, FinalizeFails
  <2>3. rcv[a].file # "null"
    BY <2>2, FinishStream
  <2> QED
    BY <1>2, <2>1, <2>2, <2>3, RestingStream
<1> QED
  BY <1>4, <1>5, <1>6, <1>7

LEMMA ReceiverStream ==
  ASSUME ResumePartial, StreamInv, NEW a \in Attempt, ReceiverNext(a)
  PROVE  CurrentStream' /\ NoReplies'
<1>1. /\ DownloadInv /\ NoReplies
      /\ toS \in [Attempt -> Seq(Packet)] /\ link \in [Attempt -> {"none", "up", "down"}]
  BY StreamParts
<1>2. Proceeds(a)
  BY <1>1, ReceiverDownload
<1>3. CurrentStream'
  BY HeaderStream, DataStream, OtherStream DEF ReceiverNext
<1>4. toS' = toS \/ \E p : toS' = Post(toS, a, p)
  BY DEF ReceiverNext, Accept, RejectBusy, ReceiverGetsHeader, RejectHeader,
         ReceiverGetsData, WriteError, ChecksumFailed, FinalizeDownload, FinalizeFails,
         ReceiverGetsCancel, ReceiverDisconnected, ReceiverIdleTimeout, ReceiverPause,
         ReceiverResume, ReceiverCancel
<1>5. ASSUME NEW b \in Attempt, link'[b] = "none"
      PROVE  toS'[b] = <<>>
  <2>1. link[b] = "none" /\ toS[b] = <<>>
    BY <1>1, <1>2, <1>5 DEF Proceeds, NoReplies
  <2>2. toS' = toS \/ b # a \/ link[b] = "up"
    BY <1>4 DEF Post
  <2>3. b # a => toS'[b] = toS[b]
    BY <1>1, <1>4 DEF Post
  <2> QED
    BY <2>1, <2>2, <2>3
<1> QED
  BY <1>3, <1>5 DEF NoReplies

LEMMA BreakStream ==
  ASSUME StreamInv, NEW a \in Attempt, Break(a)
  PROVE  CurrentStream' /\ NoReplies'
<1> DEFINE now == snd.attempt
           q == toR[now]
           b == toS[now]
<1>1. /\ toS \in [Attempt -> Seq(Packet)] /\ toR \in [Attempt -> Seq(Packet)]
      /\ q \in Seq(Packet) /\ b \in Seq(Packet)
      /\ link \in [Attempt -> {"none", "up", "down"}] /\ now \in Attempt
      /\ UNCHANGED <<snd, rcv>> /\ NoReplies
      /\ link[a] # "none" /\ link' = [link EXCEPT ![a] = "down"]
      /\ Flow(q, rcv[now], snd) /\ Lead(q, rcv[now], snd, link[now] = "up")
      /\ Replies(b, rcv[now], snd) /\ Early(q, b, rcv[now], snd)
  BY StreamParts DEF Break, Hangup
<1>2. PICK i \in 0 .. Len(toR[a]), j \in 0 .. Len(toS[a]) :
        /\ toR' = [toR EXCEPT ![a] = SubSeq(@, 1, i)]
        /\ toS' = [toS EXCEPT ![a] = SubSeq(@, 1, j)]
  BY DEF Break
<1>3. /\ toR'[now] = q \/ (i \in 0 .. Len(q) /\ toR'[now] = SubSeq(q, 1, i))
      /\ toS'[now] = b \/ (j \in 0 .. Len(b) /\ toS'[now] = SubSeq(b, 1, j))
      /\ a # now => toR'[now] = q
  BY <1>1, <1>2
<1>4. Lead(toR'[now], rcv[now], snd, link'[now] = "up")
  <2>1. CASE a = now
    BY <1>1, <2>1 DEF Lead
  <2>2. CASE a # now
    BY <1>1, <1>3, <2>2
  <2> QED
    BY <2>1, <2>2
<1>5. NoReplies'
  BY <1>1, <1>2 DEF NoReplies
<1> HIDE DEF q, b
<1>6. Flow(toR'[now], rcv[now], snd)
  <2>1. \A k \in 0 .. Len(q) : Flow(SubSeq(q, 1, k), rcv[now], snd)
    BY <1>1, FlowParts
  <2> QED
    BY <1>1, <1>3, <2>1
<1>7. /\ \A k \in 1 .. Len(toR'[now]) : k \in 1 .. Len(q) /\ toR'[now][k] = q[k]
      /\ \A k \in 1 .. Len(toS'[now]) : k \in 1 .. Len(b) /\ toS'[now][k] = b[k]
  BY <1>1, <1>3, QueueParts
<1>8. Replies(toS'[now], rcv[now], snd)
  BY <1>1, <1>7 DEF Replies
<1>9. Early(toR'[now], toS'[now], rcv[now], snd)
  BY <1>1, <1>7 DEF Early
<1> QED
  BY <1>1, <1>4, <1>5, <1>6, <1>8, <1>9 DEF CurrentStream

-----------------------------------------------------------------------------
(* The Sender's steps                                                      *)

\* before the header there is nothing but Cancel packets, and no OffsetAck
LEMMA EarlyConnection ==
  ASSUME StreamInv, snd.sock \in {"none", "connecting", "handshake"}
  PROVE  LET now == snd.attempt
         IN /\ rcv[now].file = "null"
            /\ \A i \in 1 .. Len(toR[now]) :
                 toR[now][i].type = "Cancel" /\ IsTerminal(snd)
            /\ \A i \in 1 .. Len(toS[now]) : toS[now][i].type # "OffsetAck"
<1> DEFINE now == snd.attempt
<1>1. CASE snd.sock = "handshake"
  BY <1>1, StreamParts DEF Early
<1>2. CASE snd.sock \in {"none", "connecting"}
  <2>1. link[now] = "none"
    BY <1>2, StreamParts DEF ConnectionInv, FutureUnused
  <2>2. toR[now] = <<>> /\ toS[now] = <<>> /\ rcv[now] = NoReceiver
    BY <2>1, StreamParts DEF UnusedLinks, NoReplies
  <2>3. \A i \in 1 .. Len(toR[now]) : FALSE
    BY <2>2
  <2>4. \A i \in 1 .. Len(toS[now]) : FALSE
    BY <2>2
  <2> QED
    BY <2>2, <2>3, <2>4 DEF NoReceiver
<1> QED
  BY <1>1, <1>2

\* a connection that is being opened carries the header, and no reply yet
LEMMA ConnectingStream ==
  ASSUME Plain, StreamInv, Start \/ SenderConnected \/ SenderEncrypted
  PROVE  CurrentStream' /\ NoReplies'
<1> DEFINE now == snd.attempt
           q == toR[now]
           header == Packet0("Header")
<1>1. /\ TypeInv /\ DigestAddsUp /\ Outset(snd) /\ NoReplies /\ now \in Attempt
      /\ q \in Seq(Packet) /\ toR \in [Attempt -> Seq(Packet)]
      /\ link \in [Attempt -> {"none", "up", "down"}]
  BY StreamParts
<1>2. /\ snd.sock \in {"none", "connecting", "handshake"}
      /\ snd'.attempt = now
      /\ IsTerminal(snd) => IsTerminal(snd')
      /\ snd'.sock \in {"connecting", "handshake", "open"}
      /\ snd'.sock = "open" <=> snd'.waitingForOffsetAck
      /\ snd'.sock # "open" => toR' = toR
      /\ snd'.sock = "open" => toR' = [toR EXCEPT ![now] = Append(@, header)]
      /\ link' = link \/ link' = [link EXCEPT ![now] = "up"]
      /\ UNCHANGED <<rcv, toS>>
  BY <1>1, OpeningSender DEF Plain
<1>3. /\ rcv[now].file = "null"
      /\ \A i \in 1 .. Len(q) : q[i].type = "Cancel" /\ IsTerminal(snd)
      /\ \A i \in 1 .. Len(toS[now]) : toS[now][i].type # "OffsetAck"
  BY <1>2, EarlyConnection
<1>4. /\ snd'.sock # "open" => toR'[now] = q
      /\ snd'.sock = "open" => toR'[now] = Append(q, header)
  BY <1>1, <1>2
<1>5. header \in Packet /\ header.type = "Header"
  BY PacketTypes DEF PacketKind, Packet0
<1>6. NoReplies'
  BY <1>1, <1>2 DEF NoReplies
<1> HIDE DEF q, header
<1>7. Flow(toR'[now], rcv[now], snd')
  <2>1. CASE snd'.sock # "open"
    BY <1>2, <1>3, <1>4, <2>1 DEF Flow, Placed
  <2>2. CASE snd'.sock = "open"
    <3>1. \A i \in 1 .. Len(Append(q, header)) :
            \/ Append(q, header)[i].type = "Cancel" /\ IsTerminal(snd')
            \/ i = Len(q) + 1 /\ Append(q, header)[i].type = "Header"
      BY <1>1, <1>2, <1>3, <1>5, QueueParts
    <3> DEFINE u == Append(q, header)
    <3>2. u = toR'[now]
      BY <1>4, <2>2
    <3> HIDE DEF u
    <3>3. ASSUME NEW i \in 1 .. Len(u) PROVE Placed(u[i], i, rcv[now], snd')
      BY <1>3, <3>1, <3>3 DEF Placed, u
    <3>4. ASSUME NEW i \in 1 .. Len(u), NEW j \in 1 .. Len(u),
                 u[i].type = "Header", u[j].type = "Header"
          PROVE  i = j
      BY <3>1, <3>4 DEF u
    <3> QED
      BY <3>2, <3>3, <3>4 DEF Flow
  <2> QED
    BY <2>1, <2>2
<1>8. Lead(toR'[now], rcv[now], snd', link'[now] = "up")
  BY <1>2 DEF Lead
<1>9. Replies(toS'[now], rcv[now], snd')
  BY <1>2, <1>3 DEF Replies
<1>10. Early(toR'[now], toS'[now], rcv[now], snd')
  BY <1>2, <1>3, <1>4 DEF Early
<1> QED
  BY <1>2, <1>6, <1>7, <1>8, <1>9, <1>10 DEF CurrentStream

\* what a step on the current connection leaves of the other parts
LEMMA KeptStream ==
  ASSUME StreamInv, KeepsConnection
  PROVE  /\ NoReplies'
         /\ snd'.sock # "closed" => link' = link
         /\ \A i \in 1 .. Len(toS'[snd.attempt]) :
              \E j \in 1 .. Len(toS[snd.attempt]) :
                toS'[snd.attempt][i] = toS[snd.attempt][j]
<1> DEFINE q == toS[snd.attempt]
<1>1. /\ snd.attempt \in Attempt /\ NoReplies /\ q \in Seq(Packet)
      /\ toS \in [Attempt -> Seq(Packet)] /\ link \in [Attempt -> {"none", "up", "down"}]
  BY StreamParts
<1>2. NoReplies'
  BY <1>1 DEF NoReplies, KeepsConnection
<1>3. ASSUME snd'.sock # "closed" PROVE link' = link
  BY <1>1, <1>3 DEF KeepsConnection
<1>4. toS'[snd.attempt] = q \/ (q # <<>> /\ toS'[snd.attempt] = Tail(q))
  BY <1>1 DEF KeepsConnection
<1> HIDE DEF q
<1>5. q # <<>> => \A i \in 1 .. Len(Tail(q)) : i + 1 \in 1 .. Len(q) /\ Tail(q)[i] = q[i + 1]
  BY <1>1, QueueParts
<1>6. \A i \in 1 .. Len(toS'[snd.attempt]) : \E j \in 1 .. Len(q) : toS'[snd.attempt][i] = q[j]
  BY <1>4, <1>5
<1> QED
  BY <1>2, <1>3, <1>6 DEF q

LEMMA IdlingStream ==
  ASSUME StreamInv, Idles
  PROVE  CurrentStream'
<1> DEFINE now == snd.attempt
<1>1. /\ toR[now] \in Seq(Packet)
      /\ Flow(toR[now], rcv[now], snd) /\ Lead(toR[now], rcv[now], snd, link[now] = "up")
      /\ Replies(toS[now], rcv[now], snd) /\ Early(toR[now], toS[now], rcv[now], snd)
  BY StreamParts
<1>2. /\ KeepsConnection /\ SameDigest(snd, snd') /\ toR' = toR
      /\ snd'.sock = snd.sock => snd'.waitingForOffsetAck = snd.waitingForOffsetAck
  BY DEF Idles
<1>3. /\ snd'.attempt = now /\ snd'.sock \in {snd.sock, "closed"} /\ rcv' = rcv
      /\ IsTerminal(snd) => IsTerminal(snd')
      /\ snd'.remaining = snd.remaining /\ snd'.pos = snd.pos
      /\ snd'.finishPending => snd.finishPending
      /\ snd'.waitingForOffsetAck => snd.waitingForOffsetAck
  BY <1>2 DEF KeepsConnection, SameDigest
<1>4. /\ snd'.sock # "closed" => link' = link
      /\ \A i \in 1 .. Len(toS'[now]) : \E j \in 1 .. Len(toS[now]) :
           toS'[now][i] = toS[now][j]
  BY <1>2, KeptStream
<1>5. Flow(toR'[now], rcv'[now], snd')
  BY <1>1, <1>2, <1>3, FlowStays
<1>6. Lead(toR'[now], rcv'[now], snd', link'[now] = "up")
  BY <1>1, <1>2, <1>3, <1>4 DEF Lead
<1>7. Replies(toS'[now], rcv'[now], snd')
  BY <1>1, <1>3, <1>4 DEF Replies
<1>8. Early(toR'[now], toS'[now], rcv'[now], snd')
  BY <1>1, <1>2, <1>3, <1>4 DEF Early
<1> QED
  BY <1>3, <1>5, <1>6, <1>7, <1>8 DEF CurrentStream

\* the OffsetAck finds an empty queue: the Sender goes on where the Receiver is
LEMMA LearningStream ==
  ASSUME StreamInv, SenderGetsOffsetAck, Learns(Head(toS[snd.attempt]).n)
  PROVE  CurrentStream'
<1> DEFINE now == snd.attempt
           n == Head(toS[now]).n
           q == toR[now]
<1>1. /\ TypeInv /\ now \in Attempt
      /\ q \in Seq(Packet) /\ toS[now] \in Seq(Packet)
      /\ snd.remaining \in 0 .. Chunks /\ Chunks \in Nat \ {0} /\ Outset(snd)
      /\ Flow(q, rcv[now], snd) /\ Replies(toS[now], rcv[now], snd)
  BY StreamParts
<1>2. /\ snd.sock = "open" /\ ~IsTerminal(snd)
      /\ toS[now] # <<>> /\ Head(toS[now]).type = "OffsetAck"
  BY DEF SenderGetsOffsetAck, SenderReads
<1>3. /\ KeepsConnection /\ toR' = toR
      /\ snd.waitingForOffsetAck /\ ~snd'.waitingForOffsetAck /\ snd'.sock = snd.sock
      /\ snd'.cancelled = snd.cancelled /\ snd'.retryScheduled = snd.retryScheduled
      /\ snd'.pos = IF snd.cancelled \/ IsTerminal(snd) \/ n = 0 THEN snd.pos ELSE n
  BY DEF Learns
<1>4. snd'.attempt = now /\ rcv' = rcv /\ (IsTerminal(snd) => IsTerminal(snd'))
  BY <1>3 DEF KeepsConnection
<1>5. rcv[now].file # "null" /\ n = Len(rcv[now].got)
  <2>1. 1 \in 1 .. Len(toS[now]) /\ toS[now][1] = Head(toS[now])
    BY <1>1, <1>2
  <2> QED
    BY <1>2, <1>3, <2>1, <1>1 DEF Replies
<1>6. q = <<>>
  <2> SUFFICES ASSUME q # <<>> PROVE FALSE
    OBVIOUS
  <2> HIDE DEF q
  <2>1. 1 \in 1 .. Len(q)
    BY <1>1
  <2>2. Placed(q[1], 1, rcv[now], snd)
    BY <1>1, <2>1 DEF Flow
  <2> QED
    BY <1>2, <1>3, <1>5, <2>2 DEF Placed
<1>7. snd'.pos = n
  BY <1>1, <1>2, <1>3 DEF Outset
<1>8. Flow(toR'[now], rcv'[now], snd')
  BY <1>3, <1>6 DEF Flow
<1>9. Lead(toR'[now], rcv'[now], snd', link'[now] = "up")
  <2>1. Len(q) = 0 /\ n \in Nat
    BY <1>5, <1>6, StreamParts
  <2> HIDE DEF q, n
  <2>2. n = n + Len(q)
    BY <2>1
  <2> QED
    BY <1>3, <1>4, <1>5, <1>7, <2>2 DEF Lead, q
<1>10. Replies(toS'[now], rcv'[now], snd')
  BY <1>3 DEF Replies
<1>11. Early(toR'[now], toS'[now], rcv'[now], snd')
  BY <1>2, <1>3 DEF Early
<1> QED
  BY <1>4, <1>8, <1>9, <1>10, <1>11 DEF CurrentStream

\* a packet is written to a connection that is up, and nowhere else
LEMMA WrittenFlow ==
  ASSUME StreamInv, KeepsConnection, NEW p \in Packet, Writes(p), p.type # "Header",
         snd'.waitingForOffsetAck => snd.waitingForOffsetAck,
         Connected(snd) /\ link[snd.attempt] = "up" =>
           Placed(p, Len(toR[snd.attempt]) + 1, rcv[snd.attempt], snd')
  PROVE  /\ Flow(toR'[snd.attempt], rcv[snd.attempt], snd')
         /\ Connected(snd) /\ link[snd.attempt] = "up" =>
              Len(toR'[snd.attempt]) = Len(toR[snd.attempt]) + 1
<1> DEFINE now == snd.attempt
           q == toR[now]
<1>1. /\ now \in Attempt /\ toR \in [Attempt -> Seq(Packet)] /\ q \in Seq(Packet)
      /\ Flow(q, rcv[now], snd)
  BY StreamParts
<1>2. IF Connected(snd) /\ link[now] = "up"
      THEN toR'[now] = Append(q, p) ELSE toR'[now] = q
  BY <1>1 DEF Writes, Post
<1>3. IsTerminal(snd) => IsTerminal(snd')
  BY DEF KeepsConnection
<1> HIDE DEF q
<1>4. Flow(q, rcv[now], snd')
  BY <1>1, <1>3, FlowStays DEF q
<1>5. CASE Connected(snd) /\ link[now] = "up"
  <2>1. Placed(p, Len(q) + 1, rcv[now], snd')
    BY <1>5 DEF q
  <2>2. Flow(Append(q, p), rcv[now], snd')
    BY <1>1, <1>4, <2>1, FlowParts
  <2>3. Len(Append(q, p)) = Len(q) + 1
    BY <1>1
  <2>4. Flow(toR'[now], rcv[now], snd') /\ Len(toR'[now]) = Len(q) + 1
    BY <1>2, <1>5, <2>2, <2>3
  <2> QED
    BY <2>4 DEF q
<1>6. CASE ~(Connected(snd) /\ link[now] = "up")
  BY <1>2, <1>4, <1>6
<1> QED
  BY <1>5, <1>6

LEMMA ChunkStream ==
  ASSUME StreamInv, SendsChunk
  PROVE  CurrentStream'
<1> DEFINE now == snd.attempt
           p == [type |-> "Data", n |-> snd.pos + 1]
           m == Len(rcv[now].got)
           k == Len(toR[now])
           up == link[now] = "up"
<1>1. /\ snd \in Sender /\ toR[now] \in Seq(Packet) /\ m \in Nat /\ k \in Nat
      /\ snd.remaining \in 0 .. Chunks /\ snd.pos \in 0 .. Chunks /\ Chunks \in Nat \ {0}
      /\ Outset(snd) /\ Lead(toR[now], rcv[now], snd, up)
  BY StreamParts
<1>2. /\ KeepsConnection /\ Writes(p) /\ snd'.sock = snd.sock
      /\ ~snd.waitingForOffsetAck /\ ~snd'.waitingForOffsetAck
      /\ ~IsTerminal(snd) /\ snd.sendScheduled
      /\ snd.remaining > 0 /\ snd.pos < Chunks
      /\ snd'.remaining = snd.remaining - 1 /\ snd'.pos = snd.pos + 1
      /\ snd.sock \in {"handshake", "open"}
  BY DEF SendsChunk, MaySend, Connected
<1>3. snd.sock = "open"
  BY <1>1, <1>2 DEF Outset
<1>4. /\ rcv[now].file # "null"
      /\ up /\ ~IsTerminal(rcv[now]) => snd.pos = m + k
  BY <1>1, <1>2, <1>3 DEF Lead
<1>5. p \in Packet
  <2>1. snd.pos + 1 \in Chunk
    BY <1>1, <1>2 DEF Chunk
  <2> QED
    BY <2>1, PacketTypes
<1> HIDE DEF m, k, up
<1>6. up => Placed(p, k + 1, rcv[now], snd')
  <2>1. up /\ ~IsTerminal(rcv[now]) => p.n = m + (k + 1)
    BY <1>1, <1>4
  <2>2. p.type = "Data"
    OBVIOUS
  <2> HIDE DEF p
  <2> QED
    BY <1>2, <1>4, <2>1, <2>2 DEF Placed, m
<1> HIDE DEF p
<1>7. /\ Flow(toR'[now], rcv[now], snd')
      /\ up => Len(toR'[now]) = k + 1
  <2>1. /\ StreamInv /\ KeepsConnection /\ Writes(p) /\ p.type # "Header"
        /\ snd'.waitingForOffsetAck => snd.waitingForOffsetAck
    BY <1>2 DEF p
  <2>2. link[snd.attempt] = "up" => Placed(p, Len(toR[snd.attempt]) + 1, rcv[snd.attempt], snd')
    BY <1>6 DEF k, up
  <2>3. Connected(snd)
    BY <1>3 DEF Connected
  <2> QED
    BY <1>5, <2>1, <2>2, <2>3, WrittenFlow DEF k, up
<1>8. snd'.attempt = now /\ rcv' = rcv /\ link' = link
  BY <1>2, <1>3, KeptStream DEF KeepsConnection
<1>9. Lead(toR'[now], rcv[now], snd', up)
  <2> DEFINE l == Len(toR'[now])
  <2>1. up => l = k + 1
    BY <1>7
  <2> HIDE DEF l
  <2>2. up /\ ~IsTerminal(rcv[now]) => snd'.pos = m + l
    BY <1>1, <1>2, <1>4, <2>1
  <2> QED
    BY <1>4, <2>2 DEF Lead, l, m
<1>10. Replies(toS'[now], rcv[now], snd') /\ Early(toR'[now], toS'[now], rcv[now], snd')
  BY <1>2, <1>3 DEF Replies, Early
<1> QED
  BY <1>7, <1>8, <1>9, <1>10 DEF CurrentStream, up

LEMMA FinishingStream ==
  ASSUME StreamInv, SendsFinish
  PROVE  CurrentStream'
<1> DEFINE now == snd.attempt
           p == FinishPacket(snd)
           m == Len(rcv[now].got)
           k == Len(toR[now])
           up == link[now] = "up"
<1>1. /\ snd \in Sender /\ toR[now] \in Seq(Packet) /\ m \in Nat /\ k \in Nat
      /\ snd.remaining \in 0 .. Chunks /\ snd.pos \in 0 .. Chunks /\ Chunks \in Nat \ {0}
      /\ snd.hashFrom \in 0 .. Chunks
      /\ Outset(snd) /\ Lead(toR[now], rcv[now], snd, up) /\ DigestAddsUp
  BY StreamParts
<1>2. /\ KeepsConnection /\ Writes(p) /\ snd'.sock = snd.sock /\ snd.sock = "open"
      /\ snd.finishPending /\ ~IsTerminal(snd)
      /\ snd'.remaining = snd.remaining /\ snd'.pos = snd.pos
      /\ snd'.waitingForOffsetAck = snd.waitingForOffsetAck /\ ~snd'.finishPending
  BY DEF SendsFinish
<1>3. snd.remaining = 0 /\ snd.pos = Chunks /\ ~snd.waitingForOffsetAck
  BY <1>1, <1>2 DEF DigestAddsUp, DigestIsWhole
<1>4. /\ rcv[now].file # "null"
      /\ up /\ ~IsTerminal(rcv[now]) => snd.pos = m + k
  BY <1>1, <1>2, <1>3 DEF Lead
<1>5. p \in Packet /\ p.type = "Finish"
  BY <1>1 DEF FinishPacket, Packet, PacketKind, Chunk
<1> HIDE DEF m, k, up, p
<1>6. up => Placed(p, k + 1, rcv[now], snd')
  <2>1. up /\ ~IsTerminal(rcv[now]) => Chunks + 1 = m + (k + 1)
    BY <1>1, <1>3, <1>4
  <2> QED
    BY <1>2, <1>3, <1>4, <1>5, <2>1 DEF Placed, m
<1>7. Flow(toR'[now], rcv[now], snd')
  BY <1>2, <1>5, <1>6, WrittenFlow DEF k, up, Connected
<1>8. snd'.attempt = now /\ rcv' = rcv /\ link' = link
  BY <1>2, KeptStream DEF KeepsConnection
<1>9. Lead(toR'[now], rcv[now], snd', up)
  <2>1. ~(snd'.remaining > 0 \/ snd'.finishPending)
    BY <1>2, <1>3
  <2> QED
    BY <1>4, <2>1 DEF Lead
<1>10. Replies(toS'[now], rcv[now], snd') /\ Early(toR'[now], toS'[now], rcv[now], snd')
  BY <1>2, <1>3 DEF Replies, Early
<1> QED
  BY <1>7, <1>8, <1>9, <1>10 DEF CurrentStream, up

LEMMA CancellingStream ==
  ASSUME StreamInv, SendsCancel
  PROVE  CurrentStream'
<1> DEFINE now == snd.attempt
           q == toR[now]
           p == Packet0("Cancel")
<1>1. /\ q \in Seq(Packet) /\ toR \in [Attempt -> Seq(Packet)] /\ now \in Attempt
      /\ Early(q, toS[now], rcv[now], snd)
  BY StreamParts
<1>2. /\ KeepsConnection /\ Writes(p) /\ snd'.sock = snd.sock
      /\ ~snd'.waitingForOffsetAck /\ IsTerminal(snd')
  BY DEF SendsCancel
<1>3. p \in Packet /\ p.type = "Cancel"
  BY PacketTypes DEF PacketKind, Packet0
<1>4. toR'[now] = q \/ toR'[now] = Append(q, p)
  BY <1>1, <1>2 DEF Writes, Post
<1> HIDE DEF p, q
<1>5. Placed(p, Len(toR[now]) + 1, rcv[now], snd')
  BY <1>2, <1>3 DEF Placed
<1>6. Flow(toR'[now], rcv[now], snd')
  BY <1>2, <1>3, <1>5, WrittenFlow
<1>7. snd'.attempt = now /\ rcv' = rcv
  BY <1>2 DEF KeepsConnection
<1>8. Lead(toR'[now], rcv[now], snd', link'[now] = "up") /\ Replies(toS'[now], rcv[now], snd')
  BY <1>2 DEF Lead, Replies
<1>9. Early(toR'[now], toS'[now], rcv[now], snd')
  <2> SUFFICES ASSUME snd.sock = "handshake"
               PROVE  /\ rcv[now].file = "null"
                      /\ \A i \in 1 .. Len(toR'[now]) : toR'[now][i].type = "Cancel"
                      /\ \A i \in 1 .. Len(toS'[now]) : toS'[now][i].type # "OffsetAck"
    BY <1>2 DEF Early
  <2>1. /\ rcv[now].file = "null"
        /\ \A i \in 1 .. Len(q) : q[i].type = "Cancel"
        /\ \A i \in 1 .. Len(toS[now]) : toS[now][i].type # "OffsetAck"
    BY <1>1 DEF Early
  <2>2. \A i \in 1 .. Len(Append(q, p)) : Append(q, p)[i].type = "Cancel"
    BY <1>1, <1>3, <2>1, QueueParts
  <2>3. \A i \in 1 .. Len(toS'[now]) : \E j \in 1 .. Len(toS[now]) :
          toS'[now][i] = toS[now][j]
    BY <1>2, KeptStream
  <2> QED
    BY <1>4, <2>1, <2>2, <2>3
<1> QED
  BY <1>6, <1>7, <1>8, <1>9 DEF CurrentStream

\* the next connection is a new one
LEMMA ReconnectingStream ==
  ASSUME StreamInv, Reconnects
  PROVE  CurrentStream' /\ NoReplies'
<1> DEFINE now == snd.attempt
           new == snd'.attempt
<1>1. /\ now \in Attempt /\ ConnectionInv /\ UnusedLinks /\ NoReplies
      /\ link \in [Attempt -> {"none", "up", "down"}]
  BY StreamParts
<1>2. /\ now < RetryMax /\ new = now + 1 /\ snd'.sock = "connecting"
      /\ ~snd'.waitingForOffsetAck
      /\ link' = [link EXCEPT ![now] = "down"]
      /\ UNCHANGED <<rcv, toR, toS>>
  BY DEF Reconnects
<1>3. new \in Attempt /\ new > now
  BY <1>1, <1>2, RetryAssumption DEF Attempt
<1>4. link[new] = "none"
  BY <1>1, <1>3 DEF ConnectionInv, FutureUnused
<1>5. toR'[new] = <<>> /\ toS'[new] = <<>>
  BY <1>1, <1>2, <1>3, <1>4 DEF UnusedLinks, NoReplies
<1>6. CurrentStream'
  <2> HIDE DEF new
  <2> QED
    BY <1>2, <1>5 DEF CurrentStream, Flow, Lead, Replies, Early, new
<1>7. NoReplies'
  BY <1>1, <1>2 DEF NoReplies
<1> QED
  BY <1>6, <1>7

LEMMA SenderStream ==
  ASSUME Plain, StreamInv, SenderNext
  PROVE  CurrentStream' /\ NoReplies'
<1>1. ~OffsetAckTimeout
  BY DEF OffsetAckTimeout, Plain
<1>2. CASE Idles
  <2>1. KeepsConnection
    BY <1>2 DEF Idles
  <2> QED
    BY <1>2, <2>1, IdlingStream, KeptStream
<1>3. CASE SenderGetsOffsetAck /\ Learns(Head(toS[snd.attempt]).n)
  <2>1. KeepsConnection
    BY <1>3 DEF Learns
  <2> QED
    BY <1>3, <2>1, LearningStream, KeptStream
<1>4. CASE SendsChunk \/ SendsFinish \/ SendsCancel
  <2>1. KeepsConnection
    BY <1>4 DEF SendsChunk, SendsFinish, SendsCancel
  <2> QED
    BY <1>4, <2>1, ChunkStream, FinishingStream, CancellingStream, KeptStream
<1> QED
  BY <1>1, <1>2, <1>3, <1>4, StreamParts, SenderSteps, ConnectingStream, ReconnectingStream

-----------------------------------------------------------------------------
(* The inductive invariant                                                 *)

LEMMA InitStream == Init => StreamInv
<1> SUFFICES ASSUME Init PROVE StreamInv
  OBVIOUS
<1>1. SettledInv
  BY InitSettled
<1>2. snd.attempt = 0 /\ snd.sock = "none" /\ ~snd.waitingForOffsetAck
  <2>1. NewSender \in Sender /\ "Queued" \in TransferState
    BY ChunksAssumption, RetryAssumption DEF NewSender, Sender, TransferState, Attempt
  <2>2. Steady(NewSender, SetState(NewSender, "Queued"))
    BY <2>1, SetStateSender
  <2>3. /\ NewSender.attempt = 0 /\ NewSender.sock = "none"
        /\ ~NewSender.waitingForOffsetAck
    BY DEF NewSender
  <2> QED
    BY <2>2, <2>3 DEF Init, Steady, SameStream
<1>3. NoReplies
  BY DEF Init, NoReplies
<1>4. CurrentStream
  <2>1. toR[snd.attempt] = <<>> /\ toS[snd.attempt] = <<>>
    BY <1>2, RetryAssumption DEF Init, Attempt
  <2> QED
    BY <1>2, <2>1 DEF CurrentStream, Flow, Lead, Replies, Early
<1> QED
  BY <1>1, <1>3, <1>4 DEF StreamInv

LEMMA NextStream ==
  ASSUME Plain, StreamInv, [Next]_vars
  PROVE  StreamInv'
<1>1. SettledInv'
  BY NextSettled DEF Plain, StreamInv
<1>2. CurrentStream' /\ NoReplies'
  <2>1. CASE \E a \in Attempt : ReceiverNext(a)
    BY <2>1, ReceiverStream DEF Plain, Orderly
  <2>2. CASE UNCHANGED vars
    BY <2>2 DEF vars, StreamInv, CurrentStream, NoReplies
  <2> QED
    BY <2>1, <2>2, SenderStream, BreakStream DEF Next
<1> QED
  BY <1>1, <1>2 DEF StreamInv

LEMMA StreamInvariant == Plain => (Spec => []StreamInv)
<1>1. Plain /\ StreamInv /\ [Next]_vars => StreamInv'
  BY NextStream
<1>2. ASSUME Plain PROVE Spec => []StreamInv
  <2>1. StreamInv /\ [Next]_vars => StreamInv'
    BY <1>1, <1>2
  <2> QED
    BY <2>1, InitStream, PTL DEF Spec
<1> QED
  BY <1>2

\* a Receiver at work is the current one, or has nothing to read
LEMMA AlignedNow ==
  ASSUME StreamInv
  PROVE  StreamAligned
<1> SUFFICES ASSUME NEW a \in Attempt, rcv[a].file # "null", ~IsTerminal(rcv[a]),
                    NEW i \in 1 .. Len(toR[a]), toR[a][i].type = "Data"
             PROVE  toR[a][i].n = Len(rcv[a].got) + i
  BY DEF StreamAligned
<1>1. /\ ConnectionInv /\ AllStarted /\ CurrentStream
      /\ toR[a] \in Seq(Packet) /\ snd.attempt \in Nat /\ a \in Nat
  BY StreamParts, RetryAssumption DEF StreamInv, Attempt
<1>2. CASE a = snd.attempt
  BY <1>1, <1>2 DEF CurrentStream, Flow, Placed
<1>3. CASE a > snd.attempt
  BY <1>1, <1>3 DEF ConnectionInv, FutureUnused, UnusedLinks, NoReceiver
<1>4. CASE a < snd.attempt
  <2>1. toR[a] = <<>>
    BY <1>1, <1>4 DEF ConnectionInv, PastDrained, Drained, AllStarted, Started
  <2> QED
    BY <1>1, <2>1
<1> QED
  BY <1>1, <1>2, <1>3, <1>4

(***************************************************************************)
(* Every chunk in flight goes to the place in the file it came from:       *)
(* OffsetAcks, retries, pauses and broken connections leave no gap and no  *)
(* repeat (applyOffsetAck(), sender.cpp, and processDataPacket(),          *)
(* receiver.cpp, which writes what it gets where it is).                   *)
(***************************************************************************)
THEOREM StreamStaysAligned ==
  ASSUME Plain
  PROVE  Spec => []StreamAligned
<1>1. Spec => []StreamInv
  BY StreamInvariant
<1>2. StreamInv => StreamAligned
  BY AlignedNow
<1> QED
  BY <1>1, <1>2, PTL

(***************************************************************************)
(* Nothing of the file arrives before a header has opened mFile: what      *)
(* processFinishPacket() would otherwise use is a null pointer             *)
(* (receiver.cpp).                                                         *)
(***************************************************************************)
THEOREM HeaderAlwaysFirst ==
  ASSUME Plain
  PROVE  Spec => []HeaderComesFirst
<1>1. Spec => []StreamInv
  BY StreamInvariant
<1>2. ASSUME StreamInv PROVE HeaderComesFirst
  <2> SUFFICES ASSUME NEW a \in Attempt, NEW type \in {"Data", "Finish"},
                      ReceiverReads(a, type)
               PROVE  rcv[a].file # "null"
    BY DEF HeaderComesFirst
  <2>1. TypeInv /\ ConnectionInv /\ CurrentStream /\ toR[a] \in Seq(Packet)
    BY <1>2, StreamParts DEF StreamInv
  <2>2. a = snd.attempt /\ toR[a] # <<>> /\ Head(toR[a]).type = type
    BY <2>1, CurrentReads DEF ReceiverReads
  <2>3. 1 \in 1 .. Len(toR[a]) /\ toR[a][1] = Head(toR[a])
    BY <2>1, <2>2
  <2> QED
    BY <2>1, <2>2, <2>3 DEF CurrentStream, Flow, Placed
<1>3. StreamInv => HeaderComesFirst
  BY <1>2
<1> QED
  BY <1>1, <1>3, PTL

-----------------------------------------------------------------------------
(* The .part                                                               *)

\* the steps that may end it
Ends(a) ==
  \/ WriteError(a) \/ ChecksumFailed(a)
  \/ rcv'[a].state = "Cancelled" /\ rcv[a].state # "Cancelled"

\* what the checksum, or the stream alone, makes sure of
KeptInv == DownloadInv /\ AllStarted /\ (Verify \/ StreamInv)

LEMMA KeptInvariant ==
  ASSUME ResumePartial, Verify \/ Plain
  PROVE  Spec => []KeptInv
<1>1. CASE Verify
  <2>1. DeliveredInv => KeptInv
    BY <1>1, TlsParts, SettledParts DEF DeliveredInv, KeptInv
  <2> QED
    BY <2>1, DeliveredInvariant, PTL
<1>2. CASE Plain
  <2>1. StreamInv => KeptInv
    BY StreamParts DEF KeptInv
  <2> QED
    BY <1>2, <2>1, StreamInvariant, PTL
<1> QED
  BY <1>1, <1>2

\* the current Receiver has written what it has got, and the entry is its own
LEMMA OwnPart ==
  ASSUME TypeInv, HandleInv, NEW a \in Attempt, a = snd.attempt, ~IsTerminal(rcv[a]),
         rcv[a].file # "null", part.there
  PROVE  rcv[a].file = "part" /\ part.data = rcv[a].got
<1>1. rcv[a].file \in {"null", "part", "final", "unlinked"}
  BY DEF TypeInv, TypeOK, Receiver
<1> QED
  BY <1>1 DEF HandleInv

\* all has been received by the Receiver that gives the .part its final name
LEMMA FullPart ==
  ASSUME ResumePartial, KeptInv, NEW a \in Attempt,
         a = snd.attempt, ReceiverReads(a, "Finish"), ~Mismatch(a), part.there
  PROVE  part.data = rcv[a].got /\ Len(part.data) = Chunks
<1>1. TypeInv /\ ConnectionInv /\ HashInv /\ HandleInv
  BY DEF KeptInv, DownloadInv
<1>2. rcv[a].file # "null" /\ ~IsTerminal(rcv[a]) /\ Len(rcv[a].got) = Chunks
  <2>1. CASE Verify
    <3>1. rcv[a].got = Source
      BY <1>1, <2>1, VerifiedDownload
    <3>2. Len(Source) = Chunks /\ Len(<<>>) = 0
      BY ChunksAssumption DEF Source
    <3>3. rcv[a].file # "null"
      BY <1>1, <3>1, <3>2, ChunksAssumption DEF HandleInv
    <3> QED
      BY <3>1, <3>2, <3>3 DEF ReceiverReads
  <2>2. CASE StreamInv
    BY <2>2, FinishStream
  <2> QED
    BY <2>1, <2>2 DEF KeptInv
<1> QED
  BY <1>1, <1>2, OwnPart

\* what becomes of the .part, step by step
LEMMA PartSteps ==
  ASSUME ResumePartial, KeptInv, [Next]_vars
  PROVE  \/ part' = part
         \/ /\ part'.there
            /\ part'.data = <<>> \/ (part.there /\ part'.data = part.data)
            /\ part.there /\ Len(part.data) < Chunks =>
                 Len(part'.data) >= Len(part.data)
         \/ /\ \E a \in Attempt : ReceiverGetsData(a)
            /\ part.there /\ part'.there /\ Len(part'.data) >= Len(part.data)
         \/ /\ part' = NoFile
            /\ part.there /\ Len(part.data) < Chunks => \E a \in Attempt : Ends(a)
<1>1. /\ TypeInv /\ ConnectionInv /\ UnusedLinks /\ HandleInv /\ AllStarted
      /\ part.data \in Seq(Chunk) /\ Len(part.data) \in Nat /\ Chunks \in Nat \ {0}
      /\ rcv \in [Attempt -> Receiver]
  BY ChunksAssumption
     DEF KeptInv, DownloadInv, ConnectionInv, TypeInv, TypeOK, File, Content
<1>2. CASE SenderNext \/ UNCHANGED vars \/ \E a \in Attempt : Break(a)
  BY <1>2, SenderElsewhere DEF vars, Break
<1>3. ASSUME NEW a \in Attempt,
             \/ Accept(a) \/ RejectBusy(a) \/ ReceiverDisconnected(a)
             \/ ReceiverIdleTimeout(a) \/ ReceiverPause(a) \/ ReceiverResume(a)
             \/ FinalizeFails(a)
      PROVE  part' = part
  BY <1>3 DEF Accept, RejectBusy, ReceiverDisconnected, ReceiverIdleTimeout, ReceiverPause,
              ReceiverResume, FinalizeFails
<1>4. ASSUME NEW a \in Attempt, ReceiverGetsHeader(a)
      PROVE  /\ part'.there
             /\ part'.data = <<>> \/ (part.there /\ part'.data = part.data)
             /\ part.there /\ Len(part.data) < Chunks => Len(part'.data) >= Len(part.data)
  <2>1. part' = [there |-> TRUE, data |-> IF Resumable THEN part.data ELSE <<>>]
    BY <1>4 DEF ReceiverGetsHeader
  <2>2. part'.there /\ part'.data = IF Resumable THEN part.data ELSE <<>>
    BY <2>1
  <2>3. Resumable => part.there
    BY DEF Resumable
  <2>4. part.there /\ Len(part.data) < Chunks /\ ~Resumable => Len(part.data) = 0
    BY <1>1 DEF Resumable
  <2> DEFINE n == Len(part.data)
  <2> QED
    BY <1>1, <2>2, <2>3, <2>4
<1>5. ASSUME NEW a \in Attempt, RejectHeader(a)
      PROVE  part' = part \/ (part' = NoFile /\ Len(part.data) >= Chunks)
  BY <1>5 DEF RejectHeader, Oversize
<1>6. ASSUME NEW a \in Attempt,
             \/ WriteError(a) \/ ChecksumFailed(a) \/ ReceiverGetsCancel(a)
             \/ ReceiverCancel(a)
      PROVE  part' = part \/ (part' = NoFile /\ Ends(a))
  <2>1. part' = part \/ part' = NoFile
    BY <1>6 DEF WriteError, ChecksumFailed, ReceiverGetsCancel, ReceiverCancel, RemoveDownload
  <2>2. Ends(a)
    BY <1>1, <1>6, CancelledDownload DEF Ends, IsTerminal, Terminal
  <2> QED
    BY <2>1, <2>2
<1>7. ASSUME NEW a \in Attempt, FinalizeDownload(a)
      PROVE  part' = NoFile /\ Len(part.data) = Chunks
  <2>1. ReceiverReads(a, "Finish") /\ ~Mismatch(a) /\ part.there /\ part' = NoFile
    BY <1>7 DEF FinalizeDownload
  <2>2. a = snd.attempt
    BY <1>1, <2>1, CurrentReads DEF ReceiverReads
  <2> QED
    BY <2>1, <2>2, FullPart
<1>8. ASSUME NEW a \in Attempt, ReceiverGetsData(a)
      PROVE  \/ part' = part
             \/ part.there /\ part'.there /\ Len(part'.data) >= Len(part.data)
  <2> DEFINE got == rcv[a].got
             chunk == Head(toR[a]).n
  <2>1. a = snd.attempt /\ ~IsTerminal(rcv[a]) /\ got \in Seq(Chunk)
    BY <1>1, <1>8, CurrentReads DEF ReceiverGetsData, ReceiverReads, Receiver, Content
  <2>2. /\ rcv[a].file # "final"
        /\ rcv[a].file = "part" => part.there /\ part.data = got
    BY <1>1, <2>1 DEF HandleInv
  <2>3. /\ rcv[a].file # "part" => part' = part
        /\ rcv[a].file = "part" => part'.there /\ part'.data = rcv'[a].got
    BY <1>1, <1>8, <2>2, DataReceiver
  <2>4. rcv' = rcv \/ rcv' = [rcv EXCEPT ![a].got = Append(@, chunk)]
    BY <1>8 DEF ReceiverGetsData
  <2>5. rcv'[a].got = got \/ rcv'[a].got = Append(got, chunk)
    BY <1>1, <2>4 DEF Receiver
  <2> HIDE DEF got, chunk
  <2>6. Len(Append(got, chunk)) >= Len(got) /\ Len(got) >= Len(got)
    BY <2>1
  <2> QED
    BY <2>2, <2>3, <2>5, <2>6
<1>9. CASE \E a \in Attempt : ReceiverNext(a)
  <2>1. PICK a \in Attempt : ReceiverNext(a)
    BY <1>9
  <2>2. CASE ReceiverGetsData(a)
    BY <1>8, <2>2
  <2>3. CASE ReceiverGetsHeader(a)
    BY <1>4, <2>3
  <2>4. CASE RejectHeader(a) \/ FinalizeDownload(a)
    BY <1>1, <1>5, <1>7, <2>4
  <2> QED
    BY <1>3, <1>6, <2>1, <2>2, <2>3, <2>4 DEF ReceiverNext
<1> QED
  BY <1>2, <1>9 DEF Next

(***************************************************************************)
(* Interruptions cost nothing: an incomplete .part grows until a cancel,   *)
(* a full disk or a wrong digest removes it.  Breaks, pauses, busy answers *)
(* and retries leave what was received (onDisconnected(), receiver.cpp).   *)
(***************************************************************************)
THEOREM InterruptionsKeepParts ==
  ASSUME ResumePartial, Verify \/ Plain
  PROVE  Spec => InterruptionsKeepBytes
<1>1. Spec => []KeptInv
  BY KeptInvariant
<1> DEFINE A == part.there /\ Len(part.data) < Chunks =>
                  \/ part'.there /\ Len(part'.data) >= Len(part.data)
                  \/ \E a \in Attempt : \/ WriteError(a) \/ ChecksumFailed(a)
                                        \/ /\ rcv'[a].state \in {"Cancelled", "Finish"}
                                           /\ rcv[a].state # rcv'[a].state
<1>2. ASSUME KeptInv, [Next]_vars PROVE A
  <2> SUFFICES ASSUME part.there, Len(part.data) < Chunks,
                      ~ \E a \in Attempt : Ends(a)
               PROVE  part'.there /\ Len(part'.data) >= Len(part.data)
    BY DEF Ends
  <2>1. Len(part.data) \in Nat /\ Chunks \in Nat
    BY <1>2, ChunksAssumption DEF KeptInv, DownloadInv, TypeInv, TypeOK, File, Content
  <2>2. CASE part' = part
    BY <2>1, <2>2
  <2> QED
    BY <1>2, <2>2, PartSteps
<1>3. KeptInv /\ [Next]_vars => [A]_vars
  BY <1>2
<1> HIDE DEF A
<1>4. Spec => [][A]_vars
  BY <1>1, <1>3, PTL DEF Spec
<1> QED
  BY <1>4 DEF A, InterruptionsKeepBytes

-----------------------------------------------------------------------------
(* Delivery without a checksum                                             *)

\* chunk after chunk of the sender's file
Beginning(d) == Len(d) <= Chunks /\ \A i \in 1 .. Len(d) : d[i] = i

\* what is there has been received, or was left by this very upload
PartInv == part.there => Beginning(part.data)

WholeInv == StreamInv /\ PartInv /\ FileIntegrity

LEMMA BeginningGrows ==
  ASSUME NEW d \in Seq(Chunk), Beginning(d), Len(d) < Chunks
  PROVE  Beginning(Append(d, Len(d) + 1))
<1> DEFINE c == Len(d) + 1
<1>1. Len(Append(d, c)) = Len(d) + 1 /\ Len(d) \in Nat
  OBVIOUS
<1>2. ASSUME NEW i \in 1 .. Len(Append(d, c))
      PROVE  Append(d, c)[i] = i
  <2>1. CASE i \in 1 .. Len(d)
    BY <2>1 DEF Beginning
  <2>2. CASE i = Len(d) + 1
    BY <2>2
  <2> QED
    BY <1>1, <1>2, <2>1, <2>2
<1> QED
  BY <1>1, <1>2, ChunksAssumption DEF Beginning

LEMMA BeginningIsSource ==
  ASSUME NEW d \in Seq(Chunk), Beginning(d), Len(d) = Chunks
  PROVE  d = Source
<1>1. d \in [1 .. Chunks -> Chunk] /\ \A i \in 1 .. Chunks : d[i] = i
  BY DEF Beginning
<1> QED
  BY <1>1 DEF Source

LEMMA InitPart ==
  ASSUME "foreignPart" \notin Events, Init
  PROVE  PartInv
<1> SUFFICES ASSUME part.there
             PROVE  Beginning(part.data)
  BY DEF PartInv
<1>1. PICK n \in 0 .. Chunks : part = [there |-> TRUE, data |-> [i \in 1 .. n |-> i]]
  BY DEF Init, LeftOver, NoFile
<1>2. part.data = [i \in 1 .. n |-> i] /\ n \in Nat
  BY <1>1, ChunksAssumption
<1>3. Len([i \in 1 .. n |-> i]) = n
  BY <1>2
<1> QED
  BY <1>2, <1>3, ChunksAssumption DEF Beginning

LEMMA DataPart ==
  ASSUME StreamInv, NEW a \in Attempt, ReceiverGetsData(a)
  PROVE  \/ part' = part
         \/ /\ part.there /\ Len(part.data) < Chunks
            /\ part'.data = Append(part.data, Len(part.data) + 1)
<1>1. TypeInv /\ UnusedLinks /\ HandleInv
  BY StreamParts
<1>2. /\ a = snd.attempt
      /\ rcv'[a].got = Append(rcv[a].got, Len(rcv[a].got) + 1)
      /\ Len(rcv[a].got) < Chunks
  BY DataStream
<1>3. ~IsTerminal(rcv[a])
  BY DEF ReceiverGetsData, ReceiverReads
<1>4. /\ rcv[a].file # "final"
      /\ rcv[a].file = "part" => part.there /\ part.data = rcv[a].got
  BY <1>1, <1>2, <1>3 DEF HandleInv
<1>5. /\ rcv[a].file # "part" => part' = part
      /\ rcv[a].file = "part" => part'.there /\ part'.data = rcv'[a].got
  BY <1>1, <1>4, DataReceiver
<1> QED
  BY <1>2, <1>4, <1>5

LEMMA PartStep ==
  ASSUME Plain, StreamInv, PartInv, [Next]_vars
  PROVE  PartInv'
<1> SUFFICES ASSUME part'.there
             PROVE  Beginning(part'.data)
  BY DEF PartInv
<1>1. part.there => Beginning(part.data)
  BY DEF PartInv
<1>2. Beginning(<<>>)
  BY ChunksAssumption DEF Beginning
<1>3. part' # NoFile
  BY DEF NoFile
<1>4. KeptInv /\ ResumePartial /\ part.data \in Seq(Chunk)
  BY StreamParts DEF KeptInv, Plain, Orderly, TypeInv, TypeOK, File, Content
<1>5. ASSUME NEW a \in Attempt, ReceiverGetsData(a)
      PROVE  Beginning(part'.data)
  BY <1>1, <1>4, <1>5, DataPart, BeginningGrows
<1> QED
  BY <1>1, <1>2, <1>3, <1>4, <1>5, PartSteps

LEMMA WholeStep ==
  ASSUME Plain, WholeInv, [Next]_vars
  PROVE  WholeInv'
<1>1. /\ StreamInv /\ PartInv /\ FileIntegrity
      /\ ResumePartial /\ DownloadInv /\ TypeInv /\ KeptInv
  BY StreamParts DEF WholeInv, Plain, Orderly, KeptInv
<1>2. StreamInv' /\ PartInv'
  BY <1>1, NextStream, PartStep
<1>3. ASSUME NEW a \in Attempt, Finalizes(a), final'.there
      PROVE  final'.data = Source
  <2>1. /\ a = snd.attempt /\ ReceiverReads(a, "Finish") /\ ~Mismatch(a)
        /\ final' = part /\ part.there
    BY <1>3 DEF Finalizes
  <2>2. Len(part.data) = Chunks
    BY <1>1, <2>1, FullPart
  <2>3. part.data \in Seq(Chunk) /\ Beginning(part.data)
    BY <1>1, <2>1 DEF PartInv, TypeInv, TypeOK, File, Content
  <2> QED
    BY <2>1, <2>2, <2>3, BeginningIsSource
<1>4. FileIntegrity'
  BY <1>1, <1>3, NextDownload DEF FileIntegrity
<1> QED
  BY <1>2, <1>4 DEF WholeInv

(***************************************************************************)
(* Without VerifyChecksum too, what has its final name is the sender's     *)
(* file, as long as no other file's .part lay under that name: the offsets *)
(* and the order of the packets alone see to it.                           *)
(***************************************************************************)
THEOREM UnverifiedFileIntegrity ==
  ASSUME Plain, "foreignPart" \notin Events
  PROVE  Spec => []FileIntegrity
<1>1. Init => WholeInv
  <2> SUFFICES ASSUME Init PROVE WholeInv
    OBVIOUS
  <2>1. FileIntegrity
    BY InitIntegrity DEF IntegrityInv
  <2> QED
    BY <2>1, InitStream, InitPart DEF WholeInv
<1>2. WholeInv /\ [Next]_vars => WholeInv'
  BY WholeStep
<1>3. WholeInv => FileIntegrity
  BY DEF WholeInv
<1> QED
  BY <1>1, <1>2, <1>3, PTL DEF Spec

(***************************************************************************)
(* A download shown as finished is in the folder, and is the sender's file *)
(* (finalizeDownload(), receiver.cpp): with VerifyChecksum whatever may    *)
(* happen, without it under the conditions above.                          *)
(***************************************************************************)
THEOREM FinishedDownloadsAreWhole ==
  ASSUME ResumePartial, Verify \/ (Plain /\ "foreignPart" \notin Events)
  PROVE  Spec => []FinishedDownloadIsWhole
<1>1. Spec => []DeliveredInv
  BY DeliveredInvariant
<1>2. Spec => []FileIntegrity
  BY VerifiedFileIntegrity, UnverifiedFileIntegrity
<1>3. Init => FinishedDownloadIsWhole
  BY DEF Init, NoReceiver, FinishedDownloadIsWhole
<1>4. /\ DeliveredInv /\ FinishedDownloadIsWhole /\ FileIntegrity' /\ [Next]_vars
      => FinishedDownloadIsWhole'
  BY FinishedStep
<1> QED
  BY <1>1, <1>2, <1>3, <1>4, PTL DEF Spec
-----------------------------------------------------------------------------
(* A lost connection                                                       *)

(***************************************************************************)
(* What the upload's states have to do with its members: a cancelled one   *)
(* has ended, a paused one does not go back to a state in which it has     *)
(* ended or not begun, one with a socket has begun, and no timer runs that *)
(* has been turned off.                                                    *)
(***************************************************************************)
Lasting(s) ==
  /\ s.cancelled => IsTerminal(s)
  /\ s.last \in Terminal => IsTerminal(s)
  /\ s.state = "Paused" => s.last # "Idle"
  /\ s.state = "Idle" => s.sock = "none"
  /\ s.idleArmed => IdleOn

LEMMA SetStateLasting ==
  ASSUME NEW s \in Sender, Lasting(s), NEW new \in TransferState \ {"Idle"}
  PROVE  /\ SetState(s, new) \in Sender /\ Lasting(SetState(s, new))
         /\ SetState(s, new).sock = s.sock
<1>1. Steady(s, SetState(s, new))
  BY SetStateSender
<1>2. CASE new = s.state
  BY <1>2 DEF SetState
<1>3. CASE new # s.state
  <2> DEFINE t == [s EXCEPT !.state = NextState(s, new), !.last = s.state]
             next == NextState(s, new)
  <2>1. SetState(s, new) = t
    BY <1>3 DEF SetState
  <2>2. /\ t.state = next /\ t.last = s.state /\ t.cancelled = s.cancelled
        /\ t.sock = s.sock /\ t.idleArmed = s.idleArmed
    BY DEF Sender
  <2>3. \/ next = s.state
        \/ next = s.last /\ s.state = "Paused"
        \/ next = new /\ new \in Accepted[s.state]
    BY DEF NextState
  <2>4. s.state \in TransferState /\ s.last \in TransferState
    BY DEF Sender
  <2>5. "Paused" \notin Accepted["Idle"]
    BY DEF Accepted, TransferState
  <2>6. s.state \in Terminal => next = s.state
    BY TerminalStays
  <2> HIDE DEF t, next
  <2>7. Lasting(t)
    BY <2>2, <2>3, <2>4, <2>5, <2>6 DEF Lasting, IsTerminal, Terminal
  <2> QED
    BY <1>1, <2>1, <2>7 DEF Steady
<1> QED
  BY <1>1, <1>2, <1>3 DEF Steady

\* a change of the other members
Beside(s, t) ==
  /\ t \in Sender
  /\ t.state = s.state /\ t.last = s.last /\ t.cancelled = s.cancelled
  /\ t.sock = s.sock
  /\ t.idleArmed => s.idleArmed \/ IdleOn

LEMMA BesideLasting ==
  ASSUME NEW s, NEW t, Lasting(s), Beside(s, t)
  PROVE  Lasting(t)
  BY DEF Lasting, Beside, IsTerminal

LEMMA PlainLasting ==
  ASSUME NEW s \in Sender
  PROVE  /\ Beside(s, Touch(s)) /\ Beside(s, Wrote(s)) /\ Beside(s, SendHeader(s))
         /\ Beside(s, ScheduleSend(s)) /\ Beside(s, ScheduleRetry(s))
<1>0. IdleOn \in BOOLEAN
  BY DEF IdleOn
<1>1. \A t \in Sender : Beside(t, Touch(t))
  BY <1>0 DEF Touch, Sender, Beside
<1>2. ASSUME NEW t \in Sender
      PROVE  /\ Beside(t, t)
             /\ Beside(t, [t EXCEPT !.unsent = TRUE])
             /\ Beside(t, [t EXCEPT !.waitingForOffsetAck = TRUE])
             /\ Beside(t, [t EXCEPT !.sendScheduled = TRUE])
             /\ Beside(t, [t EXCEPT !.retryScheduled = TRUE])
  <2>1. Beside(t, t)
    BY DEF Sender, Beside
  <2>2. Beside(t, [t EXCEPT !.unsent = TRUE])
    BY DEF Sender, Beside
  <2>3. Beside(t, [t EXCEPT !.waitingForOffsetAck = TRUE])
    BY DEF Sender, Beside
  <2>4. Beside(t, [t EXCEPT !.sendScheduled = TRUE])
    BY DEF Sender, Beside
  <2>5. Beside(t, [t EXCEPT !.retryScheduled = TRUE])
    BY DEF Sender, Beside
  <2> QED
    BY <2>1, <2>2, <2>3, <2>4, <2>5
<1>3. Beside(s, Wrote(s))
  <2> DEFINE t == Touch(s)
             u == [t EXCEPT !.unsent = TRUE]
  <2>1. Beside(s, t) /\ Wrote(s) \in {s, u}
    BY <1>1 DEF Wrote
  <2> HIDE DEF t
  <2>2. Beside(t, u)
    BY <1>2, <2>1 DEF Beside
  <2> HIDE DEF u
  <2> QED
    BY <1>2, <2>1, <2>2 DEF Beside
<1>4. Beside(s, SendHeader(s))
  <2> DEFINE t == Wrote(s)
             u == [t EXCEPT !.waitingForOffsetAck = TRUE]
  <2>1. Beside(s, t) /\ SendHeader(s) = u
    BY <1>3 DEF SendHeader
  <2> HIDE DEF t
  <2>2. Beside(t, u)
    BY <1>2, <2>1 DEF Beside
  <2> HIDE DEF u
  <2> QED
    BY <2>1, <2>2 DEF Beside
<1>5. Beside(s, ScheduleSend(s))
  BY <1>2 DEF ScheduleSend
<1>6. Beside(s, ScheduleRetry(s))
  BY <1>2 DEF ScheduleRetry
<1> QED
  BY <1>1, <1>3, <1>4, <1>5, <1>6

LEMMA FailLasting ==
  ASSUME NEW s \in Sender, Lasting(s)
  PROVE  Fail(s) \in Sender /\ Lasting(Fail(s)) /\ Fail(s).sock = s.sock
<1>1. [s EXCEPT !.state = "Failed"] \in Sender
  BY DEF Sender, TransferState
<1> QED
  BY <1>1 DEF Fail, Sender, Lasting, IsTerminal, Terminal

LEMMA ClosedLasting ==
  ASSUME NEW s \in Sender, Lasting(s), s.sock # "none"
  PROVE  Closed(s) \in Sender /\ Lasting(Closed(s)) /\ Closed(s).sock = "closed"
  BY DEF Closed, Sender, Lasting, IsTerminal

LEMMA CompleteUploadLasting ==
  ASSUME NEW s \in Sender, Lasting(s)
  PROVE  LET t == CompleteUpload(s)
         IN t \in Sender /\ Lasting(t) /\ t.sock = s.sock
<1> DEFINE u == [s EXCEPT !.finishing = FALSE, !.finishPending = FALSE,
                          !.sendScheduled = FALSE]
<1>1. Beside(s, u)
  BY DEF Sender, Beside
<1>2. CompleteUpload(s) = s \/ CompleteUpload(s) = SetState(u, "Finish")
  BY DEF CompleteUpload
<1> HIDE DEF u
<1>3. "Finish" \in TransferState \ {"Idle"}
  BY DEF TransferState
<1>4. u \in Sender /\ Lasting(u) /\ u.sock = s.sock
  BY <1>1, BesideLasting DEF Beside
<1> QED
  BY <1>2, <1>3, <1>4, SetStateLasting

LEMMA ConnectLasting ==
  ASSUME NEW s \in Sender, Lasting(s)
  PROVE  Lasting(ConnectTransferSocket(s))
<1> DEFINE t == Touch(s)
           u == [t EXCEPT !.sock = "connecting", !.unsent = FALSE]
           w == SetState(u, "Waiting")
<1>1. Beside(s, t) /\ Lasting(t)
  BY PlainLasting, BesideLasting
<1>2. w = ConnectTransferSocket(s)
  BY DEF ConnectTransferSocket
<1> HIDE DEF t
<1>3. "Waiting" \in TransferState \ {"Idle"} /\ "Waiting" \in Accepted["Idle"]
  BY DEF TransferState, Accepted
<1>4. CASE s.state = "Idle"
  <2>1. /\ u \in Sender /\ u.state = "Idle" /\ u.cancelled = s.cancelled
        /\ u.idleArmed => IdleOn
    BY <1>1, <1>4 DEF Beside, Sender, Lasting
  <2>2. u.state = "Idle" /\ u.sock = "connecting"
    BY <1>1, <2>1 DEF Beside, Sender
  <2> HIDE DEF u
  <2>3. w = [u EXCEPT !.state = "Waiting", !.last = "Idle"]
    BY <1>3, <2>1 DEF SetState, NextState
  <2>4. ~u.cancelled
    BY <1>4, <2>1 DEF Lasting, IsTerminal, Terminal
  <2>5. /\ w.state = "Waiting" /\ w.last = "Idle" /\ w.cancelled = FALSE
        /\ w.idleArmed => IdleOn
    BY <2>1, <2>3, <2>4 DEF Sender
  <2>6. Lasting(w)
    <3> HIDE DEF w
    <3> QED BY <2>5 DEF Lasting, Terminal
  <2> QED
    BY <1>2, <2>6
<1>5. CASE s.state # "Idle"
  <2>1. u \in Sender /\ Lasting(u)
    BY <1>1, <1>5 DEF Beside, Sender, Lasting, IsTerminal
  <2> HIDE DEF u
  <2> QED
    BY <1>2, <1>3, <2>1, SetStateLasting
<1> QED
  BY <1>4, <1>5

\* a lost connection is retried or, without attempts left, given up
LEMMA OnDisconnectedLasting ==
  ASSUME NEW s \in Sender, Lasting(s)
  PROVE  LET t == OnDisconnected(s)
         IN /\ t \in Sender /\ Lasting(t) /\ t.sock = s.sock
            /\ ~IsTerminal(s) /\ ~s.paused /\ s.attempt < RetryMax => t.state # "Failed"
<1> DEFINE idle == [s EXCEPT !.idleArmed = FALSE]
           waiting == SetState(idle, "Waiting")
           retry == ScheduleRetry(waiting)
<1>1. Beside(s, idle)
  BY DEF Sender, Beside
<1>2. idle \in Sender /\ Lasting(idle) /\ idle.state = s.state /\ idle.last = s.last
      /\ idle.sock = s.sock
  BY <1>1, BesideLasting DEF Beside
<1>3. /\ IsTerminal(s) => OnDisconnected(s) = s
      /\ OnDisconnected(s) \in {s, CompleteUpload(s), retry, Fail(idle)}
      /\ ~IsTerminal(s) /\ ~s.cancelled /\ ~s.paused /\ s.attempt < RetryMax =>
           OnDisconnected(s) \in {s, CompleteUpload(s), retry}
  BY DEF OnDisconnected
<1> HIDE DEF idle
<1>4. "Waiting" \in TransferState \ {"Idle"} /\ "Finish" \in TransferState \ {"Idle"}
  BY DEF TransferState
<1>5. waiting \in Sender /\ Lasting(waiting) /\ waiting.sock = s.sock
  BY <1>2, <1>4, SetStateLasting
<1>6. ASSUME NEW u \in Sender, Lasting(u), ~IsTerminal(u),
             NEW new \in TransferState \ {"Failed"}
      PROVE  SetState(u, new).state # "Failed"
  <2>1. NextState(u, new) # "Failed"
    BY <1>6 DEF NextState, Lasting, IsTerminal, Terminal
  <2> QED
    BY <1>6, <2>1 DEF SetState, Sender, IsTerminal, Terminal
<1>7. ~IsTerminal(s) => waiting.state # "Failed"
  BY <1>2, <1>4, <1>6 DEF IsTerminal
<1>8. ~IsTerminal(s) => CompleteUpload(s).state # "Failed"
  <2> DEFINE u == [s EXCEPT !.finishing = FALSE, !.finishPending = FALSE,
                            !.sendScheduled = FALSE]
  <2>1. Beside(s, u)
    BY DEF Sender, Beside
  <2>2. ~IsTerminal(s) => CompleteUpload(s) = SetState(u, "Finish")
    BY DEF CompleteUpload
  <2> HIDE DEF u
  <2>3. u \in Sender /\ Lasting(u) /\ u.state = s.state
    BY <2>1, BesideLasting DEF Beside
  <2>4. "Finish" # "Failed"
    OBVIOUS
  <2> QED
    BY <1>4, <1>6, <2>2, <2>3, <2>4 DEF IsTerminal
<1> HIDE DEF waiting
<1>9. Beside(waiting, retry)
  BY <1>5, PlainLasting
<1>10. retry \in Sender /\ Lasting(retry) /\ retry.state = waiting.state /\ retry.sock = s.sock
  BY <1>5, <1>9, BesideLasting DEF Beside
<1> HIDE DEF retry
<1>11. Fail(idle) \in Sender /\ Lasting(Fail(idle)) /\ Fail(idle).sock = s.sock
  BY <1>2, FailLasting
<1>12. CompleteUpload(s) \in Sender /\ Lasting(CompleteUpload(s)) /\ CompleteUpload(s).sock = s.sock
  BY CompleteUploadLasting
<1>13. OnDisconnected(s) \in Sender /\ Lasting(OnDisconnected(s)) /\ OnDisconnected(s).sock = s.sock
  BY <1>3, <1>10, <1>11, <1>12
<1>14. ~IsTerminal(s) => s.state # "Failed" /\ ~s.cancelled
  BY DEF Lasting, IsTerminal, Terminal
<1> QED
  BY <1>3, <1>7, <1>8, <1>10, <1>13, <1>14

LEMMA ApplyOffsetAckLasting ==
  ASSUME NEW s \in Sender, NEW offset \in Chunk
  PROVE  Beside(s, ApplyOffsetAck(s, offset))
<1> DEFINE u == [s EXCEPT !.waitingForOffsetAck = FALSE]
           v == [u EXCEPT !.remaining = Chunks - offset,
                          !.pos = IF offset > 0 THEN offset ELSE @,
                          !.hashFrom = IF offset > 0 THEN 0 ELSE s.pos]
<1>1. Beside(s, u)
  BY DEF Sender, Beside
<1>2. ApplyOffsetAck(s, offset) \in {u, ScheduleSend(v)}
  BY DEF ApplyOffsetAck
<1>3. u \in Sender /\ s.pos \in 0 .. Chunks
  BY <1>1 DEF Beside, Sender
<1>4. Chunks - offset \in 0 .. Chunks /\ offset \in 0 .. Chunks /\ 0 \in 0 .. Chunks
  BY ChunksAssumption DEF Chunk
<1> HIDE DEF u
<1>5. Beside(u, v)
  BY <1>3, <1>4 DEF Sender, Beside
<1> HIDE DEF v
<1>6. Beside(v, ScheduleSend(v))
  BY <1>5, PlainLasting DEF Beside
<1> QED
  BY <1>1, <1>2, <1>5, <1>6 DEF Beside

LossInv == Lasting(snd)

LEMMA SenderLasting ==
  ASSUME TypeInv, LossInv, SenderNext
  PROVE  Lasting(snd')
<1>0. snd \in Sender /\ Lasting(snd)
  BY DEF TypeInv, TypeOK, LossInv
<1>T. {"Waiting", "Transfering", "Paused", "Cancelled", "Finish"} \subseteq TransferState \ {"Idle"}
  BY DEF TransferState
<1>1. CASE Start
  BY <1>0, <1>1, ConnectLasting DEF Start
<1>2. ASSUME snd.sock \in {"connecting", "handshake"}
      PROVE  LET s == [snd EXCEPT !.sock = "open"]
                 t == SendHeader(SetState(s, "Transfering"))
             IN t \in Sender /\ Lasting(t)
  <2> DEFINE s == [snd EXCEPT !.sock = "open"]
             u == SetState(s, "Transfering")
             t == SendHeader(u)
  <2>1. s \in Sender /\ Lasting(s)
    BY <1>0, <1>2 DEF Sender, Lasting, IsTerminal
  <2> HIDE DEF s
  <2>2. u \in Sender /\ Lasting(u)
    BY <1>T, <2>1, SetStateLasting
  <2> HIDE DEF u
  <2>3. t \in Sender /\ Lasting(t)
    BY <2>2, PlainLasting, BesideLasting DEF Beside
  <2> QED
    BY <2>3 DEF t, u, s
<1>3. CASE SenderConnected
  <2>1. CASE TLS
    BY <1>0, <1>3, <2>1 DEF SenderConnected, Sender, Lasting, IsTerminal
  <2>2. CASE ~TLS
    BY <1>2, <1>3, <2>2 DEF SenderConnected
  <2> QED
    BY <2>1, <2>2
<1>4. CASE SenderEncrypted
  <2> DEFINE t == SendHeader(SetState([snd EXCEPT !.sock = "open"], "Transfering"))
             u == [t EXCEPT !.finishPending = FALSE, !.finishing = TRUE]
  <2>1. snd' \in {t, CompleteUpload(u)}
    BY <1>4 DEF SenderEncrypted
  <2>2. t \in Sender /\ Lasting(t)
    BY <1>2, <1>4 DEF SenderEncrypted
  <2> HIDE DEF t
  <2>3. Beside(t, u)
    BY <2>2 DEF Sender, Beside
  <2> HIDE DEF u
  <2> QED
    BY <2>1, <2>2, <2>3, BesideLasting, CompleteUploadLasting DEF Beside
<1>5. CASE ConnectionRefused
  BY <1>0, <1>5 DEF ConnectionRefused, Sender, Lasting, IsTerminal
<1>6. ASSUME NEW s \in Sender, Lasting(s), s.sock # "none"
      PROVE  /\ Closed(Fail(s)) \in Sender /\ Lasting(Closed(Fail(s)))
             /\ Lasting(Touch(Closed(Fail(s))))
  <2>1. Fail(s) \in Sender /\ Lasting(Fail(s)) /\ Fail(s).sock # "none"
    BY <1>6, FailLasting
  <2>2. Closed(Fail(s)) \in Sender /\ Lasting(Closed(Fail(s)))
    BY <2>1, ClosedLasting
  <2> QED
    BY <2>2, PlainLasting, BesideLasting
<1>7. CASE PinMismatch
  BY <1>0, <1>6, <1>7 DEF PinMismatch
<1>8. ASSUME NEW s, Beside(snd, s)
      PROVE  /\ s \in Sender /\ Lasting(s) /\ s.sock = snd.sock
             /\ Lasting(Touch(s)) /\ Beside(s, ScheduleSend(s))
             /\ Lasting(ScheduleSend(s)) /\ Lasting(Touch(ScheduleSend(s)))
  <2>1. s \in Sender /\ Lasting(s) /\ s.sock = snd.sock
    BY <1>0, <1>8, BesideLasting DEF Beside
  <2>2. Lasting(Touch(s)) /\ Beside(s, ScheduleSend(s)) /\ Lasting(ScheduleSend(s))
        /\ ScheduleSend(s) \in Sender
    BY <2>1, PlainLasting, BesideLasting DEF Beside
  <2>3. Lasting(Touch(ScheduleSend(s)))
    BY <2>2, PlainLasting, BesideLasting
  <2> QED
    BY <2>1, <2>2, <2>3
<1>9. CASE SenderGetsOffsetAck
  <2> DEFINE t == [snd EXCEPT !.receiverFinishAck = TRUE]
             n == Head(toS[snd.attempt]).n
             u == ApplyOffsetAck(t, n)
  <2>1. snd' = Touch(u) \/ snd' = Touch(snd)
    BY <1>9 DEF SenderGetsOffsetAck
  <2>2. Beside(snd, t) /\ Beside(snd, snd)
    BY <1>0 DEF Sender, Beside
  <2>3. n \in Chunk
    BY <1>9, OffsetType DEF SenderGetsOffsetAck, SenderReads, Chunk
  <2> HIDE DEF t, n
  <2>4. Beside(t, u)
    BY <2>2, <2>3, ApplyOffsetAckLasting DEF Beside
  <2> HIDE DEF u
  <2>5. Beside(snd, u)
    BY <2>2, <2>4 DEF Beside
  <2> QED
    BY <1>8, <2>1, <2>2, <2>5
<1>10. CASE SenderGetsFinishAck
  BY <1>0, <1>10, CompleteUploadLasting, PlainLasting, BesideLasting DEF SenderGetsFinishAck
<1>11. CASE SenderGetsBusy
  <2> DEFINE heard == [snd EXCEPT !.waitingForOffsetAck = FALSE]
             lost == OnDisconnected(Closed(heard))
             again == ScheduleRetry(lost)
  <2>1. \/ snd' = Touch(snd)
        \/ snd' = [again EXCEPT !.idleArmed = IdleOn /\ ~snd.unsent]
        \/ snd' = Touch(Closed(Fail(heard)))
    BY <1>11 DEF SenderGetsBusy
  <2>2. Beside(snd, heard) /\ Beside(snd, snd)
    BY <1>0 DEF Sender, Beside
  <2>3. heard \in Sender /\ Lasting(heard) /\ heard.sock = "open"
    BY <1>8, <1>11, <2>2 DEF SenderGetsBusy, SenderReads
  <2> HIDE DEF heard
  <2>4. lost \in Sender /\ Lasting(lost)
    BY <2>3, ClosedLasting, OnDisconnectedLasting
  <2> HIDE DEF lost
  <2>5. again \in Sender /\ Lasting(again)
    BY <2>4, PlainLasting, BesideLasting DEF Beside
  <2> HIDE DEF again
  <2>6. Lasting([again EXCEPT !.idleArmed = IdleOn /\ ~snd.unsent])
    BY <2>5 DEF Lasting, Sender, IsTerminal
  <2> QED
    BY <1>6, <1>8, <2>1, <2>2, <2>3, <2>6
<1>12. CASE SenderGetsCancel
  <2> DEFINE s == [snd EXCEPT !.waitingForOffsetAck = FALSE, !.sendScheduled = FALSE,
                              !.finishPending = FALSE, !.finishing = FALSE,
                              !.cancelled = TRUE]
             t == SetState(s, "Cancelled")
  <2>1. snd' = Touch(Closed(t)) /\ snd.sock = "open" /\ ~IsTerminal(snd)
    BY <1>12 DEF SenderGetsCancel, SenderReads
  <2>2. s \in Sender /\ s.state = snd.state /\ s.last = snd.last /\ s.sock = "open"
        /\ s.idleArmed = snd.idleArmed
    BY <1>0, <2>1 DEF Sender
  <2>3. s.state \in {"Queued", "Waiting", "Transfering", "Paused"}
    BY <1>0, <2>1, <2>2 DEF Lasting, Sender, TransferState, IsTerminal, Terminal
  <2> HIDE DEF s
  <2>4. "Cancelled" \in Accepted[s.state]
    BY <2>3 DEF Accepted, TransferState
  <2>5. t = [s EXCEPT !.state = "Cancelled", !.last = s.state]
    BY <2>3, <2>4 DEF SetState, NextState
  <2>6. t \in Sender /\ t.state = "Cancelled" /\ t.last = s.state /\ t.sock = "open"
        /\ t.idleArmed = snd.idleArmed
    BY <2>2, <2>3, <2>5 DEF Sender, TransferState
  <2> HIDE DEF t
  <2>7. Lasting(t)
    BY <1>0, <2>6 DEF Lasting, IsTerminal, Terminal
  <2> QED
    BY <2>1, <2>6, <2>7, ClosedLasting, PlainLasting, BesideLasting
<1>13. CASE SenderGetsPause
  <2>1. Beside(snd, [snd EXCEPT !.pausedByReceiver = TRUE])
    BY <1>0 DEF Sender, Beside
  <2> QED
    BY <1>8, <1>13, <2>1 DEF SenderGetsPause
<1>14. CASE SenderGetsResume
  <2>1. Beside(snd, [snd EXCEPT !.pausedByReceiver = FALSE])
    BY <1>0 DEF Sender, Beside
  <2> QED
    BY <1>8, <1>14, <2>1 DEF SenderGetsResume
<1>15. CASE SendData
  <2> DEFINE woken == [snd EXCEPT !.sendScheduled = FALSE]
             w == Wrote(woken)
             sent == [w EXCEPT !.remaining = @ - 1, !.pos = @ + 1,
                               !.finishPending = @ \/ snd.remaining = 1]
  <2>1. snd' \in {woken, w, sent}
    BY <1>15 DEF SendData
  <2>2. Beside(snd, woken)
    BY <1>0 DEF Sender, Beside
  <2> HIDE DEF woken
  <2>3. Beside(woken, w)
    BY <2>2, PlainLasting DEF Beside
  <2>4. woken \in Sender /\ Lasting(woken) /\ w \in Sender /\ Lasting(w)
    BY <1>8, <2>2, <2>3, BesideLasting DEF Beside
  <2> HIDE DEF w
  <2>5. Lasting(sent)
    BY <2>4 DEF Lasting, Sender, IsTerminal
  <2> QED
    BY <2>1, <2>4, <2>5
<1>16. CASE ReadError
  <2>1. Beside(snd, [snd EXCEPT !.sendScheduled = FALSE])
    BY <1>0 DEF Sender, Beside
  <2> QED
    BY <1>8, <1>16, <2>1, FailLasting DEF ReadError
<1>17. CASE BytesWritten
  <2> DEFINE drained == [snd EXCEPT !.unsent = FALSE]
             w == Wrote(drained)
             finishing == [w EXCEPT !.finishPending = FALSE, !.finishing = TRUE]
  <2>1. snd' \in {ScheduleSend(drained), drained, finishing, CompleteUpload(finishing)}
    BY <1>17 DEF BytesWritten
  <2>2. Beside(snd, drained)
    BY <1>0 DEF Sender, Beside
  <2> HIDE DEF drained
  <2>3. Beside(drained, w)
    BY <2>2, PlainLasting DEF Beside
  <2> HIDE DEF w
  <2>4. Beside(w, finishing)
    BY <2>3 DEF Sender, Beside
  <2> HIDE DEF finishing
  <2>5. Beside(snd, finishing)
    BY <2>2, <2>3, <2>4 DEF Beside
  <2> QED
    BY <1>8, <2>1, <2>2, <2>5, CompleteUploadLasting
<1>18. CASE SenderDisconnected
  <2>1. snd' = OnDisconnected(OnSocketError(Closed(snd))) /\ snd.sock # "none"
    BY <1>18 DEF SenderDisconnected, Connected
  <2>2. Closed(snd) \in Sender /\ Lasting(Closed(snd))
    BY <1>0, <2>1, ClosedLasting
  <2>3. OnSocketError(Closed(snd)) \in Sender /\ Lasting(OnSocketError(Closed(snd)))
    BY <2>2, FailLasting DEF OnSocketError
  <2> QED
    BY <2>1, <2>3, OnDisconnectedLasting
<1>19. CASE OffsetAckTimeout
  <2>1. 0 \in Chunk
    BY ChunksAssumption DEF Chunk
  <2> QED
    BY <1>0, <1>8, <1>19, <2>1, ApplyOffsetAckLasting DEF OffsetAckTimeout
<1>20. CASE RetryTimer
  <2> DEFINE woken == [snd EXCEPT !.retryScheduled = FALSE]
             u == [woken EXCEPT
                     !.attempt = @ + 1, !.pausedByReceiver = FALSE, !.waitingForOffsetAck = FALSE,
                     !.finishing = FALSE, !.finishPending = FALSE, !.sendScheduled = FALSE,
                     !.receiverFinishAck = FALSE, !.remaining = Chunks, !.pos = 0, !.hashFrom = 0]
  <2>1. snd' \in {woken, ConnectTransferSocket(u)}
    BY <1>20 DEF RetryTimer, RetryConnect
  <2>2. Beside(snd, woken) /\ woken.attempt = snd.attempt
    BY <1>0 DEF Sender, Beside
  <2>3. /\ snd.attempt + 1 \in Attempt /\ Chunks \in 0 .. Chunks /\ 0 \in 0 .. Chunks
    BY <1>0, <1>20, ChunksAssumption, RetryAssumption
       DEF RetryTimer, TypeInv, RetryLeft, Sender, Attempt
  <2> HIDE DEF woken
  <2>4. Beside(woken, u)
    BY <2>2, <2>3 DEF Sender, Beside
  <2> HIDE DEF u
  <2>5. Beside(snd, u)
    BY <2>2, <2>4 DEF Beside
  <2> QED
    BY <1>8, <2>1, <2>2, <2>5, ConnectLasting
<1>21. CASE SenderIdleTimeout
  <2> DEFINE fired == [snd EXCEPT !.idleArmed = FALSE]
  <2>1. \/ snd' = Closed(Fail(fired)) /\ snd.sock # "none"
        \/ snd' \in {fired, Fail(fired)}
    BY <1>21 DEF SenderIdleTimeout, Connected
  <2>2. Beside(snd, fired)
    BY <1>0 DEF Sender, Beside
  <2> HIDE DEF fired
  <2> QED
    BY <1>6, <1>8, <2>1, <2>2, FailLasting
<1>22. CASE SenderPause
  <2> DEFINE t == SetState(snd, "Paused")
  <2>1. t \in Sender /\ Lasting(t)
    BY <1>0, <1>T, SetStateLasting
  <2>2. snd' = [t EXCEPT !.paused = TRUE] BY <1>22 DEF SenderPause
  <2> HIDE DEF t
  <2>3. Beside(t, [t EXCEPT !.paused = TRUE])
    BY <2>1 DEF Sender, Beside
  <2> QED
    BY <2>1, <2>2, <2>3, BesideLasting
<1>23. CASE SenderResume
  <2> DEFINE t == SetState(snd, snd.last)
             u == [t EXCEPT !.paused = FALSE]
  <2>1. snd.last \in TransferState \ {"Idle"} /\ snd' = ScheduleSend(u)
    BY <1>0, <1>23 DEF SenderResume, CanResume, Lasting, Sender
  <2>2. t \in Sender /\ Lasting(t)
    BY <1>0, <2>1, SetStateLasting
  <2> HIDE DEF t
  <2>3. Beside(t, u)
    BY <2>2 DEF Sender, Beside
  <2>4. u \in Sender /\ Lasting(u)
    BY <2>2, <2>3, BesideLasting DEF Beside
  <2> HIDE DEF u
  <2> QED
    BY <2>1, <2>4, PlainLasting, BesideLasting
<1>24. CASE SenderCancel
  <2> DEFINE w == Wrote(snd)
             s == [w EXCEPT !.waitingForOffsetAck = FALSE, !.cancelled = TRUE]
             t == SetState(s, "Cancelled")
  <2>1. snd' = t /\ CanCancel(snd)
    BY <1>24 DEF SenderCancel
  <2>2. Beside(snd, w) /\ w \in Sender /\ Lasting(w)
    BY <1>0, PlainLasting, BesideLasting DEF Beside
  <2> HIDE DEF w
  <2>3. s \in Sender /\ s.state = w.state /\ s.last = w.last /\ s.sock = w.sock
        /\ s.idleArmed = w.idleArmed
    BY <2>2 DEF Sender
  <2>4. s.state \in {"Queued", "Waiting", "Transfering", "Paused"}
    BY <2>1, <2>2, <2>3 DEF CanCancel, Beside
  <2> HIDE DEF s
  <2>5. "Cancelled" \in Accepted[s.state]
    BY <2>4 DEF Accepted, TransferState
  <2>6. t = [s EXCEPT !.state = "Cancelled", !.last = s.state]
    BY <2>4, <2>5 DEF SetState, NextState
  <2>7. /\ t.state = "Cancelled" /\ t.last = s.state /\ t.idleArmed = w.idleArmed
    BY <2>3, <2>6 DEF Sender
  <2> HIDE DEF t
  <2> QED
    BY <2>1, <2>2, <2>7 DEF Lasting, IsTerminal, Terminal
<1> QED
  BY <1>1, <1>3, <1>4, <1>5, <1>7, <1>9, <1>10, <1>11, <1>12, <1>13, <1>14, <1>15,
     <1>16, <1>17, <1>18, <1>19, <1>20, <1>21, <1>22, <1>23, <1>24 DEF SenderNext

LEMMA NextLasting ==
  ASSUME TypeInv, LossInv, [Next]_vars
  PROVE  LossInv'
<1>1. CASE SenderNext
  BY <1>1, SenderLasting DEF LossInv
<1>2. ASSUME NEW a \in Attempt, ReceiverNext(a) \/ Break(a)
      PROVE  LossInv'
  BY <1>2, ElsewhereSender DEF LossInv, Lasting, IsTerminal
<1>3. CASE UNCHANGED vars
  BY <1>3 DEF LossInv, Lasting, IsTerminal, vars
<1> QED
  BY <1>1, <1>2, <1>3 DEF Next

LEMMA InitLasting == Init => LossInv
<1> SUFFICES ASSUME Init PROVE Lasting(snd)
  BY DEF LossInv
<1>1. NewSender \in Sender
  BY ChunksAssumption, RetryAssumption DEF NewSender, Sender, TransferState, Attempt
<1>2. Lasting(NewSender)
  BY DEF Lasting, NewSender, IsTerminal, Terminal
<1>3. "Queued" \in TransferState \ {"Idle"}
  BY DEF TransferState
<1>4. Lasting(SetState(NewSender, "Queued"))
  BY <1>1, <1>2, <1>3, SetStateLasting
<1> QED
  BY <1>2, <1>4 DEF Init

LEMMA RetriedStep ==
  ASSUME ~TLS, "idle" \notin Events, TypeInv, LossInv, [Next]_vars,
         Connected(snd), snd'.sock = "closed", link[snd.attempt] = "down",
         ~IsTerminal(snd), snd.remaining > 0, ~snd.paused, snd.attempt < RetryMax
  PROVE  snd'.state # "Failed"
<1>0. snd \in Sender /\ Lasting(snd) /\ snd.sock # "closed" /\ snd.sock # "none"
      /\ ~snd.cancelled /\ ~snd.idleArmed
  BY DEF TypeInv, TypeOK, LossInv, Connected, Lasting, IdleOn
<1>1. SenderNext
  BY <1>0, ElsewhereSender DEF Next, vars
<1>2. SenderDisconnected \/ SenderGetsBusy \/ SenderGetsCancel
  <2>1. ~Start /\ ~SenderConnected /\ ~ConnectionRefused /\ ~SenderEncrypted /\ ~PinMismatch
        /\ ~SenderIdleTimeout
    BY <1>0 DEF Start, SenderConnected, ConnectionRefused, SenderEncrypted, PinMismatch,
                SenderIdleTimeout, Connected
  <2>2. ~SendData /\ ~BytesWritten /\ ~SenderGetsOffsetAck
    BY <1>0, SocketStays
  <2>3. ~OffsetAckTimeout
    <3>1. SUFFICES ASSUME OffsetAckTimeout PROVE FALSE
      OBVIOUS
    <3>2. 0 \in Chunk
      BY ChunksAssumption DEF Chunk
    <3> QED
      BY <1>0, <3>1, <3>2, ApplyOffsetAckSender DEF OffsetAckTimeout
  <2>4. ~RetryTimer
    <3>1. SUFFICES ASSUME RetryTimer PROVE FALSE
      OBVIOUS
    <3> DEFINE woken == [snd EXCEPT !.retryScheduled = FALSE]
    <3>2. woken \in Sender /\ woken.sock = snd.sock /\ woken.attempt = snd.attempt
      BY <1>0 DEF Sender
    <3>3. snd' = woken \/ snd' = RetryConnect(woken)
      BY <3>1 DEF RetryTimer
    <3> HIDE DEF woken
    <3> QED
      BY <1>0, <3>2, <3>3, RetryConnectSender
  <2>5. ~SenderCancel
    <3>1. SUFFICES ASSUME SenderCancel PROVE FALSE
      OBVIOUS
    <3> DEFINE w == Wrote(snd)
               s == [w EXCEPT !.waitingForOffsetAck = FALSE, !.cancelled = TRUE]
    <3>2. w \in Sender /\ w.sock = snd.sock
      BY <1>0, WroteSender DEF Steady
    <3>3. snd' = SetState(s, "Cancelled")
      BY <3>1 DEF SenderCancel
    <3> HIDE DEF w
    <3>4. s \in Sender /\ s.sock = snd.sock
      BY <3>2 DEF Sender
    <3> HIDE DEF s
    <3>5. "Cancelled" \in TransferState
      BY DEF TransferState
    <3> QED
      BY <1>0, <3>3, <3>4, <3>5, SetStateSender DEF Steady
  <2>6. ASSUME \/ SenderGetsFinishAck \/ SenderGetsPause \/ SenderGetsResume
               \/ ReadError \/ SenderPause \/ SenderResume
        PROVE  SenderDisconnected \/ SenderGetsBusy \/ SenderGetsCancel
    BY <1>0, <2>1, <2>6, ClosingSender DEF Closers
  <2> QED
    BY <1>1, <2>1, <2>2, <2>3, <2>4, <2>5, <2>6 DEF SenderNext
<1>3. ASSUME NEW s \in Sender, Lasting(s), s.sock = snd.sock, s.state = snd.state,
             s.paused = snd.paused, s.attempt = snd.attempt
      PROVE  /\ OnDisconnected(Closed(s)) \in Sender
             /\ OnDisconnected(Closed(s)).state # "Failed"
             /\ Closed(s) \in Sender
  <2>1. Closed(s) \in Sender /\ Lasting(Closed(s))
    BY <1>0, <1>3, ClosedLasting
  <2>2. Closed(s).state = s.state /\ Closed(s).paused = s.paused /\ Closed(s).attempt = s.attempt
    BY DEF Closed, Sender
  <2>3. ~IsTerminal(Closed(s)) /\ ~Closed(s).paused /\ Closed(s).attempt < RetryMax
    BY <1>3, <2>2 DEF IsTerminal
  <2> QED
    BY <2>1, <2>3, OnDisconnectedLasting
<1>4. CASE SenderDisconnected
  <2>1. snd' = OnDisconnected(Closed(snd))
    BY <1>4 DEF SenderDisconnected, OnSocketError
  <2> QED
    BY <1>0, <1>3, <2>1
<1>5. CASE SenderGetsBusy
  <2> DEFINE heard == [snd EXCEPT !.waitingForOffsetAck = FALSE]
             lost == OnDisconnected(Closed(heard))
             again == ScheduleRetry(lost)
  <2>1. \/ snd' = Touch(snd)
        \/ snd' = [again EXCEPT !.idleArmed = IdleOn /\ ~snd.unsent]
    BY <1>0, <1>5 DEF SenderGetsBusy
  <2>2. Touch(snd).sock = snd.sock
    BY <1>0, TouchSender DEF Steady
  <2>3. Beside(snd, heard) /\ heard.paused = snd.paused /\ heard.attempt = snd.attempt
    BY <1>0 DEF Sender, Beside
  <2> HIDE DEF heard
  <2>4. lost \in Sender /\ lost.state # "Failed"
    BY <1>0, <1>3, <2>3, BesideLasting DEF Beside
  <2> HIDE DEF lost
  <2>5. again \in Sender /\ again.state # "Failed"
    BY <2>4, ScheduleRetrySender
  <2> HIDE DEF again
  <2>6. [again EXCEPT !.idleArmed = IdleOn /\ ~snd.unsent].state = again.state
    BY <2>5 DEF Sender
  <2> QED
    BY <1>0, <2>1, <2>2, <2>5, <2>6
<1>6. CASE SenderGetsCancel
  <2> DEFINE s == [snd EXCEPT !.waitingForOffsetAck = FALSE, !.sendScheduled = FALSE,
                              !.finishPending = FALSE, !.finishing = FALSE,
                              !.cancelled = TRUE]
             t == SetState(s, "Cancelled")
  <2>1. snd' = Touch(Closed(t))
    BY <1>6 DEF SenderGetsCancel
  <2>2. s \in Sender /\ s.state = snd.state
    BY <1>0 DEF Sender
  <2>3. s.state \in {"Queued", "Waiting", "Transfering", "Paused"}
    BY <1>0, <2>2 DEF Lasting, Sender, TransferState, IsTerminal, Terminal
  <2> HIDE DEF s
  <2>4. "Cancelled" \in Accepted[s.state] /\ "Cancelled" \in TransferState
    BY <2>3 DEF Accepted, TransferState
  <2>5. t = [s EXCEPT !.state = "Cancelled", !.last = s.state]
    BY <2>3, <2>4 DEF SetState, NextState
  <2>6. t \in Sender /\ t.state = "Cancelled"
    BY <2>2, <2>3, <2>4, <2>5, SetStateSender DEF Sender, Steady
  <2> HIDE DEF t
  <2>7. Closed(t) \in Sender /\ Closed(t).state = "Cancelled"
    BY <2>6, ClosedSender
  <2> QED
    BY <2>1, <2>7, TouchSender
<1> QED
  BY <1>2, <1>4, <1>5, <1>6

(***************************************************************************)
(* A connection that is lost with the file not sent and attempts left is   *)
(* tried again (Sender::onDisconnected(), sender.cpp).  Two settings take   *)
(* the loss for the end: with TLS onSocketError() fails the upload, and a  *)
(* peer that stays silent for TransferIdleTimeoutMs fails it before.       *)
(***************************************************************************)
THEOREM LostConnectionsAreRetried ==
  ~TLS /\ "idle" \notin Events => (Spec => LossIsRetried)
<1> SUFFICES ASSUME ~TLS, "idle" \notin Events
             PROVE  Spec => LossIsRetried
  OBVIOUS
<1>1. TypeInv /\ LossInv /\ [Next]_vars =>
        [/\ Connected(snd) /\ snd'.sock = "closed" /\ link[snd.attempt] = "down"
         /\ ~IsTerminal(snd) /\ snd.remaining > 0
         /\ ~snd.paused /\ snd.attempt < RetryMax
         => snd'.state # "Failed"]_vars
  BY RetriedStep
<1>2. TypeInv /\ LossInv /\ [Next]_vars => TypeInv' /\ LossInv'
  BY NextType, NextLasting
<1>3. Init => TypeInv /\ LossInv
  BY InitType, InitLasting
<1> QED
  BY <1>1, <1>2, <1>3, PTL DEF Spec, LossIsRetried

-----------------------------------------------------------------------------
(* What a step of the Sender claims: that it has sent the Finish packet,   *)
(* that the Receiver answers it, that the upload is finished.              *)

\* a change that claims nothing
Modest(s, t) ==
  /\ t \in Sender /\ Lasting(t)
  /\ t.sock = s.sock /\ t.waitingForOffsetAck = s.waitingForOffsetAck
  /\ t.finishing = s.finishing /\ t.finishPending = s.finishPending
  /\ t.receiverFinishAck = s.receiverFinishAck
  /\ t.retryScheduled = s.retryScheduled
  /\ t.state = "Finish" => s.state = "Finish"

LEMMA ModestIsTransitive ==
  ASSUME NEW s, NEW t, NEW u, Modest(s, t), Modest(t, u)
  PROVE  Modest(s, u)
  BY DEF Modest

LEMMA SetStateModest ==
  ASSUME NEW s \in Sender, Lasting(s), NEW new \in TransferState \ {"Idle", "Finish"}
  PROVE  Modest(s, SetState(s, new))
<1> DEFINE t == SetState(s, new)
<1>1. t \in Sender /\ Lasting(t) /\ t.sock = s.sock
  BY SetStateLasting
<1>2. t = s \/ t = [s EXCEPT !.state = NextState(s, new), !.last = s.state]
  BY DEF SetState
<1>3. NextState(s, new) = "Finish" => s.state = "Finish"
  BY DEF NextState, Lasting, IsTerminal, Terminal
<1>4. /\ t.waitingForOffsetAck = s.waitingForOffsetAck
      /\ t.finishing = s.finishing /\ t.finishPending = s.finishPending
      /\ t.receiverFinishAck = s.receiverFinishAck
      /\ t.retryScheduled = s.retryScheduled
      /\ t.state \in {s.state, NextState(s, new)}
  BY <1>2 DEF Sender
<1> QED
  BY <1>1, <1>3, <1>4 DEF Modest

LEMMA PlainModest ==
  ASSUME NEW s \in Sender, Lasting(s)
  PROVE  Modest(s, s) /\ Modest(s, Touch(s)) /\ Modest(s, Wrote(s)) /\ Modest(s, ScheduleSend(s))
<1>0. IdleOn \in BOOLEAN
  BY DEF IdleOn
<1>1. ASSUME NEW t \in Sender, Lasting(t)
      PROVE  /\ Modest(t, t) /\ Modest(t, [t EXCEPT !.idleArmed = IdleOn])
             /\ Modest(t, [t EXCEPT !.unsent = TRUE])
             /\ Modest(t, [t EXCEPT !.sendScheduled = TRUE])
  <2>1. Beside(t, [t EXCEPT !.idleArmed = IdleOn])
    BY <1>0, <1>1 DEF Beside, Sender
  <2>2. Beside(t, [t EXCEPT !.unsent = TRUE])
    BY <1>1 DEF Beside, Sender
  <2>3. Beside(t, [t EXCEPT !.sendScheduled = TRUE])
    BY <1>1 DEF Beside, Sender
  <2>4. /\ Lasting([t EXCEPT !.idleArmed = IdleOn]) /\ Lasting([t EXCEPT !.unsent = TRUE])
        /\ Lasting([t EXCEPT !.sendScheduled = TRUE])
    BY <1>1, <2>1, <2>2, <2>3, BesideLasting
  <2>5. Modest(t, [t EXCEPT !.idleArmed = IdleOn])
    BY <2>1, <2>4 DEF Modest, Beside, Sender
  <2>6. Modest(t, [t EXCEPT !.unsent = TRUE])
    BY <2>2, <2>4 DEF Modest, Beside, Sender
  <2>7. Modest(t, [t EXCEPT !.sendScheduled = TRUE])
    BY <2>3, <2>4 DEF Modest, Beside, Sender
  <2> QED
    BY <1>1, <2>5, <2>6, <2>7 DEF Modest
<1>2. Modest(s, Touch(s))
  BY <1>1 DEF Touch
<1>3. Modest(s, Wrote(s))
  <2> DEFINE t == Touch(s)
             u == [t EXCEPT !.unsent = TRUE]
  <2>1. Wrote(s) = s \/ Wrote(s) = u
    BY DEF Wrote
  <2>2. Modest(s, t)
    BY <1>2
  <2> HIDE DEF t
  <2>3. Modest(t, u)
    BY <1>1, <2>2 DEF Modest
  <2> HIDE DEF u
  <2> QED
    BY <1>1, <2>1, <2>2, <2>3, ModestIsTransitive
<1>4. Modest(s, ScheduleSend(s))
  BY <1>1 DEF ScheduleSend
<1> QED
  BY <1>1, <1>2, <1>3, <1>4

LEMMA FailModest ==
  ASSUME NEW s \in Sender, Lasting(s)
  PROVE  Modest(s, Fail(s))
<1>1. Fail(s) \in Sender /\ Lasting(Fail(s))
  BY FailLasting
<1> QED
  BY <1>1 DEF Fail, Modest, Sender

\* what a closed connection leaves: no more is claimed than before
Milder(s, t) ==
  /\ t \in Sender /\ Lasting(t)
  /\ t.finishing => s.finishing
  /\ t.receiverFinishAck = s.receiverFinishAck
  /\ t.state = "Finish" => s.state = "Finish" \/ (s.finishing /\ ~IsTerminal(s))

LEMMA ModestIsMilder ==
  ASSUME NEW s, NEW t, Modest(s, t)
  PROVE  Milder(s, t)
  BY DEF Modest, Milder

LEMMA CompleteUploadMilder ==
  ASSUME NEW s \in Sender, Lasting(s)
  PROVE  LET t == CompleteUpload(s)
         IN /\ t \in Sender /\ Lasting(t) /\ t.sock = s.sock
            /\ t.waitingForOffsetAck = s.waitingForOffsetAck
            /\ t.finishing => s.finishing /\ IsTerminal(s)
            /\ t.receiverFinishAck = s.receiverFinishAck
            /\ t.retryScheduled = s.retryScheduled
<1> DEFINE u == [s EXCEPT !.finishing = FALSE, !.finishPending = FALSE,
                          !.sendScheduled = FALSE]
           t == SetState(u, "Finish")
<1>1. CompleteUpload(s) \in Sender /\ Lasting(CompleteUpload(s)) /\ CompleteUpload(s).sock = s.sock
      /\ CompleteUpload(s).waitingForOffsetAck = s.waitingForOffsetAck
      /\ CompleteUpload(s).retryScheduled = s.retryScheduled
  BY CompleteUploadLasting, CompleteUploadSender
<1>2. CASE IsTerminal(s)
  BY <1>1, <1>2 DEF CompleteUpload
<1>3. CASE ~IsTerminal(s)
  <2>1. CompleteUpload(s) = t
    BY <1>3 DEF CompleteUpload
  <2>2. u \in Sender /\ u.finishing = FALSE /\ u.receiverFinishAck = s.receiverFinishAck
    BY DEF Sender
  <2>3. t = u \/ t = [u EXCEPT !.state = NextState(u, "Finish"), !.last = u.state]
    BY DEF SetState
  <2> HIDE DEF u
  <2>4. t.finishing = FALSE /\ t.receiverFinishAck = s.receiverFinishAck
    BY <2>2, <2>3 DEF Sender
  <2> QED
    BY <1>1, <2>1, <2>4
<1> QED
  BY <1>2, <1>3

LEMMA ClosedMilder ==
  ASSUME NEW s \in Sender, Lasting(s), s.sock # "none"
  PROVE  LET t == Closed(s)
         IN /\ t \in Sender /\ Lasting(t) /\ t.state = s.state /\ t.sock = "closed"
            /\ t.finishing = s.finishing /\ t.receiverFinishAck = s.receiverFinishAck
            /\ t.waitingForOffsetAck = s.waitingForOffsetAck
            /\ t.retryScheduled = s.retryScheduled
<1>1. Closed(s) \in Sender /\ Lasting(Closed(s)) /\ Closed(s).sock = "closed"
  BY ClosedLasting
<1> QED
  BY <1>1 DEF Closed, Sender

LEMMA OnDisconnectedMilder ==
  ASSUME NEW s \in Sender, Lasting(s)
  PROVE  Milder(s, OnDisconnected(s))
<1> DEFINE idle == [s EXCEPT !.idleArmed = FALSE]
           waiting == SetState(idle, "Waiting")
           retry == ScheduleRetry(waiting)
<1>1. Beside(s, idle) /\ idle.finishing = s.finishing
      /\ idle.receiverFinishAck = s.receiverFinishAck
  BY DEF Sender, Beside
<1>2. idle \in Sender /\ Lasting(idle) /\ idle.state = s.state
  BY <1>1, BesideLasting DEF Beside
<1>3. /\ OnDisconnected(s) \in {s, retry, Fail(idle)}
         \/ (s.finishing /\ ~IsTerminal(s) /\ OnDisconnected(s) = CompleteUpload(s))
  BY DEF OnDisconnected
<1> HIDE DEF idle
<1>4. "Waiting" \in TransferState \ {"Idle", "Finish"}
  BY DEF TransferState
<1>5. Modest(idle, waiting)
  BY <1>2, <1>4, SetStateModest
<1> HIDE DEF waiting
<1>6. Beside(waiting, retry) /\ retry.finishing = waiting.finishing
      /\ retry.receiverFinishAck = waiting.receiverFinishAck
  BY <1>5, PlainLasting DEF Modest, ScheduleRetry, Sender
<1>7. Milder(s, retry)
  <2>1. Lasting(retry)
    BY <1>5, <1>6, BesideLasting DEF Modest
  <2> QED
    BY <1>1, <1>2, <1>5, <1>6, <2>1 DEF Beside, Modest, Milder
<1>8. Milder(s, Fail(idle))
  <2>1. Modest(idle, Fail(idle))
    BY <1>2, FailModest
  <2> QED
    BY <1>1, <1>2, <2>1 DEF Modest, Milder
<1>9. Milder(s, s)
  BY DEF Milder
<1>10. ASSUME s.finishing, ~IsTerminal(s) PROVE Milder(s, CompleteUpload(s))
  BY <1>10, CompleteUploadMilder DEF Milder
<1> HIDE DEF retry
<1> QED
  BY <1>3, <1>7, <1>8, <1>9, <1>10

LEMMA ApplyOffsetAckClaims ==
  ASSUME NEW s \in Sender, NEW offset \in Chunk
  PROVE  LET t == ApplyOffsetAck(s, offset)
         IN /\ t.finishing = s.finishing /\ t.receiverFinishAck = s.receiverFinishAck
            /\ t.retryScheduled = s.retryScheduled
<1> DEFINE u == [s EXCEPT !.waitingForOffsetAck = FALSE]
           v == [u EXCEPT !.remaining = Chunks - offset,
                          !.pos = IF offset > 0 THEN offset ELSE @,
                          !.hashFrom = IF offset > 0 THEN 0 ELSE s.pos]
           w == [v EXCEPT !.sendScheduled = TRUE]
<1>1. ApplyOffsetAck(s, offset) \in {u, v, w}
  BY DEF ApplyOffsetAck, ScheduleSend
<1>2. \A t \in {u, v, w} :
        /\ t.finishing = s.finishing /\ t.receiverFinishAck = s.receiverFinishAck
        /\ t.retryScheduled = s.retryScheduled
  BY DEF Sender
<1> QED
  BY <1>1, <1>2

\* what may be claimed, and by which step
Claims ==
  /\ snd'.finishing =>
       \/ snd.finishing /\ snd'.attempt = snd.attempt
       \/ BytesWritten /\ snd.finishPending /\ ~IsTerminal(snd)
  /\ snd.receiverFinishAck /\ snd'.attempt = snd.attempt => snd'.receiverFinishAck
  /\ snd'.retryScheduled => snd.retryScheduled \/ link'[snd.attempt] = "down"
  /\ snd'.state = "Finish" =>
       \/ snd.state = "Finish"
       \/ SenderGetsFinishAck
       \/ SenderDisconnected /\ snd.finishing /\ ~IsTerminal(snd)
       \/ SenderGetsBusy /\ snd.finishing /\ snd.waitingForOffsetAck
       \/ SenderEncrypted /\ snd.finishPending
       \/ BytesWritten /\ snd.finishPending /\ ~snd.receiverFinishAck /\ ~IsTerminal(snd)

LEMMA SenderClaims ==
  ASSUME TypeInv, LossInv, SenderNext
  PROVE  Claims
<1>0. snd \in Sender /\ Lasting(snd)
  BY DEF TypeInv, TypeOK, LossInv
<1>T. {"Waiting", "Transfering", "Paused", "Cancelled"} \subseteq TransferState \ {"Idle", "Finish"}
  BY DEF TransferState
<1> DEFINE
      Plainly == /\ snd'.finishing = snd.finishing
                 /\ snd.receiverFinishAck => snd'.receiverFinishAck
                 /\ snd'.retryScheduled => snd.retryScheduled
                 /\ snd'.state = "Finish" => snd.state = "Finish"
      Fair == /\ snd'.finishing =>
                   snd.finishing \/ (BytesWritten /\ snd.finishPending /\ ~IsTerminal(snd))
              /\ snd.receiverFinishAck => snd'.receiverFinishAck
              /\ snd'.retryScheduled => snd.retryScheduled \/ link'[snd.attempt] = "down"
              /\ snd'.state = "Finish" =>
                   \/ snd.state = "Finish"
                   \/ SenderGetsFinishAck
                   \/ SenderDisconnected /\ snd.finishing /\ ~IsTerminal(snd)
                   \/ SenderGetsBusy /\ snd.finishing /\ snd.waitingForOffsetAck
                   \/ SenderEncrypted /\ snd.finishPending
                   \/ /\ BytesWritten /\ snd.finishPending
                      /\ ~snd.receiverFinishAck /\ ~IsTerminal(snd)
<1>F. Plainly => Fair
  OBVIOUS
<1>S. Modest(snd, snd)
  BY <1>0, PlainModest
<1>N. ASSUME ~RetryTimer
      PROVE  snd'.attempt = snd.attempt
  <2>1. ASSUME NEW n, Learns(n) PROVE snd'.attempt = snd.attempt
    BY <2>1 DEF Learns, KeepsConnection
  <2>2. Listens \/ SendsChunk \/ SendsFinish \/ SendsCancel => snd'.attempt = snd.attempt
    BY DEF Listens, SendsChunk, SendsFinish, SendsCancel, KeepsConnection
  <2>3. CASE Start \/ SenderConnected \/ SenderEncrypted
    BY <2>3, ConnectingSender
  <2>4. CASE SendData
    BY <2>2, <2>4, DataSender
  <2>5. CASE BytesWritten
    BY <2>2, <2>5, FinishSender
  <2>6. CASE SenderCancel
    BY <2>2, <2>6, CancelSender
  <2>7. CASE SenderGetsOffsetAck
    BY <2>1, <2>2, <2>7, OffsetSender
  <2>8. CASE OffsetAckTimeout
    BY <2>1, <2>8, TimeoutSender
  <2>9. CASE \/ ConnectionRefused \/ PinMismatch
             \/ SenderGetsFinishAck \/ SenderGetsBusy \/ SenderGetsCancel
             \/ SenderGetsPause \/ SenderGetsResume
             \/ ReadError \/ SenderDisconnected \/ SenderIdleTimeout
             \/ SenderPause \/ SenderResume
    BY <2>2, <2>9, QuietSender
  <2> QED
    BY <1>N, <2>3, <2>4, <2>5, <2>6, <2>7, <2>8, <2>9 DEF SenderNext
<1>R. ASSUME RetryTimer
      PROVE  Claims
  <2> DEFINE woken == [snd EXCEPT !.retryScheduled = FALSE]
             u == [woken EXCEPT
                     !.attempt = @ + 1, !.pausedByReceiver = FALSE, !.waitingForOffsetAck = FALSE,
                     !.finishing = FALSE, !.finishPending = FALSE, !.sendScheduled = FALSE,
                     !.receiverFinishAck = FALSE, !.remaining = Chunks, !.pos = 0, !.hashFrom = 0]
             s == Touch(u)
             c == [s EXCEPT !.sock = "connecting", !.unsent = FALSE]
             t == SetState(c, "Waiting")
  <2>1. snd' \in {woken, t}
    BY <1>R DEF RetryTimer, RetryConnect, ConnectTransferSocket
  <2>2. /\ Beside(snd, woken) /\ woken.attempt = snd.attempt
        /\ woken.finishing = snd.finishing /\ woken.receiverFinishAck = snd.receiverFinishAck
        /\ ~woken.retryScheduled
    BY <1>0 DEF Sender, Beside
  <2>3. /\ snd.attempt + 1 \in Attempt /\ Chunks \in 0 .. Chunks /\ 0 \in 0 .. Chunks
        /\ snd.attempt \in Nat
    BY <1>0, <1>R, ChunksAssumption, RetryAssumption
       DEF RetryTimer, TypeInv, RetryLeft, Sender, Attempt
  <2> HIDE DEF woken
  <2>4. Beside(woken, u) /\ ~u.finishing /\ ~u.retryScheduled /\ u.attempt = snd.attempt + 1
    BY <2>2, <2>3 DEF Sender, Beside
  <2> HIDE DEF u
  <2>5. u \in Sender /\ Lasting(u)
    BY <1>0, <2>2, <2>4, BesideLasting DEF Beside
  <2>6. Modest(u, s) /\ s.state = u.state /\ s.attempt = u.attempt
    BY <2>5, PlainModest, TouchSender DEF Steady, SameStream
  <2> HIDE DEF s
  <2>7. /\ c \in Sender /\ c.finishing = s.finishing /\ c.retryScheduled = s.retryScheduled
        /\ c.state = s.state /\ c.attempt = s.attempt /\ c.last = s.last
    BY <2>6 DEF Modest, Sender
  <2> HIDE DEF c
  <2>8. t = c \/ t = [c EXCEPT !.state = NextState(c, "Waiting"), !.last = c.state]
    BY DEF SetState
  <2>9. NextState(c, "Waiting") = "Finish" => c.state = "Finish"
    BY <2>6, <2>7 DEF NextState, Modest, Lasting, IsTerminal, Terminal
  <2>13. /\ ~c.finishing /\ ~c.retryScheduled /\ c.attempt = snd.attempt + 1
    BY <2>4, <2>6, <2>7 DEF Modest
  <2> HIDE DEF t
  <2>14. /\ t.finishing = c.finishing /\ t.retryScheduled = c.retryScheduled
         /\ t.attempt = c.attempt /\ t.state \in {c.state, NextState(c, "Waiting")}
    BY <2>7, <2>8 DEF Sender
  <2>10. /\ ~t.finishing /\ ~t.retryScheduled /\ t.attempt = snd.attempt + 1
         /\ t.state = "Finish" => c.state = "Finish"
    BY <2>9, <2>13, <2>14
  <2> HIDE DEF t
  <2>11. c.state = snd.state
    BY <2>2, <2>4, <2>6, <2>7 DEF Beside
  <2>12. woken.state = snd.state
    BY <2>2 DEF Beside
  <2> QED
    BY <2>1, <2>2, <2>3, <2>10, <2>11, <2>12 DEF Claims
<1>Q. SUFFICES ASSUME ~RetryTimer
               PROVE  Fair
  BY <1>R, <1>N DEF Claims
<1>O. ASSUME snd.sock \in {"connecting", "handshake"}
      PROVE  LET t == SendHeader(SetState([snd EXCEPT !.sock = "open"], "Transfering"))
             IN /\ t \in Sender /\ Lasting(t)
                /\ t.finishing = snd.finishing /\ t.finishPending = snd.finishPending
                /\ t.receiverFinishAck = snd.receiverFinishAck
                /\ t.retryScheduled = snd.retryScheduled
                /\ t.state = "Finish" => snd.state = "Finish"
  <2> DEFINE s == [snd EXCEPT !.sock = "open"]
             u == SetState(s, "Transfering")
             w == Wrote(u)
             t == [w EXCEPT !.waitingForOffsetAck = TRUE]
  <2>1. /\ s \in Sender /\ Lasting(s) /\ s.state = snd.state
        /\ s.finishing = snd.finishing /\ s.finishPending = snd.finishPending
        /\ s.receiverFinishAck = snd.receiverFinishAck
        /\ s.retryScheduled = snd.retryScheduled
    BY <1>0, <1>O DEF Sender, Lasting, IsTerminal
  <2> HIDE DEF s
  <2>2. Modest(s, u)
    BY <1>T, <2>1, SetStateModest
  <2> HIDE DEF u
  <2>3. Modest(u, w)
    BY <2>2, PlainModest DEF Modest
  <2> HIDE DEF w
  <2>4. t \in Sender /\ Beside(w, t) /\ Lasting(w)
    BY <2>3 DEF Modest, Beside, Sender
  <2>5. Lasting(t)
    BY <2>4, BesideLasting
  <2>6. /\ t.finishing = w.finishing /\ t.finishPending = w.finishPending
        /\ t.receiverFinishAck = w.receiverFinishAck
        /\ t.retryScheduled = w.retryScheduled /\ t.state = w.state
    BY <2>3 DEF Modest, Sender
  <2> HIDE DEF t
  <2>7. /\ t \in Sender /\ Lasting(t)
        /\ t.finishing = snd.finishing /\ t.finishPending = snd.finishPending
        /\ t.receiverFinishAck = snd.receiverFinishAck
        /\ t.retryScheduled = snd.retryScheduled
        /\ t.state = "Finish" => snd.state = "Finish"
    BY <2>1, <2>2, <2>3, <2>4, <2>5, <2>6 DEF Modest
  <2> QED
    BY <2>7 DEF t, w, u, s, SendHeader
<1>1. CASE Start
  <2> DEFINE s == Touch(snd)
             u == [s EXCEPT !.sock = "connecting", !.unsent = FALSE]
  <2>1. snd' = SetState(u, "Waiting") /\ snd.state \in {"Idle", "Queued"}
    BY <1>1 DEF Start, ConnectTransferSocket
  <2>2. Modest(snd, s) /\ s.state = snd.state
    BY <1>0, PlainModest, TouchSender
  <2> HIDE DEF s
  <2>3. /\ u \in Sender /\ u.finishing = snd.finishing
        /\ u.receiverFinishAck = snd.receiverFinishAck
        /\ u.retryScheduled = snd.retryScheduled
        /\ u.state = snd.state
    BY <2>2 DEF Modest, Sender
  <2> HIDE DEF u
  <2>4. "Waiting" \in Accepted["Idle"] /\ "Waiting" \in Accepted["Queued"]
    BY DEF Accepted, TransferState
  <2>5. snd' = [u EXCEPT !.state = "Waiting", !.last = u.state]
    BY <2>1, <2>3, <2>4 DEF SetState, NextState
  <2>6. /\ snd'.finishing = u.finishing /\ snd'.receiverFinishAck = u.receiverFinishAck
        /\ snd'.retryScheduled = u.retryScheduled /\ snd'.state = "Waiting"
    BY <2>3, <2>5 DEF Sender
  <2> QED
    BY <2>3, <2>6
<1>2. CASE SenderConnected
  <2>1. CASE TLS
    <3>1. snd' = [snd EXCEPT !.sock = "handshake"]
      BY <1>2, <2>1 DEF SenderConnected
    <3> QED
      BY <1>0, <3>1 DEF Sender
  <2>2. CASE ~TLS
    BY <1>0, <1>O, <2>2, <1>2 DEF SenderConnected
  <2> QED
    BY <2>1, <2>2
<1>3. CASE SenderEncrypted
  <2> DEFINE t == SendHeader(SetState([snd EXCEPT !.sock = "open"], "Transfering"))
             u == [t EXCEPT !.finishPending = FALSE, !.finishing = TRUE]
  <2>1. snd.sock = "handshake"
    BY <1>3 DEF SenderEncrypted
  <2>2. /\ t \in Sender /\ Lasting(t)
        /\ t.finishing = snd.finishing /\ t.finishPending = snd.finishPending
        /\ t.receiverFinishAck = snd.receiverFinishAck
        /\ t.retryScheduled = snd.retryScheduled
        /\ t.state = "Finish" => snd.state = "Finish"
    BY <1>O, <2>1
  <2>3. snd' = t \/ (snd' = CompleteUpload(u) /\ snd.finishPending /\ ~IsTerminal(t))
    BY <1>3 DEF SenderEncrypted
  <2> HIDE DEF t
  <2>4. /\ u \in Sender /\ Beside(t, u) /\ u.receiverFinishAck = t.receiverFinishAck
        /\ u.retryScheduled = t.retryScheduled
    BY <2>2 DEF Sender, Beside
  <2>5. Lasting(u) /\ (IsTerminal(u) <=> IsTerminal(t))
    BY <2>2, <2>4, BesideLasting DEF Beside, IsTerminal
  <2> HIDE DEF u
  <2>6. CompleteUpload(u).receiverFinishAck = u.receiverFinishAck
        /\ CompleteUpload(u).retryScheduled = u.retryScheduled
        /\ (CompleteUpload(u).finishing => IsTerminal(u))
    BY <2>4, <2>5, CompleteUploadMilder
  <2> QED
    BY <1>3, <2>2, <2>3, <2>4, <2>5, <2>6
<1>4. CASE ConnectionRefused
  <2>1. snd' = [snd EXCEPT !.sock = "closed"]
    BY <1>4 DEF ConnectionRefused
  <2> QED
    BY <1>0, <2>1 DEF Sender
<1>5. ASSUME NEW s, Modest(snd, s), snd.sock # "none",
             snd' = Closed(Fail(s)) \/ snd' = Touch(Closed(Fail(s)))
      PROVE  Plainly
  <2> DEFINE f == Fail(s)
             c == Closed(f)
  <2>1. Modest(s, f)
    BY <1>5, FailModest DEF Modest
  <2>2. snd' = c \/ snd' = Touch(c)
    BY <1>5
  <2> HIDE DEF f
  <2>3. /\ c \in Sender /\ Lasting(c) /\ c.state = f.state
        /\ c.finishing = f.finishing /\ c.receiverFinishAck = f.receiverFinishAck
        /\ c.retryScheduled = f.retryScheduled
    BY <1>5, <2>1, ClosedMilder DEF Modest
  <2> HIDE DEF c
  <2>4. Modest(c, Touch(c)) /\ Modest(c, c)
    BY <2>3, PlainModest
  <2>5. /\ snd'.finishing = c.finishing /\ snd'.receiverFinishAck = c.receiverFinishAck
        /\ snd'.retryScheduled = c.retryScheduled
        /\ snd'.state = "Finish" => c.state = "Finish"
    BY <2>2, <2>4 DEF Modest
  <2> QED
    BY <1>5, <2>1, <2>3, <2>5 DEF Modest
<1>6. CASE PinMismatch
  <2>1. snd.sock # "none" /\ snd' = Closed(Fail(snd))
    BY <1>6 DEF PinMismatch
  <2> QED
    BY <1>5, <1>S, <2>1
<1>7. ASSUME NEW s, Beside(snd, s), s.finishing = snd.finishing,
             s.finishPending = snd.finishPending,
             s.receiverFinishAck = snd.receiverFinishAck,
             s.retryScheduled = snd.retryScheduled
      PROVE  /\ s \in Sender /\ Lasting(s)
             /\ Modest(s, Touch(s)) /\ Modest(s, ScheduleSend(s))
             /\ Modest(ScheduleSend(s), Touch(ScheduleSend(s)))
             /\ snd' \in {s, Touch(s), ScheduleSend(s), Touch(ScheduleSend(s))} => Plainly
  <2>1. s \in Sender /\ Lasting(s) /\ s.state = snd.state
    BY <1>0, <1>7, BesideLasting DEF Beside
  <2>2. Modest(s, s) /\ Modest(s, Touch(s)) /\ Modest(s, ScheduleSend(s))
    BY <2>1, PlainModest
  <2>3. Modest(ScheduleSend(s), Touch(ScheduleSend(s)))
    BY <2>2, PlainModest DEF Modest
  <2>4. ASSUME NEW t, Modest(s, t), snd' = t \/ (Modest(t, Touch(t)) /\ snd' = Touch(t))
        PROVE  Plainly
    BY <1>7, <2>1, <2>4 DEF Modest
  <2> QED
    BY <2>1, <2>2, <2>3, <2>4
<1>8. CASE SenderGetsOffsetAck
  <2> DEFINE t == [snd EXCEPT !.receiverFinishAck = TRUE]
             n == Head(toS[snd.attempt]).n
             u == ApplyOffsetAck(t, n)
  <2>1. snd' = Touch(u) \/ snd' = Touch(snd)
    BY <1>8 DEF SenderGetsOffsetAck
  <2>2. Beside(snd, t) /\ t.finishing = snd.finishing /\ t.receiverFinishAck = TRUE
        /\ t.retryScheduled = snd.retryScheduled
    BY <1>0 DEF Sender, Beside
  <2>3. n \in Chunk
    BY <1>8, OffsetType DEF SenderGetsOffsetAck, SenderReads, Chunk
  <2> HIDE DEF t, n
  <2>4. t \in Sender /\ Lasting(t)
    BY <1>0, <2>2, BesideLasting DEF Beside
  <2>5. Beside(t, u) /\ u.finishing = t.finishing /\ u.receiverFinishAck = t.receiverFinishAck
        /\ u.retryScheduled = t.retryScheduled
    BY <2>3, <2>4, ApplyOffsetAckLasting, ApplyOffsetAckClaims
  <2> HIDE DEF u
  <2>6. u \in Sender /\ Lasting(u)
    BY <2>4, <2>5, BesideLasting DEF Beside
  <2>7. Modest(u, Touch(u)) /\ Modest(snd, Touch(snd))
    BY <1>0, <2>6, PlainModest
  <2> QED
    BY <2>1, <2>2, <2>5, <2>7 DEF Modest, Beside
<1>9. CASE SenderGetsFinishAck
  <2> DEFINE c == CompleteUpload(snd)
  <2>1. snd' = Touch(c)
    BY <1>9 DEF SenderGetsFinishAck
  <2>2. /\ c \in Sender /\ Lasting(c) /\ c.finishing => snd.finishing
        /\ c.receiverFinishAck = snd.receiverFinishAck
        /\ c.retryScheduled = snd.retryScheduled
    BY <1>0, CompleteUploadMilder
  <2> HIDE DEF c
  <2>3. Modest(c, Touch(c))
    BY <1>0, <2>2, CompleteUploadMilder, PlainModest DEF c
  <2>4. /\ snd'.finishing => snd.finishing
        /\ snd'.receiverFinishAck = snd.receiverFinishAck
        /\ snd'.retryScheduled = snd.retryScheduled
    BY <1>0, <2>1, <2>2, <2>3, CompleteUploadMilder DEF Modest, c
  <2> QED
    BY <1>9, <2>4
<1>10. CASE SenderGetsBusy
  <2> DEFINE heard == [snd EXCEPT !.waitingForOffsetAck = FALSE]
             closed == Closed(heard)
             lost == OnDisconnected(closed)
             again == ScheduleRetry(lost)
             idling == [again EXCEPT !.idleArmed = IdleOn /\ ~snd.unsent]
  <2>1. Beside(snd, heard) /\ heard.finishing = snd.finishing
        /\ heard.receiverFinishAck = snd.receiverFinishAck
        /\ heard.retryScheduled = snd.retryScheduled
    BY <1>0 DEF Sender, Beside
  <2>2. \/ snd' = Touch(snd)
        \/ snd' = idling /\ link' = [link EXCEPT ![snd.attempt] = "down"] /\ snd.waitingForOffsetAck
        \/ snd' = Touch(Closed(Fail(heard))) /\ link' = [link EXCEPT ![snd.attempt] = "down"]
    BY <1>10 DEF SenderGetsBusy, Hangup
  <2>3. heard \in Sender /\ Lasting(heard) /\ heard.sock = "open"
        /\ (IsTerminal(heard) <=> IsTerminal(snd)) /\ heard.state = snd.state
    BY <1>0, <1>10, <2>1, BesideLasting DEF Beside, SenderGetsBusy, SenderReads, IsTerminal
  <2>4. link \in [Attempt -> {"none", "up", "down"}] /\ snd.attempt \in Attempt
    BY <1>0 DEF TypeInv, TypeOK, Sender
  <2> HIDE DEF heard
  <2>5. CASE snd' = Touch(snd)
    BY <1>S, <2>5, <1>0, PlainModest DEF Modest
  <2>6. CASE snd' = Touch(Closed(Fail(heard))) /\ link' = [link EXCEPT ![snd.attempt] = "down"]
    <3> DEFINE f == Fail(heard)
               c == Closed(f)
    <3>1. Modest(heard, f)
      BY <2>3, FailModest
    <3> HIDE DEF f
    <3>2. /\ c \in Sender /\ Lasting(c) /\ c.state = f.state
          /\ c.finishing = f.finishing /\ c.receiverFinishAck = f.receiverFinishAck
          /\ c.retryScheduled = f.retryScheduled
      BY <2>3, <3>1, ClosedMilder DEF Modest
    <3>3. snd' = Touch(c)
      BY <2>6 DEF c, f
    <3> HIDE DEF c
    <3>4. Modest(c, Touch(c))
      BY <3>2, PlainModest
    <3> QED
      BY <2>1, <2>3, <3>1, <3>2, <3>3, <3>4 DEF Modest
  <2>7. CASE snd' = idling /\ link' = [link EXCEPT ![snd.attempt] = "down"]
             /\ snd.waitingForOffsetAck
    <3>1. /\ closed \in Sender /\ Lasting(closed) /\ closed.state = heard.state
          /\ closed.finishing = heard.finishing
          /\ closed.receiverFinishAck = heard.receiverFinishAck
      BY <2>3, ClosedMilder
    <3> HIDE DEF closed
    <3>2. Milder(closed, lost)
      BY <3>1, OnDisconnectedMilder
    <3> HIDE DEF lost
    <3>3. Beside(lost, again) /\ again.finishing = lost.finishing
          /\ again.receiverFinishAck = lost.receiverFinishAck
      BY <3>2, PlainLasting DEF Milder, ScheduleRetry, Sender
    <3> HIDE DEF again
    <3>4. idling.finishing = again.finishing /\ idling.state = again.state
          /\ idling.receiverFinishAck = again.receiverFinishAck
      BY <3>3 DEF Beside, Sender
    <3> HIDE DEF idling
    <3>5. link'[snd.attempt] = "down"
      BY <2>4, <2>7
    <3>6. IsTerminal(closed) <=> IsTerminal(snd)
      BY <2>3, <3>1 DEF IsTerminal
    <3> QED
      BY <1>10, <2>1, <2>3, <2>7, <3>1, <3>2, <3>3, <3>4, <3>5, <3>6 DEF Milder, Beside
  <2> QED
    BY <2>2, <2>5, <2>6, <2>7
<1>11. CASE SenderGetsCancel
  <2> DEFINE s == [snd EXCEPT !.waitingForOffsetAck = FALSE, !.sendScheduled = FALSE,
                              !.finishPending = FALSE, !.finishing = FALSE,
                              !.cancelled = TRUE]
             t == SetState(s, "Cancelled")
             c == Closed(t)
  <2>1. snd' = Touch(c)
    BY <1>11 DEF SenderGetsCancel
  <2>2. s \in Sender /\ ~s.finishing /\ s.receiverFinishAck = snd.receiverFinishAck
        /\ s.retryScheduled = snd.retryScheduled /\ s.state = snd.state /\ s.last = snd.last
    BY <1>0 DEF Sender
  <2> HIDE DEF s
  <2>3. t = s \/ t = [s EXCEPT !.state = NextState(s, "Cancelled"), !.last = s.state]
    BY DEF SetState
  <2>4. NextState(s, "Cancelled") = "Finish" => s.state = "Finish"
    BY <1>0, <2>2 DEF NextState, Lasting, IsTerminal, Terminal
  <2>5. t \in Sender
    BY <1>T, <2>2, SetStateSender DEF Steady
  <2>6. /\ ~t.finishing /\ t.receiverFinishAck = s.receiverFinishAck
        /\ t.retryScheduled = s.retryScheduled /\ (t.state = "Finish" => s.state = "Finish")
    BY <2>2, <2>3, <2>4 DEF Sender
  <2> HIDE DEF t
  <2>7. /\ c \in Sender /\ ~c.finishing /\ c.receiverFinishAck = t.receiverFinishAck
        /\ c.retryScheduled = t.retryScheduled /\ c.state = t.state
    BY <2>5, <2>6 DEF Closed, Sender
  <2> HIDE DEF c
  <2>8. /\ ~Touch(c).finishing /\ Touch(c).receiverFinishAck = c.receiverFinishAck
        /\ Touch(c).retryScheduled = c.retryScheduled /\ Touch(c).state = c.state
    BY <2>7 DEF Touch, Sender
  <2> QED
    BY <2>1, <2>2, <2>6, <2>7, <2>8
<1>12. CASE SenderGetsPause
  <2> DEFINE s == [snd EXCEPT !.pausedByReceiver = TRUE]
  <2>1. snd' = Touch(s)
    BY <1>12 DEF SenderGetsPause
  <2>2. /\ Beside(snd, s) /\ s.finishing = snd.finishing
        /\ s.finishPending = snd.finishPending
        /\ s.receiverFinishAck = snd.receiverFinishAck
        /\ s.retryScheduled = snd.retryScheduled
    BY <1>0 DEF Sender, Beside
  <2> HIDE DEF s
  <2> QED
    BY <1>7, <2>1, <2>2
<1>13. CASE SenderGetsResume
  <2> DEFINE s == [snd EXCEPT !.pausedByReceiver = FALSE]
  <2>1. snd' = Touch(ScheduleSend(s))
    BY <1>13 DEF SenderGetsResume
  <2>2. /\ Beside(snd, s) /\ s.finishing = snd.finishing
        /\ s.finishPending = snd.finishPending
        /\ s.receiverFinishAck = snd.receiverFinishAck
        /\ s.retryScheduled = snd.retryScheduled
    BY <1>0 DEF Sender, Beside
  <2> HIDE DEF s
  <2> QED
    BY <1>7, <2>1, <2>2
<1>14. CASE SendData
  <2> DEFINE woken == [snd EXCEPT !.sendScheduled = FALSE]
             w == Wrote(woken)
             sent == [w EXCEPT !.remaining = @ - 1, !.pos = @ + 1,
                               !.finishPending = @ \/ snd.remaining = 1]
  <2>1. snd' \in {woken, w, sent}
    BY <1>14 DEF SendData
  <2>2. Beside(snd, woken) /\ woken.finishing = snd.finishing
        /\ woken.receiverFinishAck = snd.receiverFinishAck
        /\ woken.retryScheduled = snd.retryScheduled
    BY <1>0 DEF Sender, Beside
  <2> HIDE DEF woken
  <2>3. Modest(woken, w)
    BY <1>0, <2>2, BesideLasting, PlainModest DEF Beside
  <2> HIDE DEF w
  <2>4. /\ sent.finishing = w.finishing /\ sent.receiverFinishAck = w.receiverFinishAck
        /\ sent.retryScheduled = w.retryScheduled /\ sent.state = w.state
    BY <2>3 DEF Modest, Sender
  <2> HIDE DEF sent
  <2> QED
    BY <2>1, <2>2, <2>3, <2>4 DEF Modest, Beside
<1>15. CASE ReadError
  <2> DEFINE s == [snd EXCEPT !.sendScheduled = FALSE]
  <2>1. snd' = Fail(s)
    BY <1>15 DEF ReadError
  <2>2. /\ Beside(snd, s) /\ s.finishing = snd.finishing
        /\ s.receiverFinishAck = snd.receiverFinishAck
        /\ s.retryScheduled = snd.retryScheduled
    BY <1>0 DEF Sender, Beside
  <2> HIDE DEF s
  <2>3. Modest(s, Fail(s))
    BY <1>0, <2>2, BesideLasting, FailModest DEF Beside
  <2> QED
    BY <2>1, <2>2, <2>3 DEF Modest, Beside
<1>16. CASE BytesWritten
  <2> DEFINE drained == [snd EXCEPT !.unsent = FALSE]
             w == Wrote(drained)
             finishing == [w EXCEPT !.finishPending = FALSE, !.finishing = TRUE]
  <2>1. \/ snd' \in {ScheduleSend(drained), drained}
        \/ /\ snd.finishPending /\ ~IsTerminal(snd)
           /\ \/ snd' = finishing
              \/ ~snd.receiverFinishAck /\ snd' = CompleteUpload(finishing)
    BY <1>16 DEF BytesWritten
  <2>2. /\ Beside(snd, drained) /\ drained.finishing = snd.finishing
        /\ drained.finishPending = snd.finishPending
        /\ drained.receiverFinishAck = snd.receiverFinishAck
        /\ drained.retryScheduled = snd.retryScheduled
    BY <1>0 DEF Sender, Beside
  <2> HIDE DEF drained
  <2>3. CASE snd' \in {ScheduleSend(drained), drained}
    BY <1>7, <2>2, <2>3
  <2>4. drained \in Sender /\ Lasting(drained) /\ Modest(drained, w)
    BY <1>0, <2>2, BesideLasting, PlainModest DEF Beside
  <2> HIDE DEF w
  <2>5. /\ Beside(w, finishing) /\ finishing.receiverFinishAck = w.receiverFinishAck
        /\ finishing.retryScheduled = w.retryScheduled /\ finishing.state = w.state
    BY <2>4 DEF Modest, Sender, Beside
  <2> HIDE DEF finishing
  <2>6. finishing \in Sender /\ Lasting(finishing)
    BY <2>4, <2>5, BesideLasting DEF Beside, Modest
  <2>7. CompleteUpload(finishing).receiverFinishAck = finishing.receiverFinishAck
        /\ CompleteUpload(finishing).retryScheduled = finishing.retryScheduled
    BY <2>6, CompleteUploadMilder
  <2>8. CASE snd.finishPending /\ ~IsTerminal(snd) /\ snd' = finishing
    BY <1>16, <2>2, <2>4, <2>5, <2>8 DEF Modest, Beside
  <2>9. CASE /\ snd.finishPending /\ ~IsTerminal(snd)
             /\ ~snd.receiverFinishAck /\ snd' = CompleteUpload(finishing)
    BY <1>16, <2>2, <2>4, <2>5, <2>7, <2>9 DEF Modest, Beside
  <2> QED
    BY <2>1, <2>3, <2>8, <2>9
<1>17. CASE SenderDisconnected
  <2> DEFINE c == Closed(snd)
             e == OnSocketError(c)
  <2>1. snd' = OnDisconnected(e) /\ snd.sock # "none" /\ link' = link
        /\ link[snd.attempt] = "down"
    BY <1>17 DEF SenderDisconnected, Connected
  <2>2. /\ c \in Sender /\ Lasting(c) /\ c.state = snd.state
        /\ c.finishing = snd.finishing /\ c.receiverFinishAck = snd.receiverFinishAck
    BY <1>0, <2>1, ClosedMilder
  <2> HIDE DEF c
  <2>3. Modest(c, e) /\ (IsTerminal(c) => IsTerminal(e))
    BY <2>2, FailModest, PlainModest, FailSender DEF OnSocketError, Steady
  <2> HIDE DEF e
  <2>4. Milder(e, OnDisconnected(e))
    BY <2>3, OnDisconnectedMilder DEF Modest
  <2>5. IsTerminal(c) <=> IsTerminal(snd)
    BY <2>2 DEF IsTerminal
  <2> QED
    BY <1>17, <2>1, <2>2, <2>3, <2>4, <2>5 DEF Milder, Modest
<1>18. CASE OffsetAckTimeout
  <2>1. 0 \in Chunk /\ snd' = ApplyOffsetAck(snd, 0)
    BY <1>18, ChunksAssumption DEF Chunk, OffsetAckTimeout
  <2> QED
    BY <1>0, <2>1, ApplyOffsetAckLasting, ApplyOffsetAckClaims DEF Beside
<1>19. CASE SenderIdleTimeout
  <2> DEFINE fired == [snd EXCEPT !.idleArmed = FALSE]
  <2>1. \/ snd' = Closed(Fail(fired)) /\ snd.sock # "none"
        \/ snd' \in {fired, Fail(fired)}
    BY <1>19 DEF SenderIdleTimeout, Connected
  <2>2. /\ Beside(snd, fired) /\ fired.finishing = snd.finishing
        /\ fired.finishPending = snd.finishPending
        /\ fired.waitingForOffsetAck = snd.waitingForOffsetAck
        /\ fired.receiverFinishAck = snd.receiverFinishAck
        /\ fired.retryScheduled = snd.retryScheduled
    BY <1>0 DEF Sender, Beside
  <2> HIDE DEF fired
  <2>3. Modest(snd, fired)
    BY <1>0, <2>2, BesideLasting DEF Modest, Beside
  <2>4. Modest(fired, Fail(fired))
    BY <2>3, FailModest DEF Modest
  <2> QED
    BY <1>5, <2>1, <2>3, <2>4 DEF Modest
<1>20. CASE SenderPause
  <2> DEFINE t == SetState(snd, "Paused")
  <2>1. Modest(snd, t)
    BY <1>0, <1>T, SetStateModest
  <2>2. snd' = [t EXCEPT !.paused = TRUE] BY <1>20 DEF SenderPause
  <2> HIDE DEF t
  <2>3. /\ snd'.finishing = t.finishing /\ snd'.receiverFinishAck = t.receiverFinishAck
        /\ snd'.retryScheduled = t.retryScheduled /\ snd'.state = t.state
    BY <2>1, <2>2 DEF Modest, Sender
  <2> QED
    BY <2>1, <2>3 DEF Modest
<1>21. CASE SenderResume
  <2> DEFINE t == SetState(snd, snd.last)
             u == [t EXCEPT !.paused = FALSE]
  <2>1. snd.last \in TransferState \ {"Idle", "Finish"} /\ snd' = ScheduleSend(u)
    BY <1>0, <1>21 DEF SenderResume, CanResume, Lasting, Sender, IsTerminal, Terminal
  <2>2. Modest(snd, t)
    BY <1>0, <2>1, SetStateModest
  <2> HIDE DEF t
  <2>3. /\ Beside(t, u) /\ u.finishing = t.finishing
        /\ u.receiverFinishAck = t.receiverFinishAck
        /\ u.retryScheduled = t.retryScheduled
    BY <2>2 DEF Modest, Sender, Beside
  <2> HIDE DEF u
  <2>4. Modest(u, ScheduleSend(u))
    BY <2>2, <2>3, BesideLasting, PlainModest DEF Beside, Modest
  <2> QED
    BY <2>1, <2>2, <2>3, <2>4 DEF Modest, Beside
<1>22. CASE SenderCancel
  <2> DEFINE w == Wrote(snd)
             s == [w EXCEPT !.waitingForOffsetAck = FALSE, !.cancelled = TRUE]
             t == SetState(s, "Cancelled")
  <2>1. snd' = t
    BY <1>22 DEF SenderCancel
  <2>2. Modest(snd, w)
    BY <1>0, PlainModest
  <2> HIDE DEF w
  <2>3. /\ s \in Sender /\ s.finishing = w.finishing
        /\ s.receiverFinishAck = w.receiverFinishAck
        /\ s.retryScheduled = w.retryScheduled /\ s.state = w.state /\ s.last = w.last
    BY <2>2 DEF Modest, Sender
  <2> HIDE DEF s
  <2>4. t = s \/ t = [s EXCEPT !.state = NextState(s, "Cancelled"), !.last = s.state]
    BY DEF SetState
  <2>5. NextState(s, "Cancelled") = "Finish" => s.state = "Finish"
    BY <2>2, <2>3 DEF NextState, Modest, Lasting, IsTerminal, Terminal
  <2>6. /\ t.finishing = s.finishing /\ t.receiverFinishAck = s.receiverFinishAck
        /\ t.retryScheduled = s.retryScheduled /\ (t.state = "Finish" => s.state = "Finish")
    BY <2>3, <2>4, <2>5 DEF Sender
  <2> HIDE DEF t
  <2> QED
    BY <2>1, <2>2, <2>3, <2>6 DEF Modest
<1> QED
  BY <1>1, <1>2, <1>3, <1>4, <1>6, <1>8, <1>9, <1>10, <1>11, <1>12, <1>13, <1>14, <1>15,
     <1>16, <1>17, <1>18, <1>19, <1>20, <1>21, <1>22, <1>Q DEF SenderNext

-----------------------------------------------------------------------------
(* The promise to the users, where connections last                        *)

\* no connection is lost and no peer is given up for its silence: those leave the
\* Sender to guess what has become of its Finish packet
Calm == Plain /\ "break" \notin Events /\ "idle" \notin Events

\* the Receiver of a closed connection has ended, or never gets to a header
Deserted(a) ==
  link[a] = "down" =>
    \/ IsTerminal(rcv[a])
    \/ /\ rcv[a].file = "null"
       /\ \/ rcv[a].sock = "closed"
          \/ \A i \in 1 .. Len(toR[a]) : toR[a][i].type # "Header"

\* what the Receiver has said is so
Announced ==
  \A i \in 1 .. Len(toS[snd.attempt]) :
    LET type == toS[snd.attempt][i].type
        r == rcv[snd.attempt]
    IN /\ type = "FinishAck" => final.there
       /\ type = "Cancel" => IsTerminal(r)
       /\ type = "Busy" => r.sock = "closed" /\ r.file = "null"

\* the Sender takes its leave only once it has ended
TakesLeave ==
  \A i \in 1 .. Len(toR[snd.attempt]) :
    toR[snd.attempt][i].type = "Cancel" => IsTerminal(snd)

\* it retries when its connection is closed, and sends the Finish packet to a Receiver
\* that took the header and acknowledges the end
Granted ==
  /\ snd.retryScheduled => link[snd.attempt] = "down"
  /\ snd.sock = "open" /\ ~snd.waitingForOffsetAck /\ ~IsTerminal(snd) => snd.receiverFinishAck
  /\ snd.finishing => /\ snd.sock \in {"open", "closed"}
                      /\ snd.sock = "open" => ~snd.waitingForOffsetAck
  /\ TLS /\ snd.sock = "open" => rcv[snd.attempt].sock # "none"

\* a Receiver hangs up only with the file delivered or with a word to the Sender
Answered ==
  link[snd.attempt] = "down" /\ snd.sock = "open" /\ ~IsTerminal(snd) =>
    \/ final.there
    \/ \E i \in 1 .. Len(toS[snd.attempt]) : toS[snd.attempt][i].type \in {"Cancel", "Busy"}

\* nobody else removes the .part of the download at work
PartKept == rcv[snd.attempt].file = "unlinked" => IsTerminal(rcv[snd.attempt])

\* earlier connections are closed
PastClosed == \A a \in Attempt : a < snd.attempt => link[a] = "down"

Manners ==
  /\ \A a \in Attempt : Deserted(a)
  /\ Announced /\ TakesLeave /\ Granted /\ Answered /\ PartKept /\ PastClosed

PromiseInv == StreamInv /\ LossInv /\ DeliveredInv /\ Manners

LEMMA PromiseParts ==
  ASSUME PromiseInv
  PROVE  LET now == snd.attempt
         IN /\ StreamInv /\ SettledInv /\ LossInv /\ DeliveredInv /\ Manners
            /\ TypeInv /\ DownloadInv /\ ConnectionInv
            /\ UnusedLinks /\ FutureUnused /\ PastDrained /\ HandleInv /\ DigestAddsUp
            /\ AllStarted /\ NoReplies
            /\ now \in Attempt /\ now \in Nat /\ snd \in Sender /\ Lasting(snd)
            /\ rcv \in [Attempt -> Receiver]
            /\ link \in [Attempt -> {"none", "up", "down"}]
            /\ toR \in [Attempt -> Seq(Packet)] /\ toS \in [Attempt -> Seq(Packet)]
            /\ \A a \in Attempt : a \in Nat /\ toR[a] \in Seq(Packet) /\ toS[a] \in Seq(Packet)
            /\ Chunks \in Nat \ {0} /\ Outset(snd)
            /\ Lead(toR[now], rcv[now], snd, link[now] = "up")
<1>1. \A a \in Attempt : a \in Nat
  BY RetryAssumption DEF Attempt
<1>2. /\ UnusedLinks /\ FutureUnused /\ PastDrained /\ Lasting(snd)
  BY StreamParts DEF PromiseInv, ConnectionInv, LossInv
<1>3. StreamInv /\ LossInv /\ DeliveredInv /\ Manners
  BY DEF PromiseInv
<1>4. \A a \in Attempt : toR[a] \in Seq(Packet) /\ toS[a] \in Seq(Packet)
  BY <1>3, StreamParts
<1> QED
  BY <1>1, <1>2, <1>3, <1>4, StreamParts

\* the Tail of a queue says nothing new
LEMMA TailSays ==
  ASSUME NEW q \in Seq(Packet), q # <<>>
  PROVE  /\ Tail(q) \in Seq(Packet)
         /\ \A i \in 1 .. Len(Tail(q)) : i + 1 \in 1 .. Len(q) /\ Tail(q)[i] = q[i + 1]
         /\ \A i \in 1 .. Len(q) : i # 1 => i - 1 \in 1 .. Len(Tail(q)) /\ Tail(q)[i - 1] = q[i]
         /\ Head(q) = q[1] /\ 1 \in 1 .. Len(q)
  OBVIOUS

\* and an Append one thing
LEMMA AppendSays ==
  ASSUME NEW q \in Seq(Packet), NEW p \in Packet
  PROVE  /\ Append(q, p) \in Seq(Packet)
         /\ \A i \in 1 .. Len(Append(q, p)) :
              \/ i \in 1 .. Len(q) /\ Append(q, p)[i] = q[i]
              \/ i = Len(q) + 1 /\ Append(q, p)[i] = p
         /\ \A i \in 1 .. Len(q) : i \in 1 .. Len(Append(q, p)) /\ Append(q, p)[i] = q[i]
         /\ Len(q) + 1 \in 1 .. Len(Append(q, p)) /\ Append(q, p)[Len(q) + 1] = p
  OBVIOUS

-----------------------------------------------------------------------------
(* The Sender keeps the promise                                            *)

\* who closes a connection, and who reads which word
LEMMA SenderWord ==
  ASSUME Calm, TypeInv, LossInv, SenderNext
  PROVE  LET now == snd.attempt
         IN /\ ~OffsetAckTimeout
            /\ \/ link' = link \/ PinMismatch \/ SenderGetsBusy \/ SenderGetsCancel
               \/ SenderConnected \/ RetryTimer
            /\ \/ toS' = toS
               \/ /\ toS' = [toS EXCEPT ![now] = Tail(@)] /\ toS[now] # <<>>
                  /\ snd.sock = "open"
                  /\ Head(toS[now]).type = "Cancel" => SenderGetsCancel
                  /\ Head(toS[now]).type = "Busy" => SenderGetsBusy
<1> DEFINE now == snd.attempt
           Read == /\ toS' = [toS EXCEPT ![now] = Tail(@)] /\ toS[now] # <<>>
                   /\ snd.sock = "open"
                   /\ Head(toS[now]).type = "Cancel" => SenderGetsCancel
                   /\ Head(toS[now]).type = "Busy" => SenderGetsBusy
<1>1. ~OffsetAckTimeout /\ ~SenderIdleTimeout
  BY DEF Calm, Plain, OffsetAckTimeout, SenderIdleTimeout, LossInv, Lasting, IdleOn
<1>2. CASE \/ SenderGetsOffsetAck \/ SenderGetsFinishAck \/ SenderGetsBusy
           \/ SenderGetsCancel \/ SenderGetsPause \/ SenderGetsResume
  <2>1. Read
    BY <1>2 DEF SenderGetsOffsetAck, SenderGetsFinishAck, SenderGetsBusy, SenderGetsCancel,
                SenderGetsPause, SenderGetsResume, SenderReads, ReadBySender
  <2>2. link' = link \/ SenderGetsBusy \/ SenderGetsCancel
    BY <1>2 DEF SenderGetsOffsetAck, SenderGetsFinishAck, SenderGetsPause, SenderGetsResume
  <2> QED
    BY <1>1, <2>1, <2>2
<1>3. CASE \/ Start \/ ConnectionRefused \/ SenderEncrypted \/ SendData \/ ReadError
           \/ BytesWritten \/ SenderDisconnected \/ SenderPause \/ SenderResume \/ SenderCancel
  <2>1. UNCHANGED <<link, toS>>
    BY <1>3 DEF Start, ConnectionRefused, SenderEncrypted, SendData, ReadError,
                BytesWritten, SenderDisconnected, SenderPause, SenderResume, SenderCancel
  <2> QED
    BY <1>1, <2>1
<1>4. CASE PinMismatch \/ SenderConnected \/ RetryTimer
  <2>1. toS' = toS
    BY <1>4 DEF PinMismatch, SenderConnected, RetryTimer
  <2> QED
    BY <1>1, <1>4, <2>1
<1> QED
  BY <1>1, <1>2, <1>3, <1>4 DEF SenderNext

\* the OffsetAck that ends the wait announces the finish ack
LEMMA OffsetAckGrants ==
  ASSUME TypeInv, SenderGetsOffsetAck, snd.waitingForOffsetAck
  PROVE  snd'.receiverFinishAck
<1> DEFINE u == [snd EXCEPT !.receiverFinishAck = TRUE]
           n == Head(toS[snd.attempt]).n
           t == ApplyOffsetAck(u, n)
<1>1. toS[snd.attempt] # <<>> /\ snd' = Touch(t)
  BY DEF SenderGetsOffsetAck, SenderReads
<1>2. n \in Chunk
  BY <1>1, OffsetType DEF Chunk
<1>3. u \in Sender /\ u.receiverFinishAck = TRUE
  BY DEF TypeInv, TypeOK, Sender
<1> HIDE DEF u, n
<1>4. t \in Sender /\ t.receiverFinishAck = TRUE
  BY <1>2, <1>3, ApplyOffsetAckSender, ApplyOffsetAckClaims
<1> HIDE DEF t
<1> QED
  BY <1>1, <1>4 DEF Touch, Sender

\* a step that keeps the connection
Going ==
  \/ Idles \/ SendsChunk \/ SendsFinish \/ SendsCancel
  \/ SenderGetsOffsetAck /\ Learns(Head(toS[snd.attempt]).n)

LEMMA GoingParts ==
  ASSUME TypeInv, Going
  PROVE  /\ KeepsConnection
         /\ snd'.sock = "open" =>
              /\ snd'.waitingForOffsetAck => snd.waitingForOffsetAck
              /\ \/ snd'.waitingForOffsetAck = snd.waitingForOffsetAck
                 \/ SenderGetsOffsetAck /\ snd.waitingForOffsetAck
                 \/ IsTerminal(snd')
         /\ \/ toR' = toR
            \/ \E p \in Packet : /\ Writes(p)
                                 /\ p.type = "Cancel" => IsTerminal(snd')
                                 /\ p.type # "Header"
<1>0. snd \in Sender /\ Chunks \in Nat \ {0}
  BY ChunksAssumption DEF TypeInv, TypeOK
<1>1. CASE Idles
  <2>1. KeepsConnection /\ toR' = toR
    BY <1>1 DEF Idles
  <2>2. snd'.sock = "open" => snd'.waitingForOffsetAck = snd.waitingForOffsetAck
    BY <1>1, <2>1 DEF Idles, KeepsConnection
  <2> QED
    BY <2>1, <2>2
<1>2. CASE SendsChunk
  <2> DEFINE p == [type |-> "Data", n |-> snd.pos + 1]
  <2>1. /\ KeepsConnection /\ Writes(p) /\ snd.pos < Chunks
        /\ ~snd.waitingForOffsetAck /\ ~snd'.waitingForOffsetAck
    BY <1>2 DEF SendsChunk, MaySend
  <2>2. snd'.waitingForOffsetAck = snd.waitingForOffsetAck
    BY <1>0, <2>1 DEF Sender, KeepsConnection
  <2>3. p \in Packet
    <3>1. snd.pos + 1 \in Chunk
      BY <1>0, <2>1 DEF Chunk, Sender
    <3> QED
      BY <3>1, PacketTypes
  <2>4. p.type = "Data"
    OBVIOUS
  <2> HIDE DEF p
  <2> QED
    BY <2>1, <2>2, <2>3, <2>4
<1>3. CASE SendsFinish
  <2> DEFINE p == FinishPacket(snd)
  <2>1. /\ KeepsConnection /\ Writes(p)
        /\ snd'.waitingForOffsetAck = snd.waitingForOffsetAck
    BY <1>3 DEF SendsFinish
  <2>2. p \in Packet /\ p.type = "Finish"
    BY <1>0 DEF FinishPacket, Packet, PacketKind, Chunk, Sender
  <2> HIDE DEF p
  <2> QED
    BY <2>1, <2>2
<1>4. CASE SendsCancel
  <2> DEFINE p == Packet0("Cancel")
  <2>1. KeepsConnection /\ Writes(p) /\ IsTerminal(snd') /\ ~snd'.waitingForOffsetAck
    BY <1>4 DEF SendsCancel
  <2>2. p \in Packet /\ p.type = "Cancel"
    BY PacketTypes DEF Packet0, PacketKind
  <2> HIDE DEF p
  <2> QED
    BY <2>1, <2>2
<1>5. CASE SenderGetsOffsetAck /\ Learns(Head(toS[snd.attempt]).n)
  BY <1>5 DEF Learns
<1> QED
  BY <1>1, <1>2, <1>3, <1>4, <1>5 DEF Going

\* a Cancel packet, or a busy answer in time, closes the connection
LEMMA CancelCloses ==
  ASSUME TypeInv, SenderGetsCancel
  PROVE  snd'.sock = "closed"
<1> DEFINE u == [snd EXCEPT !.waitingForOffsetAck = FALSE, !.sendScheduled = FALSE,
                            !.finishPending = FALSE, !.finishing = FALSE, !.cancelled = TRUE]
           t == SetState(u, "Cancelled")
<1>1. u \in Sender /\ "Cancelled" \in TransferState
  BY DEF TypeInv, TypeOK, Sender, TransferState
<1>2. snd' = Touch(Closed(t))
  BY DEF SenderGetsCancel
<1> HIDE DEF u
<1>3. t \in Sender
  BY <1>1, SetStateSender DEF Steady
<1> HIDE DEF t
<1>4. Closed(t) \in Sender /\ Closed(t).sock = "closed"
  BY <1>3, ClosedSender
<1> QED
  BY <1>2, <1>4, TouchSender DEF Steady

LEMMA BusyCloses ==
  ASSUME TypeInv, SenderGetsBusy, snd.waitingForOffsetAck
  PROVE  snd'.sock = "closed"
<1> DEFINE heard == [snd EXCEPT !.waitingForOffsetAck = FALSE]
           c == Closed(heard)
           d == OnDisconnected(c)
           again == ScheduleRetry(d)
           b == IdleOn /\ ~snd.unsent
           f == Fail(heard)
           g == Closed(f)
<1>1. snd' = [again EXCEPT !.idleArmed = b] \/ snd' = Touch(g)
  BY DEF SenderGetsBusy
<1>2. heard \in Sender
  BY DEF TypeInv, TypeOK, Sender
<1> HIDE DEF heard, b
<1>3. c \in Sender /\ c.sock = "closed"
  BY <1>2, ClosedSender
<1> HIDE DEF c
<1>4. d \in Sender /\ d.sock = "closed"
  BY <1>3, OnDisconnectedSender
<1> HIDE DEF d
<1>5. again \in Sender /\ again.sock = "closed"
  BY <1>4, ScheduleRetrySender
<1> HIDE DEF again
<1>6. f \in Sender
  BY <1>2, FailSender DEF Steady
<1> HIDE DEF f
<1>7. g \in Sender /\ g.sock = "closed"
  BY <1>6, ClosedSender
<1> HIDE DEF g
<1>8. Touch(g).sock = "closed"
  BY <1>7, TouchSender DEF Steady
<1>9. [again EXCEPT !.idleArmed = b].sock = "closed"
  BY <1>5 DEF Sender
<1> QED
  BY <1>1, <1>8, <1>9

LEMMA GoingPromise ==
  ASSUME Calm, PromiseInv, SenderNext, Going
  PROVE  Manners'
<1> DEFINE now == snd.attempt
<1>0. /\ TypeInv /\ LossInv /\ now \in Attempt /\ snd \in Sender /\ Manners
      /\ rcv \in [Attempt -> Receiver]
      /\ link \in [Attempt -> {"none", "up", "down"}]
      /\ toR \in [Attempt -> Seq(Packet)] /\ toS \in [Attempt -> Seq(Packet)]
      /\ toR[now] \in Seq(Packet) /\ toS[now] \in Seq(Packet)
      /\ Lead(toR[now], rcv[now], snd, link[now] = "up")
      /\ DigestAddsUp
  BY PromiseParts
<1>1. /\ snd' \in Sender /\ snd'.attempt = now /\ snd'.sock \in {snd.sock, "closed"}
      /\ IsTerminal(snd) => IsTerminal(snd')
      /\ \/ link' = link
         \/ snd'.sock = "closed" /\ link' = [link EXCEPT ![now] = "down"]
      /\ UNCHANGED <<rcv, part, final>>
  BY <1>0, GoingParts DEF KeepsConnection
<1>2. \/ toR' = toR
      \/ \E p \in Packet : /\ Writes(p)
                           /\ p.type = "Cancel" => IsTerminal(snd')
                           /\ p.type # "Header"
  BY <1>0, GoingParts
<1>3. /\ ~OffsetAckTimeout
      /\ \/ link' = link \/ PinMismatch \/ SenderGetsBusy \/ SenderGetsCancel
         \/ SenderConnected \/ RetryTimer
      /\ \/ toS' = toS
         \/ /\ toS' = [toS EXCEPT ![now] = Tail(@)] /\ toS[now] # <<>>
            /\ snd.sock = "open"
            /\ Head(toS[now]).type = "Cancel" => SenderGetsCancel
            /\ Head(toS[now]).type = "Busy" => SenderGetsBusy
  BY <1>0, SenderWord
<1>4. /\ \A a \in Attempt : Deserted(a)
      /\ Announced /\ TakesLeave /\ Granted /\ Answered /\ PartKept /\ PastClosed
  BY <1>0 DEF Manners
<1>5. ~(Start \/ SenderConnected \/ SenderEncrypted)
  <2> SUFFICES ASSUME Start \/ SenderConnected \/ SenderEncrypted PROVE FALSE
    OBVIOUS
  <2>1. /\ snd.sock \in {"none", "connecting", "handshake"}
        /\ snd.sock = "connecting" => link' = [link EXCEPT ![now] = "up"]
        /\ snd'.sock \in {"connecting", "handshake", "open"}
        /\ snd'.sock # "open" => snd.sock # "handshake"
    BY <1>0, PromiseParts, OpeningSender DEF Calm, Plain
  <2>2. snd.sock = "connecting" => link[now] = "none"
    BY <1>0, PromiseParts DEF FutureUnused
  <2> QED
    BY <1>0, <1>1, <2>1, <2>2
<1>6. \A i \in 1 .. Len(toS'[now]) : \E j \in 1 .. Len(toS[now]) : toS'[now][i] = toS[now][j]
  <2>1. CASE toS' = toS
    BY <2>1
  <2>2. CASE toS' = [toS EXCEPT ![now] = Tail(@)] /\ toS[now] # <<>>
    <3>1. toS'[now] = Tail(toS[now])
      BY <1>0, <2>2
    <3> QED
      BY <1>0, <2>2, <3>1, TailSays
  <2> QED
    BY <1>3, <2>1, <2>2
<1>7. ASSUME NEW a \in Attempt PROVE Deserted(a)'
  <2> SUFFICES ASSUME link'[a] = "down"
               PROVE  \/ IsTerminal(rcv[a])
                      \/ /\ rcv[a].file = "null"
                         /\ \/ rcv[a].sock = "closed"
                            \/ \A i \in 1 .. Len(toR'[a]) : toR'[a][i].type # "Header"
    BY <1>1 DEF Deserted
  <2>1. CASE link[a] = "down"
    <3>1. toR'[a] = toR[a]
      BY <1>0, <1>2, <2>1 DEF Writes, Post
    <3> QED
      BY <1>4, <2>1, <3>1 DEF Deserted
  <2>2. CASE link[a] # "down"
    <3>1. a = now /\ link' # link
      BY <1>0, <1>1, <2>2
    <3>2. ~RetryTimer
      BY <1>4, <2>2, <3>1 DEF RetryTimer, Granted
    <3>3. CASE PinMismatch
      <4>1. snd.sock = "handshake" /\ toR' = toR
        BY <3>3 DEF PinMismatch
      <4> QED
        BY <3>1, <4>1, PromiseParts, EarlyConnection
    <3>4. CASE SenderGetsBusy
      <4>1. toS[now] # <<>> /\ Head(toS[now]).type = "Busy"
        BY <3>4 DEF SenderGetsBusy, SenderReads
      <4> QED
        BY <1>0, <1>4, <3>1, <4>1, TailSays DEF Announced
    <3>5. CASE SenderGetsCancel
      <4>1. toS[now] # <<>> /\ Head(toS[now]).type = "Cancel"
        BY <3>5 DEF SenderGetsCancel, SenderReads
      <4> QED
        BY <1>0, <1>4, <3>1, <4>1, TailSays DEF Announced
    <3> QED
      BY <1>3, <1>5, <3>1, <3>2, <3>3, <3>4, <3>5
  <2> QED
    BY <2>1, <2>2
<1>8. Announced'
  BY <1>1, <1>4, <1>6 DEF Announced
<1>9. TakesLeave'
  <2> SUFFICES ASSUME NEW i \in 1 .. Len(toR'[now]), toR'[now][i].type = "Cancel"
               PROVE  IsTerminal(snd')
    BY <1>1 DEF TakesLeave
  <2>1. CASE toR'[now] = toR[now]
    BY <1>1, <1>4, <2>1 DEF TakesLeave
  <2>2. ASSUME NEW p \in Packet, toR'[now] = Append(toR[now], p),
               p.type = "Cancel" => IsTerminal(snd')
        PROVE  IsTerminal(snd')
    BY <1>0, <1>1, <1>4, <2>2, AppendSays DEF TakesLeave
  <2> QED
    BY <1>0, <1>2, <2>1, <2>2 DEF Writes, Post
<1>C. Claims
  BY <1>0, SenderClaims
<1>W. snd'.sock = "open" =>
        /\ snd'.waitingForOffsetAck => snd.waitingForOffsetAck
        /\ \/ snd'.waitingForOffsetAck = snd.waitingForOffsetAck
           \/ SenderGetsOffsetAck /\ snd.waitingForOffsetAck
           \/ IsTerminal(snd')
  BY <1>0, GoingParts
<1>10. Granted'
  <2>1. snd'.retryScheduled => link'[now] = "down"
    BY <1>0, <1>1, <1>4, <1>C DEF Granted, Claims
  <2>2. snd'.sock = "open" /\ ~snd'.waitingForOffsetAck /\ ~IsTerminal(snd')
          => snd'.receiverFinishAck
    BY <1>0, <1>1, <1>4, <1>C, <1>W, OffsetAckGrants DEF Granted, Claims
  <2>3. snd'.finishing => /\ snd'.sock \in {"open", "closed"}
                          /\ snd'.sock = "open" => ~snd'.waitingForOffsetAck
    <3>1. CASE snd.finishing
      BY <1>1, <1>4, <1>W, <3>1 DEF Granted
    <3>2. CASE BytesWritten /\ snd.finishPending /\ ~IsTerminal(snd)
      <4>1. snd.sock = "open" /\ ~snd.waitingForOffsetAck
        BY <1>0, <3>2 DEF BytesWritten, DigestAddsUp
      <4> QED
        BY <1>1, <1>W, <4>1
    <3> QED
      BY <1>C, <3>1, <3>2 DEF Claims
  <2>4. TLS /\ snd'.sock = "open" => rcv'[now].sock # "none"
    BY <1>1, <1>4 DEF Granted
  <2> QED
    BY <1>1, <2>1, <2>2, <2>3, <2>4 DEF Granted
<1>11. Answered'
  <2> SUFFICES ASSUME link'[now] = "down", snd'.sock = "open", ~IsTerminal(snd'), ~final.there
               PROVE  \E i \in 1 .. Len(toS'[now]) : toS'[now][i].type \in {"Cancel", "Busy"}
    BY <1>1 DEF Answered
  <2>1. link' = link /\ snd.sock = "open" /\ ~IsTerminal(snd)
    BY <1>1
  <2>2. PICK i \in 1 .. Len(toS[now]) : toS[now][i].type \in {"Cancel", "Busy"}
    BY <1>4, <2>1 DEF Answered
  <2>3. CASE toS' = toS
    BY <2>2, <2>3
  <2>4. CASE /\ toS' = [toS EXCEPT ![now] = Tail(@)] /\ toS[now] # <<>>
             /\ Head(toS[now]).type = "Cancel" => SenderGetsCancel
             /\ Head(toS[now]).type = "Busy" => SenderGetsBusy
    <3>1. toS'[now] = Tail(toS[now])
      BY <1>0, <2>4
    <3>2. ASSUME i = 1 PROVE FALSE
      <4>1. SenderGetsCancel \/ (SenderGetsBusy /\ Head(toS[now]).type = "Busy")
        BY <1>0, <2>2, <2>4, <3>2, TailSays
      <4>2. link'[now] # "down" \/ link[now] = "down"
        BY <2>1
      <4>3. CASE SenderGetsCancel
        <5>1. snd'.sock = "closed"
          BY <1>0, <4>3, CancelCloses
        <5> QED
          BY <2>1, <5>1
      <4>4. CASE SenderGetsBusy /\ snd.waitingForOffsetAck
        <5>1. snd'.sock = "closed"
          BY <1>0, <4>4, BusyCloses
        <5> QED
          BY <5>1
      <4>5. CASE ~snd.waitingForOffsetAck /\ Head(toS[now]).type = "Busy"
        <5>1. rcv[now].file # "null"
          BY <1>0, <2>1, <4>5 DEF Lead
        <5>2. rcv[now].file = "null"
          <6>1. 1 \in 1 .. Len(toS[now]) /\ toS[now][1].type = "Busy"
            BY <1>0, <2>4, <4>5, TailSays
          <6> QED
            BY <1>4, <6>1 DEF Announced
        <5> QED
          BY <5>1, <5>2
      <4> QED
        BY <4>1, <4>3, <4>4, <4>5
    <3>3. i - 1 \in 1 .. Len(toS'[now]) /\ toS'[now][i - 1] = toS[now][i]
      BY <1>0, <2>4, <3>1, <3>2, TailSays
    <3> QED
      BY <2>2, <3>3
  <2> QED
    BY <1>3, <2>3, <2>4
<1>12. PartKept' /\ PastClosed'
  <2>1. PartKept'
    BY <1>1, <1>4 DEF PartKept
  <2>2. PastClosed'
    BY <1>0, <1>1, <1>4 DEF PastClosed
  <2> QED
    BY <2>1, <2>2
<1> QED
  BY <1>7, <1>8, <1>9, <1>10, <1>11, <1>12 DEF Manners

LEMMA OpeningPromise ==
  ASSUME Calm, PromiseInv, SenderNext, Start \/ SenderConnected \/ SenderEncrypted
  PROVE  Manners'
<1> DEFINE now == snd.attempt
           header == Packet0("Header")
<1>0. /\ TypeInv /\ LossInv /\ now \in Attempt /\ now \in Nat /\ snd \in Sender /\ Manners
      /\ rcv \in [Attempt -> Receiver]
      /\ link \in [Attempt -> {"none", "up", "down"}]
      /\ toR \in [Attempt -> Seq(Packet)] /\ toS \in [Attempt -> Seq(Packet)]
      /\ toR[now] \in Seq(Packet) /\ toS[now] \in Seq(Packet)
      /\ DigestAddsUp /\ Outset(snd)
  BY PromiseParts
<1>1. /\ snd.sock \in {"none", "connecting", "handshake"}
      /\ snd' \in Sender /\ snd'.attempt = now
      /\ snd'.retryScheduled = snd.retryScheduled
      /\ IsTerminal(snd) => IsTerminal(snd')
      /\ snd'.sock = "open" <=> snd'.waitingForOffsetAck
      /\ snd'.sock # "open" => toR' = toR
      /\ snd'.sock = "open" => toR' = [toR EXCEPT ![now] = Append(@, header)]
      /\ link' = link \/ link' = [link EXCEPT ![now] = "up"]
      /\ UNCHANGED <<rcv, toS, part, final>>
  BY <1>0, OpeningSender DEF Calm, Plain
<1>2. header \in Packet /\ header.type = "Header"
  BY PacketTypes DEF PacketKind, Packet0
<1> HIDE DEF header
<1>3. /\ \A a \in Attempt : Deserted(a)
      /\ Announced /\ TakesLeave /\ Granted /\ Answered /\ PartKept /\ PastClosed
  BY <1>0 DEF Manners
<1>4. snd'.sock = "open" => /\ link'[now] = "up"
                            /\ TLS => rcv[now].sock = "open"
  <2>1. CASE Start
    <3>1. snd'.sock = "connecting"
      BY <1>0, <2>1, ConnectTransferSocketSender DEF Start
    <3> QED
      BY <3>1
  <2>2. CASE SenderConnected
    <3>1. link'[now] = "up"
      BY <1>0, <2>2 DEF SenderConnected
    <3>2. TLS => snd'.sock = "handshake"
      BY <1>0, <2>2 DEF SenderConnected, Sender
    <3> QED
      BY <3>1, <3>2
  <2>3. CASE SenderEncrypted
    BY <1>0, <2>3 DEF SenderEncrypted
  <2> QED
    BY <2>1, <2>2, <2>3
<1>5. ASSUME NEW a \in Attempt PROVE Deserted(a)'
  <2> SUFFICES ASSUME link'[a] = "down"
               PROVE  \/ IsTerminal(rcv[a])
                      \/ /\ rcv[a].file = "null"
                         /\ \/ rcv[a].sock = "closed"
                            \/ \A i \in 1 .. Len(toR'[a]) : toR'[a][i].type # "Header"
    BY <1>1 DEF Deserted
  <2>1. link[a] = "down"
    BY <1>0, <1>1
  <2>2. toR'[a] = toR[a]
    BY <1>0, <1>1, <1>4
  <2> QED
    BY <1>3, <2>1, <2>2 DEF Deserted
<1>6. Announced'
  BY <1>1, <1>3 DEF Announced
<1>7. TakesLeave'
  <2> SUFFICES ASSUME NEW i \in 1 .. Len(toR'[now]), toR'[now][i].type = "Cancel"
               PROVE  IsTerminal(snd')
    BY <1>1 DEF TakesLeave
  <2>1. CASE toR'[now] = toR[now]
    BY <1>1, <1>3, <2>1 DEF TakesLeave
  <2>2. CASE toR'[now] = Append(toR[now], header)
    BY <1>0, <1>1, <1>2, <1>3, <2>2, AppendSays DEF TakesLeave
  <2> QED
    BY <1>0, <1>1, <2>1, <2>2
<1>8. Granted'
  <2>1. ~snd'.retryScheduled
    BY <1>0, <1>1 DEF Outset
  <2>2. ~snd'.finishing
    <3>1. ~snd.finishing /\ ~BytesWritten
      BY <1>1, <1>3 DEF Granted, BytesWritten
    <3> QED
      BY <1>0, <3>1, SenderClaims DEF Claims
  <2>3. TLS /\ snd'.sock = "open" => rcv'[now].sock # "none"
    BY <1>1, <1>4
  <2> QED
    BY <1>1, <2>1, <2>2, <2>3 DEF Granted
<1>9. Answered'
  BY <1>1, <1>4 DEF Answered
<1>10. PartKept' /\ PastClosed'
  <2>1. PartKept'
    BY <1>1, <1>3 DEF PartKept
  <2>2. PastClosed'
    <3> SUFFICES ASSUME NEW a \in Attempt, a < now PROVE link'[a] = "down"
      BY <1>1 DEF PastClosed
    <3>1. a # now
      BY <1>0
    <3> QED
      BY <1>0, <1>1, <1>3, <3>1 DEF PastClosed
  <2> QED
    BY <2>1, <2>2
<1> QED
  BY <1>5, <1>6, <1>7, <1>8, <1>9, <1>10 DEF Manners

LEMMA ReconnectingPromise ==
  ASSUME Calm, PromiseInv, SenderNext, Reconnects
  PROVE  Manners'
<1> DEFINE now == snd.attempt
           next == snd'.attempt
<1>0. /\ TypeInv /\ LossInv /\ now \in Attempt /\ now \in Nat /\ snd \in Sender /\ Manners
      /\ link \in [Attempt -> {"none", "up", "down"}]
      /\ UnusedLinks /\ FutureUnused /\ NoReplies
      /\ \A a \in Attempt : a \in Nat
  BY PromiseParts
<1>1. /\ snd' \in Sender /\ next = now + 1 /\ snd'.sock = "connecting"
      /\ ~snd'.retryScheduled /\ snd.retryScheduled
      /\ link' = [link EXCEPT ![now] = "down"]
      /\ UNCHANGED <<rcv, toR, toS, part, final>>
  BY DEF Reconnects
<1>2. /\ \A a \in Attempt : Deserted(a)
      /\ Granted /\ PastClosed
  BY <1>0 DEF Manners
<1>3. link' = link
  BY <1>0, <1>1, <1>2 DEF Granted
<1>4. /\ next \in Attempt /\ next > now /\ link[next] = "none"
      /\ toS[next] = <<>> /\ toR[next] = <<>> /\ rcv[next] = NoReceiver
  <2>1. next \in Attempt
    BY <1>1 DEF Sender
  <2>2. next > now
    BY <1>0, <1>1
  <2> QED
    BY <1>0, <2>1, <2>2 DEF FutureUnused, NoReplies, UnusedLinks
<1>5. ASSUME NEW a \in Attempt PROVE Deserted(a)'
  BY <1>1, <1>2, <1>3 DEF Deserted
<1>6. Announced' /\ TakesLeave'
  BY <1>1, <1>4 DEF Announced, TakesLeave
<1>7. Granted'
  <2>1. ~snd'.finishing
    <3>1. ~BytesWritten
      <4>1. ASSUME BytesWritten PROVE FALSE
        <5>1. snd'.sock = snd.sock /\ snd.sock = "open"
          BY <1>0, <4>1, SocketStays DEF BytesWritten
        <5> QED
          BY <1>1, <5>1
      <4> QED
        BY <4>1
    <3>2. snd'.attempt # snd.attempt
      BY <1>0, <1>1
    <3> QED
      BY <1>0, <3>1, <3>2, SenderClaims DEF Claims
  <2> QED
    BY <1>1, <2>1 DEF Granted
<1>8. Answered'
  BY <1>1 DEF Answered
<1>9. PartKept'
  BY <1>1, <1>4 DEF PartKept, NoReceiver
<1>10. PastClosed'
  <2> SUFFICES ASSUME NEW a \in Attempt, a < next PROVE link'[a] = "down"
    BY DEF PastClosed
  <2>1. a < now \/ a = now
    BY <1>0, <1>1
  <2> QED
    BY <1>0, <1>1, <1>2, <2>1 DEF PastClosed
<1> QED
  BY <1>5, <1>6, <1>7, <1>8, <1>9, <1>10 DEF Manners

LEMMA SenderPromise ==
  ASSUME Calm, PromiseInv, SenderNext
  PROVE  Manners'
<1>1. TypeInv /\ LossInv
  BY PromiseParts
<1>2. ~OffsetAckTimeout
  BY <1>1, SenderWord
<1>3. Start \/ SenderConnected \/ SenderEncrypted \/ Going \/ Reconnects
  BY <1>1, <1>2, SenderSteps DEF Going
<1> QED
  BY <1>3, OpeningPromise, GoingPromise, ReconnectingPromise

-----------------------------------------------------------------------------
(* The Receivers keep the promise                                          *)

\* a packet is at hand
MayRead(a) == rcv[a].sock = "open" /\ ~IsTerminal(rcv[a]) /\ toR[a] # <<>>

\* what one Receiver does to the others: at most it takes away their entry, and
\* only by what it reads or when its user cancels
LEMMA Bystanders ==
  ASSUME TypeInv, NEW a \in Attempt, ReceiverNext(a), NEW b \in Attempt, b # a
  PROVE  /\ rcv'[b].sock = rcv[b].sock /\ rcv'[b].state = rcv[b].state
         /\ rcv'[b].file = "null" <=> rcv[b].file = "null"
         /\ rcv'[b].file = "unlinked" =>
              rcv[b].file = "unlinked" \/ ReceiverCancel(a) \/ MayRead(a)
<1>0. rcv \in [Attempt -> Receiver] /\ rcv[b] \in Receiver
  BY DEF TypeInv, TypeOK
<1>1. CASE \/ Accept(a) \/ RejectBusy(a) \/ ReceiverGetsData(a) \/ ReceiverDisconnected(a)
           \/ ReceiverIdleTimeout(a) \/ ReceiverPause(a) \/ ReceiverResume(a)
  <2>1. rcv'[b] = rcv[b]
    BY <1>0, <1>1 DEF Accept, RejectBusy, ReceiverGetsData, ReceiverDisconnected,
                      ReceiverIdleTimeout, ReceiverPause, ReceiverResume
  <2> QED
    BY <2>1
<1>2. ASSUME NEW gone \in SUBSET {"part", "final"},
             rcv'[b] \in {rcv[b], Unlinked(rcv[b], gone), Renamed(rcv[b])},
             ReceiverCancel(a) \/ MayRead(a)
      PROVE  /\ rcv'[b].sock = rcv[b].sock /\ rcv'[b].state = rcv[b].state
             /\ rcv'[b].file = "null" <=> rcv[b].file = "null"
             /\ rcv'[b].file = "unlinked" =>
                  rcv[b].file = "unlinked" \/ ReceiverCancel(a) \/ MayRead(a)
  <2>1. CASE rcv'[b] = rcv[b]
    BY <2>1
  <2>2. CASE rcv'[b] = Renamed(rcv[b])
    BY <1>0, <1>2, <2>2, RenamedReceiver
  <2>3. CASE rcv'[b] = Unlinked(rcv[b], gone)
    BY <1>0, <1>2, <2>3, UnlinkedReceiver
  <2> QED
    BY <1>2, <2>1, <2>2, <2>3
<1>3. CASE ReceiverGetsHeader(a)
  <2>1. MayRead(a) /\ rcv'[b] \in {rcv[b], Unlinked(rcv[b], {"part"})}
    BY <1>3 DEF ReceiverGetsHeader, ReceiverReads, MayRead
  <2> QED
    BY <1>2, <2>1
<1>4. CASE RejectHeader(a)
  <2>1. MayRead(a) /\ rcv'[b] \in {rcv[b], Unlinked(rcv[b], {"part"})}
    BY <1>4 DEF RejectHeader, ReceiverReads, MayRead
  <2> QED
    BY <1>2, <2>1
<1>5. ASSUME NEW r, RemoveDownload(a, r)
      PROVE  rcv'[b] \in {rcv[b], Unlinked(rcv[b], {"part", Target})}
  BY <1>5 DEF RemoveDownload
<1>6. CASE WriteError(a) \/ ChecksumFailed(a) \/ ReceiverGetsCancel(a) \/ ReceiverCancel(a)
  <2>1. ReceiverCancel(a) \/ MayRead(a)
    BY <1>6 DEF WriteError, ChecksumFailed, ReceiverGetsCancel, ReceiverReads, MayRead
  <2>2. rcv'[b] \in {rcv[b], Unlinked(rcv[b], {"part", Target})}
    BY <1>5, <1>6 DEF WriteError, ChecksumFailed, ReceiverGetsCancel, ReceiverCancel
  <2>3. {"part", Target} \in SUBSET {"part", "final"}
    BY DEF Target
  <2> QED
    BY <1>2, <2>1, <2>2, <2>3
<1>7. CASE FinalizeDownload(a)
  <2>1. MayRead(a) /\ rcv'[b] \in {rcv[b], Renamed(rcv[b])}
    BY <1>0, <1>7 DEF FinalizeDownload, ReceiverReads, MayRead
  <2> QED
    BY <1>2, <2>1
<1>8. CASE FinalizeFails(a)
  <2>1. MayRead(a) /\ rcv'[b] = Unlinked(rcv[b], {"final"})
    BY <1>8 DEF FinalizeFails, ReceiverReads, MayRead
  <2> QED
    BY <1>2, <2>1
<1> QED
  BY <1>1, <1>3, <1>4, <1>6, <1>7, <1>8 DEF ReceiverNext

\* what a Receiver may say, and when it hangs up
Says(a, p) ==
  /\ toS' = Post(toS, a, p)
  /\ p.type = "FinishAck" => final'.there
  /\ p.type = "Cancel" => IsTerminal(rcv'[a])
  /\ p.type = "Busy" => rcv'[a].sock = "closed" /\ rcv'[a].file = "null"

HangsUp(a) ==
  \/ IsTerminal(rcv'[a]) /\ (final'.there \/ ReceiverGetsCancel(a) \/ Says(a, Packet0("Cancel")))
  \/ /\ rcv[a].sock = "none" /\ rcv'[a].sock = "closed" /\ rcv'[a].file = "null"
     /\ TLS \/ Says(a, Packet0("Busy"))

Speaks(a) ==
  /\ toS' = toS \/ \E p \in Packet : Says(a, p)
  /\ link' = link \/ (link' = [link EXCEPT ![a] = "down"] /\ HangsUp(a))
  /\ rcv[a].sock # "none" => rcv'[a].sock # "none"
  /\ rcv[a].file = "null" => rcv'[a].file = "null" \/ ReceiverGetsHeader(a)
  /\ rcv'[a].file = "unlinked" => rcv[a].file = "unlinked" \/ IsTerminal(rcv'[a])

\* the .part of the current download is there when its last packet has come
LEMMA PartAtTheEnd ==
  ASSUME PromiseInv, NEW a \in Attempt, ReceiverReads(a, "Finish")
  PROVE  part.there
<1>1. /\ a = snd.attempt /\ rcv[a].file # "null" /\ ~IsTerminal(rcv[a])
  BY FinishStream DEF PromiseInv
<1>2. HandleInv /\ PartKept /\ rcv[a] \in Receiver
  BY PromiseParts DEF Manners
<1> QED
  BY <1>1, <1>2 DEF HandleInv, PartKept, Receiver

LEMMA OwnWord ==
  ASSUME Calm, PromiseInv, NEW a \in Attempt, ReceiverNext(a)
  PROVE  Speaks(a)
<1>0. /\ rcv \in [Attempt -> Receiver] /\ rcv[a] \in Receiver /\ Started(rcv[a])
      /\ ResumePartial /\ DownloadInv /\ TypeInv /\ AllStarted /\ ConnectionInv /\ UnusedLinks
  BY PromiseParts DEF AllStarted, Calm, Plain, Orderly
<1>P. \A t \in PacketKind : Packet0(t) \in Packet /\ Packet0(t).type = t
  BY PacketTypes DEF Packet0
<1>K. {"Cancel", "Busy", "FinishAck", "Pause", "Resume"} \subseteq PacketKind
  BY DEF PacketKind
<1>1. CASE Accept(a)
  <2> DEFINE r == [rcv[a] EXCEPT !.sock = "open"]
             q == SetState(r, "Waiting")
  <2>1. rcv'[a] = q /\ toS' = toS /\ link' = link
    BY <1>0, <1>1 DEF Accept
  <2>2. r \in Receiver /\ r.sock = "open" /\ r.file = rcv[a].file
    BY <1>0 DEF Receiver
  <2> HIDE DEF r
  <2>3. q.sock = "open" /\ q.file = rcv[a].file
    BY <2>2, SetStateReceiver DEF SameDownload, TransferState
  <2> QED
    BY <2>1, <2>3 DEF Speaks
<1>2. CASE RejectBusy(a)
  <2>1. /\ rcv[a].sock = "none" /\ rcv'[a].sock = "closed" /\ rcv'[a].file = rcv[a].file
        /\ link' = [link EXCEPT ![a] = "down"]
        /\ toS' = IF TLS THEN toS ELSE Post(toS, a, Packet0("Busy"))
    BY <1>0, <1>2 DEF RejectBusy, Hangup, Receiver
  <2>2. rcv'[a].file = "null"
    BY <1>0, <2>1 DEF Started
  <2>3. TLS \/ Says(a, Packet0("Busy"))
    BY <1>K, <1>P, <2>1, <2>2 DEF Says
  <2>4. toS' = toS \/ \E p \in Packet : Says(a, p)
    BY <1>K, <1>P, <2>1, <2>3
  <2> QED
    BY <2>1, <2>2, <2>3, <2>4 DEF Speaks, HangsUp
<1>3. CASE ReceiverGetsHeader(a)
  <2> DEFINE n == IF Resumable THEN Len(part.data) ELSE 0
             p == [type |-> "OffsetAck", n |-> n]
  <2>1. link' = link /\ toS' = Post(toS, a, p)
    BY <1>3 DEF ReceiverGetsHeader
  <2>2. p \in Packet /\ p.type = "OffsetAck"
    <3>1. n \in Chunk
      BY ChunksAssumption DEF Resumable, Chunk
    <3> QED
      BY <3>1, PacketTypes
  <2>3. rcv'[a].file = "part"
    BY <1>0, <1>3, HeaderReceiver
  <2>4. rcv[a].sock = "open" /\ rcv'[a].sock # "none"
    <3> DEFINE kept == IF Resumable THEN part.data ELSE <<>>
               r == [rcv[a] EXCEPT !.got = kept, !.file = Target]
    <3>1. rcv'[a] = SetState(r, "Transfering") /\ rcv[a].sock = "open"
      BY <1>0, <1>3 DEF ReceiverGetsHeader, ReceiverReads
    <3>2. kept \in Content /\ Target \in {"part", "final"}
      BY <1>0 DEF Target, TypeInv, TypeOK, File, Content
    <3> HIDE DEF kept
    <3>3. r \in Receiver /\ r.sock = rcv[a].sock
      BY <1>0, <3>2 DEF Receiver
    <3> HIDE DEF r
    <3> QED
      BY <3>1, <3>3, SetStateReceiver DEF TransferState
  <2>5. Says(a, p)
    BY <2>1, <2>2 DEF Says
  <2> QED
    BY <1>3, <2>1, <2>2, <2>3, <2>4, <2>5 DEF Speaks
<1>Q. ASSUME NEW r \in Receiver, SameDownload(rcv[a], r), r.sock # "none",
             NEW gone \in SUBSET {"part", "final"}, rcv'[a] \in {r, Unlinked(r, gone)},
             IsTerminal(r)
      PROVE  /\ IsTerminal(rcv'[a]) /\ rcv'[a].sock # "none"
             /\ rcv[a].file = "null" => rcv'[a].file = "null"
             /\ rcv'[a].file = "unlinked" => rcv[a].file = "unlinked" \/ IsTerminal(rcv'[a])
  <2>1. CASE rcv'[a] = r
    BY <1>Q, <2>1 DEF SameDownload
  <2>2. CASE rcv'[a] = Unlinked(r, gone)
    BY <1>Q, <2>2, UnlinkedReceiver DEF SameDownload, IsTerminal
  <2> QED
    BY <1>Q, <2>1, <2>2
<1>F. LET r == Offline(Fail(rcv[a]))
      IN SameDownload(rcv[a], r) /\ r \in Receiver /\ r.sock # "none" /\ IsTerminal(r)
  BY <1>0, FailedReceiver DEF SameDownload
<1>T. Target \in {"part", "final"}
  BY DEF Target
<1>4. CASE RejectHeader(a) \/ WriteError(a) \/ ChecksumFailed(a)
  <2> DEFINE r == Offline(Fail(rcv[a]))
  <2>1. /\ toS' = Post(toS, a, Packet0("Cancel")) /\ link' = [link EXCEPT ![a] = "down"]
    BY <1>4 DEF RejectHeader, WriteError, ChecksumFailed, Hangup
  <2>2. rcv'[a] \in {r, Unlinked(r, {"part", Target})}
    <3>1. CASE RejectHeader(a)
      BY <1>0, <3>1 DEF RejectHeader
    <3>2. CASE WriteError(a) \/ ChecksumFailed(a)
      BY <1>0, <3>2 DEF WriteError, ChecksumFailed, RemoveDownload
    <3> QED
      BY <1>4, <3>1, <3>2
  <2>3. /\ IsTerminal(rcv'[a]) /\ rcv'[a].sock # "none"
        /\ rcv[a].file = "null" => rcv'[a].file = "null"
    <3> HIDE DEF r
    <3>1. SameDownload(rcv[a], r) /\ r \in Receiver /\ r.sock # "none" /\ IsTerminal(r)
      BY <1>F DEF r
    <3>2. {"part", Target} \in SUBSET {"part", "final"}
      BY <1>T
    <3> QED
      BY <1>Q, <2>2, <3>1, <3>2
  <2>4. Says(a, Packet0("Cancel"))
    BY <1>K, <1>P, <2>1, <2>3 DEF Says
  <2> QED
    BY <1>K, <1>P, <2>1, <2>3, <2>4 DEF Speaks, HangsUp
<1>5. CASE ReceiverGetsData(a)
  <2>1. toS' = toS /\ link' = link
    BY <1>5 DEF ReceiverGetsData
  <2>2. rcv'[a].sock = rcv[a].sock /\ rcv'[a].file = rcv[a].file
    BY <1>0, <1>5 DEF ReceiverGetsData, Receiver
  <2> QED
    BY <2>1, <2>2 DEF Speaks
<1>6. CASE FinalizeDownload(a)
  <2>1. /\ toS' = Post(toS, a, Packet0("FinishAck")) /\ link' = [link EXCEPT ![a] = "down"]
        /\ ReceiverReads(a, "Finish") /\ final' = part /\ part.there
        /\ rcv'[a] = Renamed(Finalized(rcv[a]))
    BY <1>0, <1>6 DEF FinalizeDownload, Hangup
  <2>2. IsTerminal(rcv'[a]) /\ final'.there
    BY <1>0, <1>6, <2>1, FinalizingReceiver
  <2>3. rcv'[a].sock # "none" /\ (rcv[a].file = "null" => rcv'[a].file = "null")
    <3> DEFINE q == Finalized(rcv[a])
    <3>1. SameDownload(rcv[a], q) /\ q.sock = "closed"
      BY <1>0, FinalizedReceiver
    <3> HIDE DEF q
    <3>2. q \in Receiver /\ q.file = rcv[a].file
      BY <3>1 DEF SameDownload
    <3>3. Renamed(q).sock = "closed" /\ (q.file = "null" => Renamed(q).file = "null")
      BY <3>1, <3>2, RenamedReceiver
    <3> QED
      BY <2>1, <3>2, <3>3 DEF q
  <2>4. Says(a, Packet0("FinishAck"))
    BY <1>K, <1>P, <2>1, <2>2 DEF Says
  <2> QED
    BY <1>K, <1>P, <2>1, <2>2, <2>3, <2>4 DEF Speaks, HangsUp
<1>7. ASSUME FinalizeFails(a) PROVE FALSE
  <2>1. ReceiverReads(a, "Finish") /\ ~part.there
    BY <1>7 DEF FinalizeFails
  <2> QED
    BY <2>1, PartAtTheEnd
<1>8. ASSUME ReceiverIdleTimeout(a) PROVE FALSE
  BY <1>8 DEF ReceiverIdleTimeout, IdleOn, Calm
<1>9. CASE ReceiverGetsCancel(a) \/ ReceiverCancel(a)
  <2> DEFINE c == SetState(rcv[a], "Cancelled")
             r == IF ReceiverGetsCancel(a) THEN Offline(c) ELSE c
  <2>1. \/ ReceiverGetsCancel(a) /\ RemoveDownload(a, Offline(c))
        \/ ReceiverCancel(a) /\ RemoveDownload(a, c)
    BY <1>9 DEF ReceiverGetsCancel, ReceiverCancel
  <2>2. ~IsTerminal(rcv[a]) /\ IsTerminal(rcv'[a])
    <3>1. ~IsTerminal(rcv[a]) /\ rcv'[a].state = "Cancelled"
      BY <1>0, <1>9, CancelledDownload
    <3> QED
      BY <3>1 DEF IsTerminal, Terminal
  <2>3. /\ c \in Receiver /\ c.file = rcv[a].file /\ c.sock = rcv[a].sock
    BY <1>0, SetStateReceiver DEF SameDownload, TransferState
  <2> HIDE DEF c
  <2>4. /\ Offline(c) \in Receiver /\ Offline(c).file = rcv[a].file
        /\ Offline(c).sock = "closed"
    BY <2>3, OfflineReceiver DEF SameDownload
  <2>5. PICK q \in Receiver : /\ RemoveDownload(a, q) /\ q.file = rcv[a].file
                              /\ q.sock \in {rcv[a].sock, "closed"}
    BY <2>1, <2>3, <2>4
  <2>6. rcv'[a] \in {q, Unlinked(q, {"part", Target})}
    BY <1>0, <2>5 DEF RemoveDownload
  <2>7. Unlinked(q, {"part", Target}).sock = q.sock
        /\ (q.file = "null" => Unlinked(q, {"part", Target}).file = "null")
    BY <1>T, UnlinkedReceiver
  <2>8. /\ rcv[a].sock # "none" => rcv'[a].sock # "none"
        /\ rcv[a].file = "null" => rcv'[a].file = "null"
    BY <2>5, <2>6, <2>7
  <2>9. toS' = toS \/ \E p \in Packet : Says(a, p)
    <3>1. CASE ReceiverGetsCancel(a)
      BY <3>1 DEF ReceiverGetsCancel
    <3>2. CASE ReceiverCancel(a)
      <4>1. toS' = toS \/ toS' = Post(toS, a, Packet0("Cancel"))
        BY <3>2 DEF ReceiverCancel
      <4> QED
        BY <1>K, <1>P, <2>2, <4>1 DEF Says
    <3> QED
      BY <1>9, <3>1, <3>2
  <2>10. link' = link \/ (link' = [link EXCEPT ![a] = "down"] /\ HangsUp(a))
    BY <1>9, <2>2 DEF ReceiverGetsCancel, ReceiverCancel, Hangup, HangsUp
  <2> QED
    BY <2>2, <2>8, <2>9, <2>10 DEF Speaks
<1>10. CASE ReceiverDisconnected(a)
  <2>1. toS' = toS /\ link' = link
    BY <1>10 DEF ReceiverDisconnected
  <2>2. rcv'[a] \in {Offline(rcv[a]), Offline(Fail(rcv[a]))}
    BY <1>0, <1>10 DEF ReceiverDisconnected
  <2>3. \A q \in {Offline(rcv[a]), Offline(Fail(rcv[a]))} :
          q.sock = "closed" /\ q.file = rcv[a].file
    BY <1>0, OfflineReceiver, FailedReceiver DEF SameDownload
  <2>4. rcv'[a].sock = "closed" /\ rcv'[a].file = rcv[a].file
    BY <2>2, <2>3
  <2> QED
    BY <2>1, <2>4 DEF Speaks
<1>11. CASE ReceiverPause(a) \/ ReceiverResume(a)
  <2>1. PICK new \in TransferState : rcv'[a] = SetState(rcv[a], new)
    BY <1>0, <1>11 DEF ReceiverPause, ReceiverResume, TransferState, Receiver
  <2>2. rcv'[a].sock = rcv[a].sock /\ rcv'[a].file = rcv[a].file
    BY <1>0, <2>1, SetStateReceiver DEF SameDownload
  <2>3. link' = link /\ \/ toS' = toS
                        \/ toS' = Post(toS, a, Packet0("Pause"))
                        \/ toS' = Post(toS, a, Packet0("Resume"))
    BY <1>11 DEF ReceiverPause, ReceiverResume
  <2>4. toS' = toS \/ \E p \in Packet : Says(a, p)
    BY <1>K, <1>P, <2>3 DEF Says
  <2> QED
    BY <2>2, <2>3, <2>4 DEF Speaks
<1> QED
  BY <1>1, <1>2, <1>3, <1>4, <1>5, <1>6, <1>7, <1>8, <1>9, <1>10, <1>11 DEF ReceiverNext

LEMMA ReceiverPromise ==
  ASSUME Calm, PromiseInv, NEW a \in Attempt, ReceiverNext(a)
  PROVE  Manners'
<1> DEFINE now == snd.attempt
<1>0. /\ TypeInv /\ DownloadInv /\ ConnectionInv /\ FutureUnused /\ StreamInv /\ DeliveredInv
      /\ now \in Attempt /\ now \in Nat /\ snd \in Sender /\ AllStarted
      /\ rcv \in [Attempt -> Receiver]
      /\ link \in [Attempt -> {"none", "up", "down"}]
      /\ toR \in [Attempt -> Seq(Packet)] /\ toS \in [Attempt -> Seq(Packet)]
      /\ \A b \in Attempt : b \in Nat /\ toR[b] \in Seq(Packet) /\ toS[b] \in Seq(Packet)
      /\ ResumePartial
  BY PromiseParts DEF Calm, Plain, Orderly
<1>1. /\ \A b \in Attempt : Deserted(b)
      /\ Announced /\ TakesLeave /\ Granted /\ Answered /\ PartKept /\ PastClosed
  BY PromiseParts DEF Manners
<1>2. /\ UNCHANGED snd /\ link[a] # "none"
      /\ \/ toR' = toR
         \/ MayRead(a) /\ toR' = [toR EXCEPT ![a] = Tail(@)]
      /\ \A b \in Attempt : /\ rcv[b].sock = "closed" => rcv'[b].sock = "closed"
                            /\ IsTerminal(rcv[b]) => IsTerminal(rcv'[b])
  BY <1>0, ReceiverDownload DEF Proceeds, MayRead
<1>3. /\ toS' = toS \/ \E p \in Packet : Says(a, p)
      /\ link' = link \/ (link' = [link EXCEPT ![a] = "down"] /\ HangsUp(a))
      /\ rcv[a].sock # "none" => rcv'[a].sock # "none"
      /\ rcv[a].file = "null" => rcv'[a].file = "null" \/ ReceiverGetsHeader(a)
      /\ rcv'[a].file = "unlinked" => rcv[a].file = "unlinked" \/ IsTerminal(rcv'[a])
  BY OwnWord DEF Speaks
<1>4. \A b \in Attempt : b # a =>
        /\ rcv'[b].sock = rcv[b].sock
        /\ rcv'[b].file = "null" <=> rcv[b].file = "null"
        /\ rcv'[b].file = "unlinked" =>
             rcv[b].file = "unlinked" \/ ReceiverCancel(a) \/ MayRead(a)
  BY <1>0, Bystanders
<1>5. ReceiverGetsHeader(a) => /\ rcv[a].sock = "open"
                               /\ 1 \in 1 .. Len(toR[a]) /\ toR[a][1].type = "Header"
  <2> SUFFICES ASSUME ReceiverGetsHeader(a)
               PROVE  /\ rcv[a].sock = "open"
                      /\ 1 \in 1 .. Len(toR[a]) /\ toR[a][1].type = "Header"
    OBVIOUS
  <2>1. rcv[a].sock = "open" /\ toR[a] # <<>> /\ Head(toR[a]).type = "Header"
    BY DEF ReceiverGetsHeader, ReceiverReads
  <2> QED
    BY <1>0, <2>1, TailSays
<1>6. \A b \in Attempt : link[b] = "down" => link'[b] = "down"
  BY <1>0, <1>3
<1>7. \A b \in Attempt : link'[b] = "down" =>
        link[b] = "down" \/ (b = a /\ link[a] = "up" /\ HangsUp(a))
  BY <1>0, <1>2, <1>3
<1>8. \A b \in Attempt : \A i \in 1 .. Len(toR'[b]) :
        \E j \in 1 .. Len(toR[b]) : toR'[b][i] = toR[b][j]
  <2>1. CASE toR' = toR
    BY <2>1
  <2>2. CASE MayRead(a) /\ toR' = [toR EXCEPT ![a] = Tail(@)]
    <3> SUFFICES ASSUME NEW b \in Attempt, NEW i \in 1 .. Len(toR'[b])
                 PROVE  \E j \in 1 .. Len(toR[b]) : toR'[b][i] = toR[b][j]
      OBVIOUS
    <3>1. CASE b = a
      <4>1. toR'[b] = Tail(toR[b]) /\ toR[b] # <<>>
        BY <1>0, <2>2, <3>1 DEF MayRead
      <4>2. toR[b] \in Seq(Packet)
        BY <1>0
      <4> QED
        BY <4>1, <4>2, TailSays
    <3>2. CASE b # a
      BY <1>0, <2>2, <3>2
    <3> QED
      BY <3>1, <3>2
  <2> QED
    BY <1>2, <2>1, <2>2
<1>9. final.there => final'.there
  <2>1. [Next]_vars
    BY DEF Next
  <2> QED
    BY <1>0, <2>1, DeliveredStep
<1>10. ASSUME NEW b \in Attempt PROVE Deserted(b)'
  <2> SUFFICES ASSUME link'[b] = "down"
               PROVE  \/ IsTerminal(rcv'[b])
                      \/ /\ rcv'[b].file = "null"
                         /\ \/ rcv'[b].sock = "closed"
                            \/ \A i \in 1 .. Len(toR'[b]) : toR'[b][i].type # "Header"
    BY DEF Deserted
  <2>1. CASE link[b] = "down" /\ IsTerminal(rcv[b])
    BY <1>2, <2>1
  <2>2. CASE /\ link[b] = "down" /\ rcv[b].file = "null"
             /\ \/ rcv[b].sock = "closed"
                \/ \A i \in 1 .. Len(toR[b]) : toR[b][i].type # "Header"
    <3>1. rcv'[b].file = "null"
      <4>1. CASE b = a
        BY <1>3, <1>5, <2>2, <4>1
      <4>2. CASE b # a
        BY <1>4, <2>2, <4>2
      <4> QED
        BY <4>1, <4>2
    <3>2. \/ rcv'[b].sock = "closed"
          \/ \A i \in 1 .. Len(toR'[b]) : toR'[b][i].type # "Header"
      BY <1>2, <1>8, <2>2
    <3> QED
      BY <3>1, <3>2
  <2>3. CASE b = a /\ HangsUp(a)
    BY <2>3 DEF HangsUp
  <2> QED
    BY <1>1, <1>7, <2>1, <2>2, <2>3 DEF Deserted
<1>11. Announced'
  <2> SUFFICES ASSUME NEW i \in 1 .. Len(toS'[now])
               PROVE  /\ toS'[now][i].type = "FinishAck" => final'.there
                      /\ toS'[now][i].type = "Cancel" => IsTerminal(rcv'[now])
                      /\ toS'[now][i].type = "Busy" =>
                           rcv'[now].sock = "closed" /\ rcv'[now].file = "null"
    BY <1>2 DEF Announced
  <2>1. CASE i \in 1 .. Len(toS[now]) /\ toS'[now][i] = toS[now][i]
    <3>1. /\ toS[now][i].type = "FinishAck" => final.there
          /\ toS[now][i].type = "Cancel" => IsTerminal(rcv[now])
          /\ toS[now][i].type = "Busy" => rcv[now].sock = "closed" /\ rcv[now].file = "null"
      BY <1>1, <2>1 DEF Announced
    <3>2. rcv[now].sock = "closed" /\ rcv[now].file = "null" => rcv'[now].file = "null"
      <4>1. CASE now = a
        BY <1>3, <1>5, <4>1
      <4>2. CASE now # a
        BY <1>0, <1>4, <4>2
      <4> QED
        BY <4>1, <4>2
    <3> QED
      BY <1>0, <1>2, <1>9, <2>1, <3>1, <3>2
  <2>2. CASE \E p \in Packet : Says(a, p) /\ a = now /\ toS'[now][i] = p
    BY <2>2 DEF Says
  <2>3. CASE toS'[now] = toS[now]
    BY <2>1, <2>3
  <2>4. ASSUME NEW p \in Packet, Says(a, p), toS'[now] # toS[now]
        PROVE  \/ i \in 1 .. Len(toS[now]) /\ toS'[now][i] = toS[now][i]
               \/ a = now /\ toS'[now][i] = p
    <3>1. a = now /\ toS'[now] = Append(toS[now], p)
      BY <1>0, <2>4 DEF Says, Post
    <3> QED
      BY <1>0, <3>1, AppendSays
  <2> QED
    BY <1>3, <2>1, <2>2, <2>3, <2>4
<1>12. TakesLeave'
  <2> SUFFICES ASSUME NEW i \in 1 .. Len(toR'[now]), toR'[now][i].type = "Cancel"
               PROVE  IsTerminal(snd)
    BY <1>2 DEF TakesLeave
  <2>1. \E j \in 1 .. Len(toR[now]) : toR'[now][i] = toR[now][j]
    BY <1>0, <1>8
  <2> QED
    BY <1>1, <2>1 DEF TakesLeave
<1>13. Granted'
  <2>1. rcv[now].sock # "none" => rcv'[now].sock # "none"
    BY <1>0, <1>3, <1>4
  <2> QED
    BY <1>0, <1>1, <1>2, <1>6, <2>1 DEF Granted
<1>14. Answered'
  <2> SUFFICES ASSUME link'[now] = "down", snd.sock = "open", ~IsTerminal(snd), ~final'.there
               PROVE  \E i \in 1 .. Len(toS'[now]) : toS'[now][i].type \in {"Cancel", "Busy"}
    BY <1>2 DEF Answered
  <2>1. CASE link[now] = "down"
    <3>1. PICK i \in 1 .. Len(toS[now]) : toS[now][i].type \in {"Cancel", "Busy"}
      BY <1>1, <1>9, <2>1 DEF Answered
    <3>2. toS'[now] = toS[now]
      BY <1>0, <1>3, <2>1 DEF Says, Post
    <3> QED
      BY <3>1, <3>2
  <2>2. ASSUME a = now, link[a] = "up", HangsUp(a)
        PROVE  \E i \in 1 .. Len(toS'[now]) : toS'[now][i].type \in {"Cancel", "Busy"}
    <3>1. ~ReceiverGetsCancel(a)
      <4> SUFFICES ASSUME ReceiverGetsCancel(a) PROVE FALSE
        OBVIOUS
      <4>1. toR[now] # <<>> /\ Head(toR[now]).type = "Cancel"
        BY <2>2 DEF ReceiverGetsCancel, ReceiverReads
      <4>2. 1 \in 1 .. Len(toR[now]) /\ toR[now][1].type = "Cancel"
        BY <1>0, <4>1, TailSays
      <4> QED
        BY <1>1, <4>2 DEF TakesLeave
    <3>2. ~(TLS /\ rcv[a].sock = "none")
      BY <1>1, <2>2 DEF Granted
    <3>3. Says(a, Packet0("Cancel")) \/ Says(a, Packet0("Busy"))
      BY <2>2, <3>1, <3>2 DEF HangsUp
    <3>4. ASSUME NEW t \in {"Cancel", "Busy"}, Says(a, Packet0(t))
          PROVE  \E i \in 1 .. Len(toS'[now]) : toS'[now][i].type \in {"Cancel", "Busy"}
      <4> DEFINE p == Packet0(t)
      <4>1. p \in Packet /\ p.type = t
        BY PacketTypes DEF PacketKind, Packet0
      <4>2. toS' = [toS EXCEPT ![now] = Append(@, p)]
        BY <2>2, <3>4 DEF Says, Post
      <4> HIDE DEF p
      <4>3. toS'[now] = Append(toS[now], p)
        BY <1>0, <4>2
      <4>4. /\ Len(toS[now]) + 1 \in 1 .. Len(toS'[now])
            /\ toS'[now][Len(toS[now]) + 1] = p
        BY <1>0, <4>1, <4>3, AppendSays
      <4> QED
        BY <4>1, <4>4
    <3> QED
      BY <3>3, <3>4
  <2> QED
    BY <1>0, <1>7, <2>1, <2>2
<1>15. PartKept'
  <2> SUFFICES ASSUME rcv'[now].file = "unlinked" PROVE IsTerminal(rcv'[now])
    BY <1>2 DEF PartKept
  <2>1. CASE rcv[now].file = "unlinked"
    BY <1>0, <1>1, <1>2, <2>1 DEF PartKept
  <2>2. CASE now = a /\ IsTerminal(rcv'[a])
    BY <2>2
  <2>3. ASSUME now # a PROVE ~ReceiverCancel(a) /\ ~MayRead(a)
    <3>1. ~MayRead(a)
      BY <1>0, <2>3, CurrentReads DEF MayRead
    <3>2. ASSUME ReceiverCancel(a) PROVE FALSE
      <4>1. a < now
        BY <1>0, <1>2, <2>3 DEF FutureUnused
      <4>2. link[a] = "down"
        BY <1>1, <4>1 DEF PastClosed
      <4>3. rcv[a].file # "null"
        BY <3>2 DEF ReceiverCancel
      <4>4. ~IsTerminal(rcv[a])
        BY <1>0, <3>2, CancelledDownload
      <4> QED
        BY <1>1, <4>2, <4>3, <4>4 DEF Deserted
    <3> QED
      BY <3>1, <3>2
  <2> QED
    BY <1>0, <1>3, <1>4, <2>1, <2>2, <2>3
<1>16. PastClosed'
  BY <1>1, <1>2, <1>6 DEF PastClosed
<1> QED
  BY <1>10, <1>11, <1>12, <1>13, <1>14, <1>15, <1>16 DEF Manners

LEMMA NextPromise ==
  ASSUME Calm, PromiseInv, [Next]_vars
  PROVE  PromiseInv'
<1>0. Plain /\ ResumePartial /\ TypeInv
  BY PromiseParts DEF Calm, Plain, Orderly
<1>1. StreamInv' /\ LossInv' /\ DeliveredInv'
  BY <1>0, NextStream, NextLasting, NextDelivered DEF PromiseInv
<1>2. ASSUME NEW a \in Attempt PROVE ~Break(a)
  BY DEF Break, Calm
<1>3. ASSUME UNCHANGED vars PROVE Manners'
  <2>1. Manners /\ UNCHANGED <<snd, rcv, link, toR, toS, part, final>>
    BY <1>3 DEF vars, PromiseInv
  <2> QED
    BY <2>1 DEF Manners, Deserted, Announced, TakesLeave, Granted, Answered, PartKept,
                PastClosed, Drained
<1>4. Manners'
  BY <1>2, <1>3, SenderPromise, ReceiverPromise DEF Next
<1> QED
  BY <1>1, <1>4 DEF PromiseInv

LEMMA InitPromise == Init => PromiseInv
<1> SUFFICES ASSUME Init PROVE PromiseInv
  OBVIOUS
<1>1. StreamInv /\ LossInv /\ DeliveredInv
  BY InitStream, InitLasting, InitDelivered
<1>2. /\ snd.sock = "none" /\ ~snd.finishing /\ ~snd.retryScheduled
      /\ snd.attempt = 0 /\ snd.attempt \in Attempt
  <2>1. 0 \in Attempt
    BY RetryAssumption DEF Attempt
  <2>2. \/ snd = NewSender
        \/ snd = [NewSender EXCEPT !.state = NextState(NewSender, "Queued"),
                                  !.last = NewSender.state]
    BY DEF Init, SetState
  <2>3. /\ NewSender \in Sender
        /\ NewSender.sock = "none" /\ ~NewSender.finishing /\ ~NewSender.retryScheduled
        /\ NewSender.attempt = 0
    BY ChunksAssumption, RetryAssumption DEF NewSender, Sender, TransferState, Attempt
  <2>4. CASE snd = NewSender
    BY <2>1, <2>3, <2>4
  <2> QED
    BY <2>1, <2>2, <2>3, <2>4 DEF Sender
<1>3. /\ \A a \in Attempt : link[a] = "none" /\ toR[a] = <<>> /\ toS[a] = <<>>
                            /\ rcv[a].file = "null"
  BY DEF Init, NoReceiver
<1>4. \A a \in Attempt : ~(a < snd.attempt)
  BY <1>2, RetryAssumption DEF Attempt
<1>5. Manners
  BY <1>2, <1>3, <1>4 DEF Manners, Deserted, Announced, TakesLeave, Granted, Answered,
                    PartKept, PastClosed
<1> QED
  BY <1>1, <1>5 DEF PromiseInv

\* what has ended stays as it has ended
LEMMA OutcomeStays ==
  ASSUME TypeInv, [Next]_vars, snd.state \in {"Cancelled", "Finish", "Failed"}
  PROVE  snd'.state = snd.state
<1>1. CASE SenderNext
  <2>1. KeepsConnection => snd'.state = snd.state
    BY DEF KeepsConnection
  <2>2. Reconnects => snd'.state = snd.state
    BY DEF Reconnects
  <2>3. ASSUME NEW n, Learns(n) PROVE KeepsConnection
    BY <2>3 DEF Learns
  <2>4. Idles \/ SendsChunk \/ SendsFinish \/ SendsCancel => KeepsConnection
    BY DEF Idles, SendsChunk, SendsFinish, SendsCancel
  <2>5. CASE Start \/ SenderConnected \/ SenderEncrypted
    BY <2>5, ConnectingSender
  <2> QED
    BY <1>1, <2>1, <2>2, <2>3, <2>4, <2>5, SenderSteps
<1>2. CASE \E a \in Attempt : ReceiverNext(a) \/ Break(a)
  BY <1>2, ElsewhereSender
<1>3. CASE UNCHANGED vars
  BY <1>3 DEF vars
<1> QED
  BY <1>1, <1>2, <1>3 DEF Next

\* an upload shown as finished has been delivered
LEMMA FinishDelivers ==
  ASSUME Calm, PromiseInv, [Next]_vars, snd'.state = "Finish", snd.state # "Finish"
  PROVE  final.there /\ final' = final
<1> DEFINE now == snd.attempt
<1>0. /\ TypeInv /\ LossInv /\ StreamInv /\ now \in Attempt /\ snd \in Sender
      /\ toS \in [Attempt -> Seq(Packet)] /\ toS[now] \in Seq(Packet)
      /\ Outset(snd) /\ DigestAddsUp /\ Chunks \in Nat \ {0}
  BY PromiseParts
<1>1. Announced /\ Granted /\ Answered
  BY PromiseParts DEF Manners
<1>2. SenderNext
  <2>1. ASSUME NEW a \in Attempt, ReceiverNext(a) \/ Break(a) PROVE FALSE
    BY <2>1, ElsewhereSender
  <2>2. ~UNCHANGED vars
    BY DEF vars
  <2> QED
    BY <2>1, <2>2 DEF Next
<1>3. final' = final
  BY <1>2, SenderElsewhere
<1>4. \/ SenderGetsFinishAck
      \/ SenderDisconnected /\ snd.finishing /\ ~IsTerminal(snd)
      \/ SenderGetsBusy /\ snd.finishing /\ snd.waitingForOffsetAck
      \/ SenderEncrypted /\ snd.finishPending
      \/ BytesWritten /\ snd.finishPending /\ ~snd.receiverFinishAck /\ ~IsTerminal(snd)
  BY <1>0, <1>2, SenderClaims DEF Claims
<1>5. CASE SenderGetsFinishAck
  <2>1. toS[now] # <<>> /\ Head(toS[now]).type = "FinishAck"
    BY <1>5 DEF SenderGetsFinishAck, SenderReads
  <2>2. 1 \in 1 .. Len(toS[now]) /\ toS[now][1].type = "FinishAck"
    BY <1>0, <2>1, TailSays
  <2> QED
    BY <1>1, <1>3, <2>2 DEF Announced
<1>6. CASE SenderDisconnected /\ snd.finishing /\ ~IsTerminal(snd)
  <2>1. link[now] = "down" /\ toS[now] = <<>> /\ Connected(snd)
    BY <1>6 DEF SenderDisconnected
  <2>2. snd.sock = "open"
    BY <1>1, <1>6, <2>1 DEF Granted, Connected
  <2>3. Len(toS[now]) = 0
    BY <2>1
  <2> QED
    BY <1>1, <1>3, <1>6, <2>1, <2>2, <2>3 DEF Answered
<1>7. CASE SenderGetsBusy /\ snd.finishing /\ snd.waitingForOffsetAck
  BY <1>1, <1>7 DEF SenderGetsBusy, SenderReads, Granted
<1>8. CASE SenderEncrypted /\ snd.finishPending
  BY <1>0, <1>8 DEF SenderEncrypted, Outset, DigestAddsUp, DigestIsWhole
<1>9. CASE BytesWritten /\ snd.finishPending /\ ~snd.receiverFinishAck /\ ~IsTerminal(snd)
  BY <1>0, <1>1, <1>9 DEF BytesWritten, Granted, DigestAddsUp
<1> QED
  BY <1>4, <1>5, <1>6, <1>7, <1>8, <1>9

\* every step is one of the promise, or changes nothing the users see
LEMMA PromiseStep ==
  ASSUME Calm, PromiseInv, FileIntegrity, FileIntegrity', [Next]_vars
  PROVE  [Delivery!Next]_(Delivery!deliveryVars)
<1> DEFINE outcome == CASE snd.state = "Finish" -> "finished"
                        [] snd.state = "Failed" -> "failed"
                        [] snd.state = "Cancelled" -> "cancelled"
                        [] OTHER -> "running"
           file == CASE ~final.there -> "absent"
                     [] final.there /\ final.data = Source -> "whole"
                     [] OTHER -> "damaged"
<1>1. TypeInv /\ DeliveredInv /\ ResumePartial
  BY PromiseParts DEF Calm, Plain, Orderly
<1>2. file = (IF final.there THEN "whole" ELSE "absent")
      /\ file' = (IF final'.there THEN "whole" ELSE "absent")
  <2>1. file = (IF final.there THEN "whole" ELSE "absent")
    BY DEF FileIntegrity
  <2>2. file' = (IF final'.there THEN "whole" ELSE "absent")
    BY DEF FileIntegrity
  <2> QED
    BY <2>1, <2>2
<1>3. final.there => final' = final
  BY <1>1, DeliveredStep
<1>4. /\ snd.state \in {"Cancelled", "Finish", "Failed"} => outcome' = outcome
      /\ snd.state \notin {"Cancelled", "Finish", "Failed"} => outcome = "running"
      /\ outcome' = "finished" => snd'.state = "Finish"
      /\ outcome' \in {"running", "finished", "failed", "cancelled"}
      /\ outcome = "finished" <=> snd.state = "Finish"
      /\ snd' = snd => outcome' = outcome
  <2>1. snd.state \in {"Cancelled", "Finish", "Failed"} => snd'.state = snd.state
    BY <1>1, OutcomeStays
  <2> QED
    BY <2>1
<1>5. outcome' = "finished" /\ outcome # "finished" => final.there /\ final' = final
  BY <1>4, FinishDelivers
<1>6. snd' = snd \/ final' = final
  <2>1. SenderNext => final' = final
    BY SenderElsewhere
  <2>2. ASSUME NEW a \in Attempt, ReceiverNext(a) \/ Break(a) PROVE snd' = snd
    BY <2>2, ElsewhereSender
  <2>3. UNCHANGED vars => snd' = snd
    BY DEF vars
  <2> QED
    BY <2>1, <2>2, <2>3 DEF Next
<1>7. \/ outcome' = outcome /\ file' = file
      \/ file = "absent" /\ file' = "whole" /\ outcome' = outcome
      \/ /\ outcome = "running" /\ file = "whole" /\ outcome' = "finished" /\ file' = file
      \/ outcome = "running" /\ outcome' \in {"failed", "cancelled"} /\ file' = file
  <2> HIDE DEF outcome, file
  <2>1. outcome' # outcome => outcome = "running" /\ outcome' \in {"finished", "failed", "cancelled"}
    BY <1>4
  <2>2. final' = final => file' = file
    BY <1>2
  <2> QED
    BY <1>2, <1>3, <1>4, <1>5, <1>6, <2>1, <2>2
<1> QED
  BY <1>7 DEF Delivery!Next, Delivery!Deliver, Delivery!Succeed, Delivery!GiveUp,
              Delivery!deliveryVars

(***************************************************************************)
(* The Sender and the Receivers keep the promise of FileDelivery: the file *)
(* appears once and whole, an upload shown as finished has been delivered, *)
(* and no outcome is taken back, whatever users, disks and busy peers do,  *)
(* as long as no connection is lost and no peer given up for its silence.  *)
(***************************************************************************)
THEOREM ThePromiseIsKept ==
  ASSUME Calm, Verify \/ "foreignPart" \notin Events
  PROVE  Spec => ImplementsDelivery
<1>1. Plain /\ ResumePartial
  BY DEF Calm, Plain, Orderly
<1>2. Spec => []FileIntegrity
  BY <1>1, VerifiedFileIntegrity, UnverifiedFileIntegrity
<1>3. PromiseInv /\ [Next]_vars => PromiseInv'
  BY NextPromise
<1>4. PromiseInv /\ FileIntegrity /\ FileIntegrity' /\ [Next]_vars
        => [Delivery!Next]_(Delivery!deliveryVars)
  BY PromiseStep
<1>5. Init => Delivery!Init
  <2> SUFFICES ASSUME Init PROVE Delivery!Init
    OBVIOUS
  <2>1. snd.state \in {"Idle", "Queued"} /\ ~final.there
    <3>1. NextState(NewSender, "Queued") = "Queued" \/ NextState(NewSender, "Queued") = "Idle"
      BY DEF NextState, NewSender
    <3>2. /\ NewSender \in Sender /\ NewSender.state = "Idle"
      BY ChunksAssumption, RetryAssumption DEF NewSender, Sender, TransferState, Attempt
    <3>3. \/ snd = NewSender
          \/ snd = [NewSender EXCEPT !.state = NextState(NewSender, "Queued"),
                                    !.last = NewSender.state]
      BY DEF Init, SetState
    <3>4. snd.state \in {NewSender.state, NextState(NewSender, "Queued")}
      BY <3>2, <3>3 DEF Sender
    <3>5. ~final.there
      BY DEF Init, NoFile
    <3> QED
      BY <3>1, <3>2, <3>4, <3>5
  <2> QED
    BY <2>1 DEF Delivery!Init
<1> QED
  BY <1>2, <1>3, <1>4, <1>5, InitPromise, PTL DEF Spec, ImplementsDelivery, Delivery!Spec
=============================================================================
