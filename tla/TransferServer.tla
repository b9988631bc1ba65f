--------------------------- MODULE TransferServer ---------------------------
(***************************************************************************)
(* The download side of a running LAN Share: the server that admits        *)
(* connections (src/src/transfer/transferserver.cpp), the Receivers it     *)
(* makes and the registry gTransferRegistry through which the connections  *)
(* of parallel streams find their Receiver (src/src/transfer/receiver.cpp),*)
(* and the list of downloads with its buttons, menus and the "delete file" *)
(* dialog (src/src/ui/mainwindow.cpp).                                     *)
(*                                                                         *)
(* All of it runs in one event loop; what interleaves are the events of    *)
(* the connections, the idle timers and the user.  A dialog runs an event  *)
(* loop of its own: only the user waits for it.                            *)
(***************************************************************************)
EXTENDS TransferTable, TransferInfo, FiniteSets

CONSTANTS
  MaxConnections,  \* bounds the connections ever accepted
  Ids,             \* the transfer ids of the peers' uploads; a retry reuses its id
  Cap,             \* MaxConcurrentDownloads
  TLS,             \* TlsEnabled
  Users            \* what the user does

ASSUME TransferServerAssumption ==
  /\ MaxConnections \in Nat \ {0} /\ Cap \in Nat /\ TLS \in BOOLEAN
  /\ Users \subseteq {"pause", "cancel", "clear", "delete", "select"}

VARIABLES
  rec,       \* every Receiver ever made, in order: mReceivers is never pruned
  registry,  \* gTransferRegistry: a Receiver for each id, 0 for none
  list,      \* mReceiverModel with its panel
  dialog     \* the row the "delete file" dialog is about, 0 when it is closed

vars == <<rec, registry, list, dialog>>

(***************************************************************************)
(* A Receiver.  role: what its first packet made of it; registered is      *)
(* mRegisteredTransferId; socket is the state of mSocket, "closing" from   *)
(* disconnectFromHost() to disconnected(); streams tells whether there are *)
(* data sockets that can still do something to it; deleted: the object is  *)
(* gone, while mReceivers, and perhaps the registry, still hold its        *)
(* address.                                                                *)
(***************************************************************************)
Receiver ==
  [state : TransferState, last : TransferState, role : {"new", "main", "proxy"},
   id : Ids \cup {0}, registered : BOOLEAN, socket : {"open", "closing", "closed"},
   streams : BOOLEAN, deleted : BOOLEAN]

NewReceiver ==
  [state |-> "Waiting", last |-> "Idle", role |-> "new", id |-> 0,
   registered |-> FALSE, socket |-> "open", streams |-> FALSE, deleted |-> FALSE]

\* isActiveReceiver()
IsActive(x) == x.state \in {"Waiting", "Transfering", "Paused"}

Active == {r \in DOMAIN rec : ~rec[r].deleted /\ IsActive(rec[r])}

Deleted == {r \in DOMAIN rec : rec[r].deleted}

(***************************************************************************)
(* activeDownloadCount() reads the state of every Receiver ever made, also *)
(* of those deleted since: what it finds there is anybody's guess.         *)
(***************************************************************************)
ActiveDownloadCounts == {Cardinality(Active \cup ghosts) : ghosts \in SUBSET Deleted}

\* mutant: it stays
KeepsEntry(x) == registry

\* the entry of x goes, whichever Receiver it names by now
Unregister(x) == IF x.registered THEN [registry EXCEPT ![x.id] = 0] ELSE registry

\* disconnectFromHost()
HungUp(x) == [x EXCEPT !.socket = IF @ = "open" THEN "closing" ELSE @]

\* x has ended: neither mLastState nor what its data sockets bring matters any more
Over(x) == [x EXCEPT !.last = x.state, !.streams = FALSE]

\* x has left the registry: its id does not matter any more
Left(x) == [x EXCEPT !.registered = FALSE, !.id = 0]

\* failTransfer(): hangs up; the entry goes when the connection is over
FailTransfer(r) ==
  /\ ~rec[r].deleted /\ ~IsTerminal(rec[r])
  /\ rec' = [rec EXCEPT ![r] = Over(HungUp(Fail(@)))]
  /\ UNCHANGED <<registry, list, dialog>>

(***************************************************************************)
(* finalizeDownload(), failDownloadWrite() and processCancelPacket():      *)
(* close the data sockets, leave the registry at once and hang up.  Where  *)
(* the download is paused, "Finish" is refused (TransferInfo).             *)
(***************************************************************************)
EndsWith(r, x) ==
  /\ rec' = [rec EXCEPT ![r] = Left(HungUp([x EXCEPT !.streams = FALSE]))]
  /\ registry' = Unregister(x)
  /\ UNCHANGED <<list, dialog>>

\* fail() unless the transfer has ended
FailUnlessEnded(x) == IF IsTerminal(x) THEN x ELSE Fail(x)

Init ==
  /\ rec = <<>>
  /\ registry = [id \in Ids |-> 0]
  /\ list = EmptyTable
  /\ dialog = 0

-----------------------------------------------------------------------------
(***************************************************************************)
(* Connections.                                                            *)
(***************************************************************************)

\* onNewConnection(): rejectBusy() leaves no trace
Reject == Cap > 0 /\ \E n \in ActiveDownloadCounts : n >= Cap

\* mutant: one download too many is admitted
AdmitsOneMore == Cap = 0 \/ \E n \in ActiveDownloadCounts : n <= Cap

Admit == Cap = 0 \/ \E n \in ActiveDownloadCounts : n < Cap

\* startReceiver(); without usable credentials a TLS Receiver fails at once
OnNewConnection ==
  /\ Len(rec) < MaxConnections /\ Admit
  /\ \/ rec' = Append(rec, NewReceiver)
     \/ TLS /\ rec' = Append(rec, Over(HungUp(Fail(NewReceiver))))
  /\ UNCHANGED <<registry, list, dialog>>

OnNewConnectionBusy == Len(rec) < MaxConnections /\ Reject /\ UNCHANGED vars

\* r is alive and waits for the first packet
Expects(r) ==
  ~rec[r].deleted /\ rec[r].role = "new" /\ rec[r].socket = "open" /\ ~IsTerminal(rec[r])

(***************************************************************************)
(* processHeaderPacket(): refused for its token or checksum before the     *)
(* download is listed, or after it for folder, space or file; accepted, it *)
(* takes the registry entry of its id from whoever has it.  Headers of one *)
(* id come in the order of their connections, because a retry is delayed   *)
(* far longer than a packet.                                               *)
(***************************************************************************)
HeaderRefused(r) ==
  /\ Expects(r)
  /\ rec' = [rec EXCEPT ![r] = [Over(HungUp(Fail(@))) EXCEPT !.role = "main"]]
  /\ list' \in {list, InsertTransfer(list, r)}
  /\ UNCHANGED <<registry, dialog>>

\* mutant: the first Receiver of an id keeps the entry
FirstKeepsEntry(r) ==
  /\ Expects(r)
  /\ \E id \in Ids :
       /\ rec' = [rec EXCEPT ![r] = [SetState(@, "Transfering") EXCEPT
                                       !.role = "main", !.id = id, !.registered = TRUE]]
       /\ registry' = [registry EXCEPT ![id] = IF @ = 0 THEN r ELSE @]
  /\ list' = InsertTransfer(list, r)
  /\ UNCHANGED dialog

HeaderAccepted(r) ==
  /\ Expects(r)
  /\ \E id \in Ids :
       /\ \A s \in DOMAIN rec : s > r => ~(rec[s].role = "main" /\ rec[s].id = id)
       /\ rec' = [rec EXCEPT ![r] = [SetState(@, "Transfering") EXCEPT
                                       !.role = "main", !.id = id, !.registered = TRUE]]
       /\ registry' = [registry EXCEPT ![id] = r]
  /\ list' = InsertTransfer(list, r)
  /\ UNCHANGED dialog

(***************************************************************************)
(* processHeaderPacket() of an attach connection: its socket goes to the   *)
(* registered Receiver and this one is left behind, Waiting; without one   *)
(* it hangs up.                                                            *)
(***************************************************************************)
StreamAttach(r) ==
  /\ Expects(r)
  /\ \E id \in Ids :
       LET t == registry[id]
           x == [rec[r] EXCEPT !.role = "proxy"]
       IN  rec' = IF t = 0 THEN [rec EXCEPT ![r] = HungUp(x)]
                  ELSE [rec EXCEPT ![r] = [x EXCEPT !.socket = "closed"],
                                   ![t].streams = ~rec[t].deleted /\ ~IsTerminal(rec[t])]
  /\ UNCHANGED <<registry, list, dialog>>

\* a download that goes on
Receives(r) ==
  ~rec[r].deleted /\ rec[r].role = "main" /\ rec[r].socket = "open" /\ ~IsTerminal(rec[r])

\* processFinishPacket() with finalizeDownload()
FinishPacket(r) == Receives(r) /\ EndsWith(r, SetState(rec[r], "Finish"))

\* failDownloadWrite(), or the .part cannot be renamed
WriteFails(r) == Receives(r) /\ EndsWith(r, Fail(rec[r]))

\* processCancelPacket()
CancelPacket(r) == Receives(r) /\ EndsWith(r, SetState(rec[r], "Cancelled"))

\* a packet too large or of no type, a checksum that differs, a failed TLS handshake
BadPacket(r) == rec[r].socket = "open" /\ FailTransfer(r)

(***************************************************************************)
(* The same on a data socket fails the download without hanging up: it     *)
(* stays in the registry until its sender closes the connection.           *)
(***************************************************************************)
OversizeStripedPacket(r) ==
  /\ ~rec[r].deleted /\ rec[r].streams
  /\ rec' = [rec EXCEPT ![r] = Over(Fail(@))]
  /\ UNCHANGED <<registry, list, dialog>>

\* onDisconnected(), also for a connection that never sent a packet
OnDisconnected(r) ==
  /\ ~rec[r].deleted /\ rec[r].socket # "closed"
  /\ rec' = [rec EXCEPT ![r] = Left(Over([FailUnlessEnded(@) EXCEPT !.socket = "closed"]))]
  /\ registry' = Unregister(rec[r])
  /\ UNCHANGED <<list, dialog>>

\* mutant: the timer stops when the socket goes to another Receiver
NoTimerWithoutSocket(r) == rec[r].socket # "closed" /\ FailTransfer(r)

(***************************************************************************)
(* onIdleTimeout().  It runs in every Receiver, a proxy included, and ends *)
(* it; only then does a proxy stop to count as a download.                 *)
(***************************************************************************)
OnIdleTimeout(r) == FailTransfer(r)

-----------------------------------------------------------------------------
(***************************************************************************)
(* The user, who is kept waiting while a dialog is open.                   *)
(***************************************************************************)
May(what) == what \in Users /\ dialog = 0

SelectedReceiver == rec[Selected(list)]

Change(x) == rec' = [rec EXCEPT ![Selected(list)] = x] /\ UNCHANGED <<registry, list, dialog>>

OnReceiverPauseClicked ==
  /\ May("pause") /\ list.current # 0 /\ CanPause(SelectedReceiver)
  /\ Change(SetState(SelectedReceiver, "Paused"))

OnReceiverResumeClicked ==
  /\ May("pause") /\ list.current # 0 /\ CanResume(SelectedReceiver)
  /\ Change(SetState(SelectedReceiver, SelectedReceiver.last))

\* Receiver::cancel() closes the data sockets, but neither hangs up nor leaves the registry
OnReceiverCancelClicked ==
  /\ May("cancel") /\ list.current # 0 /\ CanCancel(SelectedReceiver)
  /\ Change(Over(SetState(SelectedReceiver, "Cancelled")))

OnCardClicked ==
  /\ May("select")
  /\ \E i \in DOMAIN list.rows : list' = SetCurrentRow(list, i)
  /\ UNCHANGED <<rec, registry, dialog>>

\* deleteLater(): nobody tells the registry or the server
DeleteReceivers(gone) ==
  rec' = [r \in DOMAIN rec |->
            IF r \in gone THEN [rec[r] EXCEPT !.deleted = TRUE, !.socket = "closed"]
            ELSE rec[r]]

\* clearCompleted()
OnReceiverClearClicked ==
  /\ May("clear")
  /\ LET ended == {r \in ToSet(list.rows) : IsTerminal(rec[r])}
     IN  list' = ClearCompleted(list, ended) /\ DeleteReceivers(ended)
  /\ UNCHANGED <<registry, dialog>>

\* Remove in the context menu, offered for these states only
RemoveReceiverItem ==
  /\ May("clear") /\ list.current # 0
  /\ SelectedReceiver.state \in {"Finish", "Cancelled", "Disconnected"}
  /\ list' = RemoveTransfer(list, list.current) /\ DeleteReceivers({Selected(list)})
  /\ UNCHANGED <<registry, dialog>>

(***************************************************************************)
(* deleteReceiverFileInCurrentIndex(), offered for finished downloads: the *)
(* row is read before the dialog opens and removed when it closes.         *)
(***************************************************************************)
AskToDelete ==
  /\ May("delete") /\ list.current # 0 /\ SelectedReceiver.state = "Finish"
  /\ dialog' = list.current
  /\ UNCHANGED <<rec, registry, list>>

AnswerYes ==
  /\ dialog # 0
  /\ list' = RemoveTransfer(list, dialog) /\ DeleteReceivers({list.rows[dialog]})
  /\ dialog' = 0
  /\ UNCHANGED registry

AnswerNo == dialog # 0 /\ dialog' = 0 /\ UNCHANGED <<rec, registry, list>>

-----------------------------------------------------------------------------
ConnectionSteps(r) ==
  \/ HeaderRefused(r) \/ HeaderAccepted(r) \/ StreamAttach(r)
  \/ FinishPacket(r) \/ WriteFails(r) \/ CancelPacket(r) \/ BadPacket(r)
  \/ OversizeStripedPacket(r) \/ OnDisconnected(r) \/ OnIdleTimeout(r)

Next ==
  \/ OnNewConnection \/ OnNewConnectionBusy
  \/ \E r \in DOMAIN rec : ConnectionSteps(r)
  \/ OnReceiverPauseClicked \/ OnReceiverResumeClicked \/ OnReceiverCancelClicked
  \/ OnCardClicked \/ OnReceiverClearClicked \/ RemoveReceiverItem
  \/ AskToDelete \/ AnswerYes \/ AnswerNo

Spec == Init /\ [][Next]_vars

(***************************************************************************)
(* Every Receiver has an idle timer (TransferIdleTimeoutMs above 0) that   *)
(* fires unless its Receiver ends or is deleted.                           *)
(***************************************************************************)
FairSpec ==
  Spec /\ \A r \in 1..MaxConnections : WF_vars(r \in DOMAIN rec /\ OnIdleTimeout(r))

-----------------------------------------------------------------------------
(***************************************************************************)
(* Properties.                                                             *)
(***************************************************************************)

\* every variable has its type, and the list holds a download only once
TypeOK ==
  /\ rec \in Seq(Receiver) /\ Len(rec) <= MaxConnections
  /\ registry \in [Ids -> 0..Len(rec)]
  /\ list \in [rows : Seq(DOMAIN rec), current : 0..Len(list.rows)]
  /\ IsInjective(list.rows)
  /\ dialog \in 0..Len(list.rows)

(***************************************************************************)
(* Admission (transferserver.cpp:56, 138): never more than                 *)
(* MaxConcurrentDownloads Receivers are waiting, running or paused at a    *)
(* time, whatever the server reads of Receivers that were deleted.         *)
(***************************************************************************)
CapHolds == Cap > 0 => Cardinality(Active) <= Cap

(***************************************************************************)
(* The registry follows retries (receiver.cpp:484): when a retry under the *)
(* same id has been accepted and is still registered, its parallel streams *)
(* are never handed to an older Receiver.                                  *)
(***************************************************************************)
StreamsGoToTheLatest ==
  \A id \in Ids : registry[id] # 0 =>
    \A r \in DOMAIN rec :
      rec[r].id = id /\ rec[r].registered /\ ~rec[r].deleted => r <= registry[id]

(***************************************************************************)
(* Downloads that are over take no more streams (receiver.cpp:264, 513,    *)
(* 737, 129).  One that finished or was cancelled by its sender leaves the *)
(* registry at once, before its connection is closed; one that failed or   *)
(* that its user cancelled is only found there until its connection is     *)
(* over, or when it was deleted before that.                               *)
(***************************************************************************)
EndedDownloadsTakeNoStreams ==
  \A id \in Ids : registry[id] # 0 =>
    LET x == rec[registry[id]]
    IN  /\ x.id = id /\ x.state # "Finish"
        /\ \/ x.socket = "open"
           \/ x.socket = "closing" /\ x.state = "Failed"
           \/ x.deleted

(***************************************************************************)
(* The download list keeps its selection while Receivers come and go       *)
(* (transferlistpanel.cpp:104, 117), so that a button acts on the download *)
(* it was pressed for.                                                     *)
(***************************************************************************)
SelectionStays ==
  [][\/ Selected(list') = Selected(list)
     \/ Selected(list') = 0 /\ Selected(list) \notin ToSet(list'.rows)
     \/ OnCardClicked]_vars

(***************************************************************************)
(* Slots come back (transfer.cpp:98): every Receiver that counts as a      *)
(* download, the leftovers of attach connections included, stops to count. *)
(***************************************************************************)
SlotsComeBack ==
  \A r \in 1..MaxConnections : r \in Active ~> r \notin Active

=============================================================================
