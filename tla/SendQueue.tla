----------------------------- MODULE SendQueue -----------------------------
(***************************************************************************)
(* The upload side of the main window (src/src/ui/mainwindow.cpp): the     *)
(* list of uploads, the queue that keeps at most MaxConcurrentTransfers of *)
(* them running, folder sends, which feed the queue batch by batch, and    *)
(* the buttons and menus that act on the list.                             *)
(*                                                                         *)
(* An upload is what the queue sees of a Sender: its TransferInfo and the  *)
(* stage of its connection.  The window lives in one event loop, so each   *)
(* action below is one callback with all that it calls; what interleaves   *)
(* are the callbacks of the user, of the uploads and of the folder timer.  *)
(***************************************************************************)
EXTENDS TransferTable, TransferInfo, FiniteSets, FiniteSetsExt

CONSTANTS
  MaxUploads,      \* bounds the uploads ever created
  MaxTimers,       \* bounds the folder timers of sends cancelled before they ran out
  MaxChoices,      \* the values of MaxConcurrentTransfers the user may set
  FolderMax,       \* kFolderSendMaxActiveTransfers
  Lookahead,       \* kFolderSendQueuedLookahead
  BatchFiles,      \* kFolderSendBatchFiles
  Folders,         \* the folders a user may send, each the sequence of its files
  Receivers,       \* how many receivers a folder is sent to
  Users            \* what users do besides sending

ASSUME SendQueueAssumption ==
  /\ {MaxUploads, MaxTimers} \subseteq Nat \ {0} /\ MaxChoices \subseteq Nat /\ MaxChoices # {}
  /\ FolderMax \in Nat \ {0} /\ Lookahead \in Nat /\ BatchFiles \in Nat \ {0}
  /\ Folders \subseteq Seq({"good", "bad", "excluded"}) /\ Receivers \in Nat \ {0}
  /\ Users \subseteq {"pause", "cancel", "clear", "select", "settings"}

VARIABLES
  list,     \* mSenderModel with its panel; list.up[u] is upload u, in order of creation
  folder,   \* mFolderSendActive and the files not yet taken from mFolderSendIterator
  timers,   \* pending single shots of processFolderSendBatch()
  max       \* MaxConcurrentTransfers

vars == <<list, folder, timers, max>>

(***************************************************************************)
(* An upload.  file: "bad" when Sender::start() cannot open it or finds it *)
(* empty.  link: no socket yet, connecting, up (the header is sent; lost   *)
(* connections and their retries are part of this stage), or over.         *)
(***************************************************************************)
NewUpload(file) == [state |-> "Idle", last |-> "Idle", file |-> file, link |-> "none"]

Upload == [state : TransferState, last : TransferState,
           file : {"good", "bad"}, link : {"none", "connecting", "up", "over"}]

\* mLastState no longer matters once an upload has ended
Settled(x) == IF IsTerminal(x) THEN [x EXCEPT !.last = x.state] ELSE x

\* what remains of an upload whose row was removed: its Sender is deleted
Deleted == [state |-> "Idle", last |-> "Idle", file |-> "bad", link |-> "over"]

\* the uploads that activeSenderCount() and queuedSenderCount() count
HoldsSlot(x) == x.state \in {"Waiting", "Transfering", "Paused"}

ActiveCount(up) == Cardinality({u \in DOMAIN up : HoldsSlot(up[u])})

QueuedCount(up) == Cardinality({u \in DOMAIN up : up[u].state = "Queued"})

FolderActiveLimit == IF max = 0 THEN FolderMax ELSE Min({max, FolderMax})

BacklogLimit == FolderActiveLimit + Lookahead

QueueLimit == IF folder.active THEN FolderActiveLimit ELSE max

\* Sender::start(): a bad file leaves the upload as it is, without a socket
Start(x) ==
  IF x.file = "bad" THEN x ELSE [SetState(x, "Waiting") EXCEPT !.link = "connecting"]

\* the uploads processSendQueue() can start
Startable(up) == {u \in DOMAIN up : up[u].state = "Queued" /\ up[u].file = "good"}

\* mutant: one upload too many is started
StartsOneMore(up) ==
  {u \in Startable(up) :
     Cardinality({v \in Startable(up) : v < u}) <= QueueLimit - ActiveCount(up)}

\* mutant: the walk begins at row 0, the newest upload
StartsNewestFirst(up) ==
  {u \in Startable(up) :
     Cardinality({v \in Startable(up) : v > u}) < QueueLimit - ActiveCount(up)}

(***************************************************************************)
(* processSendQueue() walks the rows from the last, the oldest upload, up  *)
(* and starts what is queued until no slot is left.  A bad file stays      *)
(* queued and takes no slot.                                               *)
(***************************************************************************)
ToStart(up) ==
  {u \in Startable(up) :
     Cardinality({v \in Startable(up) : v < u}) < QueueLimit - ActiveCount(up)}

ProcessSendQueue(l) ==
  [l EXCEPT !.up = [u \in DOMAIN @ |-> IF u \in ToStart(l.up) THEN Start(@[u]) ELSE @[u]]]

\* sendFile(); a limit of 0 is none
SendFile(l, file, limit) ==
  LET new == NewUpload(file)
      placed == IF limit > 0 /\ ActiveCount(l.up) >= limit
                THEN SetState(new, "Queued") ELSE Start(new)
  IN  [InsertTransfer(l, Len(l.up) + 1) EXCEPT !.up = Append(@, placed)]

\* sendFile() for one file after the other
SendEach(l, files, limit) ==
  LET after[n \in 0..Len(files)] ==
        IF n = 0 THEN l ELSE SendFile(after[n - 1], files[n], limit)
  IN  after[Len(files)]

(***************************************************************************)
(* Folder sends.  The roots of one send are flattened into the sequence of *)
(* their files; a root that has vanished is one without files.             *)
(***************************************************************************)
NoFolder == [active |-> FALSE, left |-> <<>>]

FilesToSend(files) == Cardinality({i \in DOMAIN files : files[i] # "excluded"})

\* one turn of the loop in processFolderSendBatch(): the next file, for every receiver
BatchTurn(b) ==
  LET file == Head(b.left)
      rest == [b EXCEPT !.left = Tail(@)]
  IN  IF file = "excluded" THEN rest
      ELSE [rest EXCEPT
              !.emitted = @ + 1,
              !.list = SendEach(@, [r \in 1..Receivers |-> file], FolderActiveLimit)]

BatchGoesOn(b) ==
  /\ b.emitted < BatchFiles
  /\ ActiveCount(b.list.up) + QueuedCount(b.list.up) < BacklogLimit

\* the whole loop: it ends when the batch or the backlog is full or no file is left
Batch ==
  LET after[n \in 0..Len(folder.left)] ==
        IF n = 0 THEN [list |-> list, left |-> folder.left, emitted |-> 0]
        ELSE IF after[n - 1].left # <<>> /\ BatchGoesOn(after[n - 1])
        THEN BatchTurn(after[n - 1]) ELSE after[n - 1]
  IN  after[Len(folder.left)]

Init ==
  /\ list = [rows |-> <<>>, current |-> 0, up |-> <<>>]
  /\ folder = NoFolder
  /\ timers = 0
  /\ max \in MaxChoices

-----------------------------------------------------------------------------
(***************************************************************************)
(* The user sends.                                                         *)
(***************************************************************************)

\* room for what a send may still create
Fits(n) == Len(list.up) + Receivers * FilesToSend(folder.left) + n <= MaxUploads

\* selectReceiversAndSendItems(): the files chosen or dropped
SendItems ==
  \E files \in {<<"good">>, <<"bad">>, <<"good", "good">>} :
    /\ Fits(Len(files))
    /\ list' = SendEach(list, files, max)
    /\ UNCHANGED <<folder, timers, max>>

\* startFolderSendEnumeration(): one folder send at a time
StartFolderSend ==
  \E files \in Folders :
    /\ ~folder.active /\ timers < MaxTimers
    /\ Fits(Receivers * FilesToSend(files))
    /\ folder' = [active |-> TRUE, left |-> files]
    /\ timers' = timers + 1
    /\ UNCHANGED <<list, max>>

\* mutant: a batch that finds the backlog full sets up no new shot
StopsAtAFullBacklog ==
  /\ timers > 0
  /\ list' = IF folder.active THEN Batch.list ELSE list
  /\ folder' = IF ~folder.active \/ (Batch.left = <<>> /\ BatchGoesOn(Batch))
               THEN NoFolder ELSE [folder EXCEPT !.left = Batch.left]
  /\ timers' = IF folder'.active /\ BatchGoesOn([Batch EXCEPT !.emitted = 0])
               THEN timers ELSE timers - 1
  /\ UNCHANGED max

(***************************************************************************)
(* processFolderSendBatch(), when a timer shot calls it.  Without a folder *)
(* send the shot is spent; at the end of the scan no new one is set up.    *)
(***************************************************************************)
ProcessFolderSendBatch ==
  /\ timers > 0
  /\ IF ~folder.active
     THEN timers' = timers - 1 /\ UNCHANGED <<list, folder>>
     ELSE /\ list' = Batch.list
          /\ IF Batch.left = <<>> /\ BatchGoesOn(Batch)
             THEN folder' = NoFolder /\ timers' = timers - 1
             ELSE folder' = [folder EXCEPT !.left = Batch.left] /\ UNCHANGED timers
  /\ UNCHANGED max

-----------------------------------------------------------------------------
(***************************************************************************)
(* What the uploads report.  done, errorOcurred and a stateChanged to      *)
(* Cancelled wake the queue.                                               *)
(***************************************************************************)

\* mutant: nobody listens to the uploads
WakesNobody(u, x) == [list EXCEPT !.up[u] = x]

\* the upload becomes x and the queue is processed in the same call
Woken(u, x) == ProcessSendQueue([list EXCEPT !.up[u] = x])

\* Sender::onEncrypted(); a paused upload goes back to the state it was paused in
Connected(u) ==
  /\ list.up[u].link = "connecting" /\ HoldsSlot(list.up[u])
  /\ list' = [list EXCEPT !.up[u] = [SetState(@, "Transfering") EXCEPT !.link = "up"]]
  /\ UNCHANGED <<folder, timers, max>>

\* Sender::completeUpload(); done is emitted even when setState(Finish) was refused
Done(u) ==
  /\ list.up[u].link = "up" /\ HoldsSlot(list.up[u])
  /\ list' = Woken(u, [Settled(SetState(list.up[u], "Finish")) EXCEPT !.link = "over"])
  /\ UNCHANGED <<folder, timers, max>>

\* TransferInfo::fail(), after the last retry or for an error that is not retried
Failed(u) ==
  /\ list.up[u].link \in {"connecting", "up"} /\ HoldsSlot(list.up[u])
  /\ list' = Woken(u, [Settled(Fail(list.up[u])) EXCEPT !.link = "over"])
  /\ UNCHANGED <<folder, timers, max>>

-----------------------------------------------------------------------------
(***************************************************************************)
(* Buttons and menus.                                                      *)
(***************************************************************************)

\* Sender::cancel()
Cancelled(x) ==
  IF CanCancel(x)
  THEN [Settled(SetState(x, "Cancelled")) EXCEPT !.link = IF @ = "none" THEN @ ELSE "over"]
  ELSE x

\* mutant: without mSenderCancelAllActive each cancelled row wakes the queue
CancelsRowByRow ==
  /\ folder' = NoFolder
  /\ list' = FoldLeft(LAMBDA l, u : ProcessSendQueue([l EXCEPT !.up[u] = Cancelled(@)]),
                      list, list.rows)

(***************************************************************************)
(* cancelAllSenderTransfers(): ends the folder send first, then cancels    *)
(* row by row while mSenderCancelAllActive keeps the queue from starting   *)
(* the next one.                                                           *)
(***************************************************************************)
CancelAllSenderTransfers ==
  /\ folder' = NoFolder
  /\ list' = [list EXCEPT !.up = [u \in DOMAIN @ |-> Cancelled(@[u])]]

\* the cancel button cancels everything when a folder is sent or nothing is selected
CancelsAll == folder.active \/ list.current = 0

OnSenderCancelClicked ==
  /\ "cancel" \in Users
  /\ IF CancelsAll THEN CancelAllSenderTransfers
     ELSE LET u == Selected(list)
          IN  /\ CanCancel(list.up[u])
              /\ list' = Woken(u, Cancelled(list.up[u]))
              /\ UNCHANGED folder
  /\ UNCHANGED <<timers, max>>

\* the pause and resume buttons; Sender::pause() and resume() ask canPause(), canResume()
OnSenderPauseClicked ==
  /\ "pause" \in Users /\ list.current # 0
  /\ LET u == Selected(list)
     IN  /\ CanPause(list.up[u])
         /\ list' = [list EXCEPT !.up[u] = SetState(@, "Paused")]
  /\ UNCHANGED <<folder, timers, max>>

OnSenderResumeClicked ==
  /\ "pause" \in Users /\ list.current # 0
  /\ LET u == Selected(list)
     IN  /\ CanResume(list.up[u])
         /\ list' = [list EXCEPT !.up[u] = SetState(@, @.last)]
  /\ UNCHANGED <<folder, timers, max>>

\* rows whose transfers have ended, or never began, and may leave the list
Clearable == {u \in ToSet(list.rows) :
                list.up[u].state \in {"Idle", "Finish", "Failed", "Disconnected", "Cancelled"}}

Delete(l, gone) ==
  [l EXCEPT !.up = [u \in DOMAIN @ |-> IF u \in gone THEN Deleted ELSE @[u]]]

OnSenderClearClicked ==
  /\ "clear" \in Users
  /\ list' = Delete(ClearCompleted(list, Clearable), Clearable)
  /\ UNCHANGED <<folder, timers, max>>

(***************************************************************************)
(* Remove in the context menu, which onSenderPanelContextMenu() enables    *)
(* for the states below.  None of them is ever left, so that what happens  *)
(* while the menu is open does not matter.                                 *)
(***************************************************************************)
RemoveSenderItem ==
  /\ "clear" \in Users /\ list.current # 0
  /\ list.up[Selected(list)].state \in {"Finish", "Cancelled", "Disconnected", "Idle"}
  /\ list' = Delete(RemoveTransfer(list, list.current), {Selected(list)})
  /\ UNCHANGED <<folder, timers, max>>

OnCardClicked ==
  /\ "select" \in Users
  /\ \E i \in DOMAIN list.rows : list' = SetCurrentRow(list, i)
  /\ UNCHANGED <<folder, timers, max>>

\* the settings dialog saves another MaxConcurrentTransfers; nobody is told
SaveSettings ==
  /\ "settings" \in Users
  /\ max' \in MaxChoices
  /\ UNCHANGED <<list, folder, timers>>

-----------------------------------------------------------------------------
UploadSteps(u) == Connected(u) \/ Done(u) \/ Failed(u)

Next ==
  \/ SendItems \/ StartFolderSend \/ ProcessFolderSendBatch
  \/ \E u \in DOMAIN list.up : UploadSteps(u)
  \/ OnSenderCancelClicked \/ OnSenderPauseClicked \/ OnSenderResumeClicked
  \/ OnSenderClearClicked \/ RemoveSenderItem \/ OnCardClicked \/ SaveSettings

Spec == Init /\ [][Next]_vars

(***************************************************************************)
(* A timer shot fires; a connection is made or fails; an upload that is    *)
(* not paused ends, by its idle timer at the latest.  Users owe nothing.   *)
(***************************************************************************)
Runs(u) == u \in DOMAIN list.up /\ list.up[u].state # "Paused" /\ UploadSteps(u)

Fairness ==
  /\ WF_vars(ProcessFolderSendBatch)
  /\ \A u \in 1..MaxUploads : WF_vars(Runs(u))

FairSpec == Spec /\ Fairness

-----------------------------------------------------------------------------
(***************************************************************************)
(* Properties.                                                             *)
(***************************************************************************)

\* every variable has its type, and the list holds each upload once, newest first
TypeOK ==
  /\ list.up \in Seq(Upload) /\ Len(list.up) <= MaxUploads
  /\ list.rows \in Seq(DOMAIN list.up) /\ list.current \in 0..Len(list.rows)
  /\ \A i, j \in DOMAIN list.rows : i < j => list.rows[i] > list.rows[j]
  /\ folder.active \in BOOLEAN /\ folder.left \in Seq({"good", "bad", "excluded"})
  /\ timers \in Nat /\ max \in MaxChoices

(***************************************************************************)
(* Slots (mainwindow.cpp:244, 291): with MaxConcurrentTransfers above 0    *)
(* no step of anybody brings the running uploads above it, though each     *)
(* upload that ends wakes a walk of its own and files are sent directly,   *)
(* by folder batches and from the queue.  Paused uploads keep their slot.  *)
(***************************************************************************)
SlotsWithinLimit ==
  [][max > 0 /\ ActiveCount(list'.up) > ActiveCount(list.up) => ActiveCount(list'.up) <= max]_vars

(***************************************************************************)
(* Cancelling everything (mainwindow.cpp:497) leaves nothing running and   *)
(* nothing queued, makes no connection on the way although every cancelled *)
(* upload reports to the queue, and a batch that is still scheduled sends  *)
(* nothing afterwards.                                                     *)
(***************************************************************************)
CancelAllStopsEverything ==
  [][/\ OnSenderCancelClicked /\ CancelsAll =>
          /\ ~folder'.active
          /\ \A u \in DOMAIN list.up :
               /\ ~HoldsSlot(list'.up[u]) /\ list'.up[u].state # "Queued"
               /\ list.up[u].link = "none" => list'.up[u].link = "none"
     /\ ProcessFolderSendBatch /\ ~folder.active => UNCHANGED list]_vars

(***************************************************************************)
(* The queue is first come, first served (mainwindow.cpp:304): when a      *)
(* queued upload is started, so is every older one that could be.          *)
(***************************************************************************)
OldestFirst ==
  [][\A u, v \in DOMAIN list.up :
       v < u /\ {u, v} \subseteq Startable(list.up) /\ HoldsSlot(list'.up[u]) =>
         list'.up[v].state # "Queued"]_vars

\* an upload that keeps its slot without running: paused, or over with its row still open
Held == \E u \in DOMAIN list.up :
          HoldsSlot(list.up[u]) /\ (list.up[u].state = "Paused" \/ list.up[u].link = "over")

(***************************************************************************)
(* Queued files get their turn (CHANGES.md: excess uploads wait in queue   *)
(* until a slot opens): again and again the queue runs out of good files.  *)
(* With a limit above 0 nothing but a slot that is held, by a paused       *)
(* upload or by one whose end was refused, keeps one in the queue for      *)
(* ever.                                                                   *)
(***************************************************************************)
QueueAdvances == []<>(Startable(list.up) = {} \/ Held)

(***************************************************************************)
(* A folder send comes to the end of its scan (mainwindow.cpp:436), unless *)
(* slots are held or files that cannot be started fill the backlog.        *)
(***************************************************************************)
FolderIsMapped ==
  folder.active ~>
    \/ ~folder.active \/ Held
    \/ Cardinality({u \in DOMAIN list.up : list.up[u].state = "Queued" /\ list.up[u].file = "bad"})
         >= BacklogLimit
=============================================================================
