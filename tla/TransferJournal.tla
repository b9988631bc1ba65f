-------------------------- MODULE TransferJournal --------------------------
(***************************************************************************)
(* The transfer journal (src/src/transfer/transferjournal.cpp), a file     *)
(* that every change reads, rewrites and truncates as a whole; the         *)
(* checkpoints Sender and Receiver put into it; the one use made of it,    *)
(* the fingerprint check before a .part is resumed; and the start of the   *)
(* program (src/src/main.cpp, src/src/singleinstance.cpp), which recovers  *)
(* the journal before it looks for an instance that runs already.          *)
(*                                                                         *)
(* A handler runs to its end within its process, but what it does to the   *)
(* file is a load, a truncation and a write: in between, the process may   *)
(* crash and another one may read and save.  Two processes may run at a    *)
(* time, when both were launched before either listened.  Both upload;     *)
(* only the one that got the transfer port receives, the result of         *)
(* listen() being ignored.                                                 *)
(***************************************************************************)
EXTENDS Integers

CONSTANTS
  Procs,      \* processes the user may launch, numbers above 0
  Downloads,  \* transfer ids of incoming files
  Uploads,    \* transfer ids of outgoing files
  UploadedBy, \* the process each of them is started in
  Versions,   \* the sizes a peer's source file may have, numbers above 0
  MaxLaunches \* bounds the launches

ASSUME JournalAssumption ==
  /\ Procs \subseteq Nat \ {0} /\ Versions \subseteq Nat \ {0}
  /\ Downloads \cap Uploads = {} /\ MaxLaunches \in Nat
  /\ UploadedBy \in [Uploads -> Procs]

VARIABLES
  disk,      \* the journal as loadAll() reads it: an entry, or NoEntry, for each id
  proc,      \* each process: where it is, and the save it is in the middle of
  server,    \* the process that listens under the program's name, 0 for none
  port,      \* the process that listens on the transfer port, 0 for none
  down,      \* incoming files
  part,      \* their .part files: absent (0), of one version, or Mixed
  source,    \* the version the peer would send now
  up,        \* outgoing files
  enabled,   \* JournalEnabled, as each process holds it
  launches,  \* counts launches
  upset      \* history: the journal was discarded, lost, switched off or read half saved

vars == <<disk, proc, server, port, down, part, source, up, enabled, launches, upset>>

transfers == <<down, part, source, up>>

Ids == Downloads \cup Uploads

\* a .part that holds bytes of two versions of the file
Mixed == -1

(***************************************************************************)
(* A journal entry.  bytes tells whether bytesTransferred is above 0; the  *)
(* fingerprint stands for the size of the file (id and path are fixed).    *)
(***************************************************************************)
Entry == [type : {"upload", "download"}, bytes : BOOLEAN, fingerprint : Versions \cup {0}]

NoEntry == [type |-> "none", bytes |-> FALSE, fingerprint |-> 0]

Empty == [id \in Ids |-> NoEntry]

Journal == [Ids -> Entry \cup {NoEntry}]

(***************************************************************************)
(* journalCheckpointDownload(): taken after setState(Transfering), which   *)
(* has just reset bytesTransferred to 0.                                   *)
(***************************************************************************)
DownloadCheckpoint(version) ==
  [type |-> "download", bytes |-> FALSE, fingerprint |-> version]

\* journalCheckpointUpload()
UploadCheckpoint == [type |-> "upload", bytes |-> FALSE, fingerprint |-> 0]

\* saveAll() under way: what it will write, and whether the file is truncated already
NoSave == [step |-> "none", to |-> Empty]

Stage == {"off", "recover", "probe", "start", "running"}

\* p is between two handlers of its event loop
Idle(p) == proc[p].stage = "running" /\ proc[p].save.step = "none"

\* no process is in the middle of a save
Settled == \A p \in Procs : proc[p].save.step = "none"

(***************************************************************************)
(* loadAll().  History only: whoever loads while another process is in the *)
(* middle of a save loads what is about to be replaced, and one of the two *)
(* saves will undo the other.                                              *)
(***************************************************************************)
Loads(p) == upset' = (upset \/ \E q \in Procs \ {p} : proc[q].save.step # "none")

\* saveAll(): with the journal disabled nothing is written
SaveAll(p, entries) ==
  proc' = IF enabled[p] THEN [proc EXCEPT ![p].save = [step |-> "truncate", to |-> entries]]
          ELSE proc

\* mutant: only the new entry is saved
SavesOnlyIts(p, id, entry) == Loads(p) /\ SaveAll(p, [Empty EXCEPT ![id] = entry])

\* upsert(): load, replace or append, save
Upsert(p, id, entry) == Loads(p) /\ SaveAll(p, [disk EXCEPT ![id] = entry])

\* remove(): nothing is saved when the entry is not there
RemoveEntry(p, id) ==
  /\ Loads(p)
  /\ IF disk[id] = NoEntry THEN UNCHANGED proc ELSE SaveAll(p, [disk EXCEPT ![id] = NoEntry])

Init ==
  /\ disk = Empty
  /\ proc = [p \in Procs |-> [stage |-> "off", save |-> NoSave]]
  /\ server = 0 /\ port = 0
  /\ down = [d \in Downloads |-> "none"]
  /\ part = [d \in Downloads |-> 0]
  /\ source \in [Downloads -> Versions]
  /\ up = [u \in Uploads |-> "none"]
  /\ enabled = [p \in Procs |-> TRUE]
  /\ launches = 0
  /\ upset = FALSE

-----------------------------------------------------------------------------
(***************************************************************************)
(* The file.                                                               *)
(***************************************************************************)

\* QFile::open(WriteOnly | Truncate)
Truncate(p) ==
  /\ proc[p].save.step = "truncate"
  /\ disk' = Empty
  /\ proc' = [proc EXCEPT ![p].save.step = "write"]
  /\ UNCHANGED <<server, port, transfers, enabled, launches, upset>>

\* what was written reaches the file when it is closed
Write(p) ==
  /\ proc[p].save.step = "write"
  /\ disk' = proc[p].save.to
  /\ proc' = [proc EXCEPT ![p].save = NoSave]
  /\ UNCHANGED <<server, port, transfers, enabled, launches, upset>>

-----------------------------------------------------------------------------
(***************************************************************************)
(* main().                                                                 *)
(***************************************************************************)
\* the settings are read from where some process has stored them last
Launch(p) ==
  /\ proc[p].stage = "off" /\ launches < MaxLaunches
  /\ proc' = [proc EXCEPT ![p].stage = "recover"]
  /\ \E q \in Procs : enabled' = [enabled EXCEPT ![p] = enabled[q]]
  /\ launches' = launches + 1
  /\ UNCHANGED <<disk, server, port, transfers, upset>>

(***************************************************************************)
(* recoverOnStartup(): uploads and downloads without a .part or without    *)
(* bytes are discarded, and so is what is older than JournalRetentionDays. *)
(***************************************************************************)
Recoverable ==
  {d \in Downloads : disk[d] # NoEntry /\ part[d] # 0 /\ disk[d].bytes}

RecoverOnStartup(p) ==
  /\ proc[p].stage = "recover"
  /\ \E kept \in SUBSET Recoverable :
       proc' = [proc EXCEPT ![p] =
         [stage |-> "probe",
          save |-> IF enabled[p]
                   THEN [step |-> "truncate",
                         to |-> [id \in Ids |-> IF id \in kept THEN disk[id] ELSE NoEntry]]
                   ELSE NoSave]]
  /\ upset' = (upset \/ disk # Empty \/ ~Settled)
  /\ UNCHANGED <<disk, server, port, transfers, enabled, launches>>

\* SingleInstance::hasPreviousInstance(): leave the stage to who has it
HasPreviousInstance(p) ==
  /\ proc[p].stage = "probe" /\ proc[p].save.step = "none"
  /\ proc' = [proc EXCEPT ![p].stage = IF server # 0 THEN "off" ELSE "start"]
  /\ UNCHANGED <<disk, server, port, transfers, enabled, launches, upset>>

(***************************************************************************)
(* SingleInstance::start() takes the name from whoever has it; the main    *)
(* window then listens on the transfer port, and goes on without it when   *)
(* another process has it.                                                 *)
(***************************************************************************)
Start(p) ==
  /\ proc[p].stage = "start"
  /\ proc' = [proc EXCEPT ![p].stage = "running"]
  /\ server' = p
  /\ port' = IF port = 0 THEN p ELSE port
  /\ UNCHANGED <<disk, transfers, enabled, launches, upset>>

\* uploads that have an entry, in an undisturbed journal
HasEntry(u) == up[u] \in {"running", "retrying", "undead", "cancelled"}

\* what becomes of upload u when process p is gone
Abandoned(p, u) ==
  IF UploadedBy[u] # p \/ up[u] = "none" THEN up[u]
  ELSE IF HasEntry(u) \/ up[u] = "left" THEN "left" ELSE "ended"

(***************************************************************************)
(* The process is gone: quit from its event loop, or killed anywhere.  Its *)
(* transfers stop where they are and leave the entries they have.          *)
(***************************************************************************)
Stop(p) ==
  /\ proc[p].stage # "off"
  /\ proc' = [proc EXCEPT ![p] = [stage |-> "off", save |-> NoSave]]
  /\ server' = IF server = p THEN 0 ELSE server
  /\ port' = IF port = p THEN 0 ELSE port
  /\ down' = [d \in Downloads |->
                IF port = p /\ down[d] = "receiving" THEN "broken" ELSE down[d]]
  /\ up' = [u \in Uploads |-> Abandoned(p, u)]
  /\ upset' = (upset \/ proc[p].save.step # "none")
  /\ UNCHANGED <<disk, part, source, enabled, launches>>

-----------------------------------------------------------------------------
(***************************************************************************)
(* Downloads (receiver.cpp).                                               *)
(***************************************************************************)

\* the sender retries with a file that has changed meanwhile
SourceChanges(d) ==
  /\ source' \in {[source EXCEPT ![d] = v] : v \in Versions}
  /\ down[d] # "receiving"
  /\ UNCHANGED <<disk, proc, server, port, down, part, up, enabled, launches, upset>>

\* mutant: the fingerprint is not looked at
AnyPart(d) == IF part[d] = source[d] THEN {part[d]} ELSE {0, part[d]}

(***************************************************************************)
(* The .part that processHeaderPacket() goes on with: one as large as the  *)
(* file, which only an other version can be, is removed, and so is one     *)
(* whose fingerprint in the journal differs.                               *)
(***************************************************************************)
PartsToResume(d) ==
  IF disk[d] # NoEntry /\ disk[d].fingerprint # source[d] THEN {0}
  ELSE IF part[d] = source[d] THEN {part[d]}
  ELSE {0, part[d]}

\* processHeaderPacket(): a new Receiver resumes the .part and takes its checkpoint
Header(p, d) ==
  /\ down[d] \in {"none", "broken"}
  /\ \E old \in PartsToResume(d) :
       part' = [part EXCEPT ![d] = IF old \in {0, source[d]} THEN old ELSE Mixed]
  /\ down' = [down EXCEPT ![d] = "receiving"]
  /\ Upsert(p, d, DownloadCheckpoint(source[d]))
  /\ UNCHANGED <<disk, server, port, source, up, enabled, launches>>

\* refused for space or file, when a useless .part has been removed already
HeaderRefused(p, d) ==
  /\ down[d] = "broken" /\ 0 \in PartsToResume(d)
  /\ part' = [part EXCEPT ![d] = 0]
  /\ Loads(p)
  /\ UNCHANGED <<disk, proc, server, port, down, source, up, enabled, launches>>

\* processDataPacket() takes no checkpoint
Data(d) ==
  /\ down[d] = "receiving" /\ part[d] = 0
  /\ part' = [part EXCEPT ![d] = source[d]]
  /\ UNCHANGED <<disk, proc, server, port, down, source, up, enabled, launches, upset>>

\* a download that is received becomes s; its .part becomes left
Ends(d, s, left) ==
  /\ down[d] = "receiving"
  /\ down' = [down EXCEPT ![d] = s]
  /\ part' = [part EXCEPT ![d] = left]
  /\ UNCHANGED <<disk, server, port, source, up, enabled, launches>>

\* mutant: a finished download is not removed from the journal
KeepsItsEntry(p, d) == Ends(d, "over", 0) /\ UNCHANGED <<proc, upset>>

\* finalizeDownload() renames the .part and removes the entry
FinalizeDownload(p, d) == Ends(d, "over", 0) /\ RemoveEntry(p, d)

\* Receiver::cancel(), the user's, removes both
CancelDownload(p, d) == Ends(d, "over", 0) /\ RemoveEntry(p, d)

\* processCancelPacket(), the sender's, leaves the entry there for ever
CancelPacket(d) == Ends(d, "cancelled", 0) /\ UNCHANGED <<proc, upset>>

\* so do processFinishPacket() when the digest differs, and failDownloadWrite();
\* their Cancel packet may be lost with the connection, and the sender retry
ChecksumFailed(d) == Ends(d, "broken", 0) /\ UNCHANGED <<proc, upset>>

WriteFails(d) == Ends(d, "broken", 0) /\ UNCHANGED <<proc, upset>>

\* onDisconnected(), the idle timer, a rename that fails: the .part is kept
DownloadBreaks(d) == Ends(d, "broken", part[d]) /\ UNCHANGED <<proc, upset>>

-----------------------------------------------------------------------------
(***************************************************************************)
(* Uploads (sender.cpp).  An upload that fails while its retry is          *)
(* scheduled still retries ("undead").                                     *)
(***************************************************************************)
SetUp(u, s) == up' = [up EXCEPT ![u] = s]

\* connectTransferSocket(), first and again: checkpoint Waiting
Connect(p, u) ==
  /\ \/ up[u] \in {"none", "retrying"} /\ SetUp(u, "running")
     \/ up[u] = "failed" /\ SetUp(u, "undead")
  /\ Upsert(p, u, UploadCheckpoint)
  /\ UNCHANGED <<disk, server, port, down, part, source, enabled, launches>>

\* onDisconnected() with an attempt left: checkpoint Disconnected
Lost(p, u) ==
  /\ up[u] = "running" /\ SetUp(u, "retrying")
  /\ Upsert(p, u, UploadCheckpoint)
  /\ UNCHANGED <<disk, server, port, down, part, source, enabled, launches>>

\* completeUpload(), processCancelPacket(), and errorOcurred after fail()
UploadEnds(p, u) ==
  /\ \/ up[u] = "running" /\ SetUp(u, "ended")
     \/ up[u] = "retrying" /\ SetUp(u, "failed")
  /\ RemoveEntry(p, u)
  /\ UNCHANGED <<disk, server, port, down, part, source, enabled, launches>>

\* Sender::cancel() does not touch the journal
CancelUpload(u) ==
  /\ up[u] \in {"running", "retrying"} /\ SetUp(u, "cancelled")
  /\ UNCHANGED <<disk, proc, server, port, down, part, source, enabled, launches, upset>>

-----------------------------------------------------------------------------
\* the settings dialog
SetJournalEnabled(p) ==
  /\ enabled' = [enabled EXCEPT ![p] = ~@]
  /\ upset' = TRUE
  /\ UNCHANGED <<disk, proc, server, port, transfers, launches>>

DownloadSteps(p, d) ==
  \/ Header(p, d) \/ HeaderRefused(p, d) \/ Data(d)
  \/ FinalizeDownload(p, d) \/ CancelDownload(p, d)
  \/ CancelPacket(d) \/ ChecksumFailed(d) \/ WriteFails(d) \/ DownloadBreaks(d)

UploadSteps(p, u) == Connect(p, u) \/ Lost(p, u) \/ UploadEnds(p, u) \/ CancelUpload(u)

\* what the event loop of p does
Handles(p) ==
  /\ Idle(p)
  /\ \/ port = p /\ \E d \in Downloads : DownloadSteps(p, d)
     \/ \E u \in Uploads : UploadedBy[u] = p /\ UploadSteps(p, u)
     \/ SetJournalEnabled(p)

Next ==
  \/ \E p \in Procs : Truncate(p) \/ Write(p) \/ Launch(p) \/ RecoverOnStartup(p)
                      \/ HasPreviousInstance(p) \/ Start(p) \/ Stop(p) \/ Handles(p)
  \/ \E d \in Downloads : SourceChanges(d)

Spec == Init /\ [][Next]_vars

-----------------------------------------------------------------------------
(***************************************************************************)
(* Properties.                                                             *)
(***************************************************************************)

\* every variable has its type
TypeOK ==
  /\ disk \in Journal
  /\ proc \in [Procs -> [stage : Stage,
                         save : [step : {"none", "truncate", "write"}, to : Journal]]]
  /\ {server, port} \subseteq Procs \cup {0}
  /\ down \in [Downloads -> {"none", "receiving", "broken", "over", "cancelled"}]
  /\ part \in [Downloads -> Versions \cup {0, Mixed}] /\ source \in [Downloads -> Versions]
  /\ up \in [Uploads -> {"none", "running", "retrying", "failed", "undead", "cancelled",
                         "ended", "left"}]
  /\ enabled \in [Procs -> BOOLEAN] /\ launches \in 0..MaxLaunches /\ upset \in BOOLEAN

(***************************************************************************)
(* The fingerprint check (receiver.cpp:413): a retry whose file has        *)
(* changed is not appended to the .part of the old file, as long as the    *)
(* journal has not been upset.                                             *)
(***************************************************************************)
NoMixedPart == ~upset => \A d \in Downloads : part[d] # Mixed

(***************************************************************************)
(* Journal j and the downloads: those received, broken off or failed have  *)
(* an entry under the version of their .part, those their sender cancelled *)
(* have one without a .part, and no others have one.                       *)
(***************************************************************************)
JournalsDownloads(j) ==
  \A d \in Downloads :
    /\ down[d] = "receiving" =>
         j[d] = DownloadCheckpoint(source[d]) /\ part[d] \in {0, source[d]}
    /\ down[d] = "broken" =>
         \E v \in Versions : j[d] = DownloadCheckpoint(v) /\ part[d] \in {0, v}
    /\ down[d] \in {"none", "over", "cancelled"} => part[d] = 0
    /\ j[d] = NoEntry <=> down[d] \in {"none", "over"}

\* and the uploads: those that have not finished or failed, cancelled ones included
JournalsUploads(j) ==
  \A u \in Uploads :
    /\ j[u] \in {NoEntry, UploadCheckpoint}
    /\ j[u] = NoEntry <=> up[u] \in {"none", "failed", "ended"}

(***************************************************************************)
(* Checkpoints and their removal (transferjournal.cpp:145-225): whenever   *)
(* no save is under way the file has an entry for exactly the transfers    *)
(* that the code keeps there, two processes and their crashes              *)
(* notwithstanding, as long as no launch has discarded entries, no process *)
(* died in the middle of a save, none loaded in the middle of another's,   *)
(* and the journal was not switched.                                       *)
(***************************************************************************)
JournalFollowsTransfers ==
  ~upset /\ Settled => JournalsDownloads(disk) /\ JournalsUploads(disk)

=============================================================================
