------------------------ MODULE TransferJournalProofs ------------------------
(***************************************************************************)
(* Proofs about TransferJournal: its type invariant and its safety         *)
(* properties, for any number of processes, transfers and versions.        *)
(***************************************************************************)
EXTENDS TransferJournal, TLAPS

\* j has an entry for exactly the transfers that the code keeps in the journal
Follows(j) == JournalsDownloads(j) /\ JournalsUploads(j)

(***************************************************************************)
(* What the file is, or will be once a save that is under way is done.     *)
(***************************************************************************)
Coming(j) ==
  \/ Settled /\ j = disk
  \/ \E p \in Procs : proc[p].save.step # "none" /\ j = proc[p].save.to

\* as long as the journal has not been upset
JournalInv ==
  ~upset => /\ \A p \in Procs : enabled[p]
            /\ \A j \in Journal : Coming(j) => Follows(j)

-----------------------------------------------------------------------------
(***************************************************************************)
(* Types.                                                                  *)
(***************************************************************************)

Proc == [stage : Stage, save : [step : {"none", "truncate", "write"}, to : Journal]]

Downloading == {"none", "receiving", "broken", "over", "cancelled"}

Uploading ==
  {"none", "running", "retrying", "failed", "undead", "cancelled", "ended", "left"}

\* a checkpoint is an entry, and no entry looks like the absence of one
LEMMA EntriesAreEntries ==
  NoEntry \notin Entry /\ UploadCheckpoint \in Entry
  BY DEF NoEntry, Entry, UploadCheckpoint

LEMMA CheckpointOf ==
  ASSUME NEW v \in Versions
  PROVE  /\ DownloadCheckpoint(v) \in Entry /\ DownloadCheckpoint(v) # NoEntry
         /\ DownloadCheckpoint(v).fingerprint = v
  BY DEF NoEntry, Entry, DownloadCheckpoint

LEMMA EmptyJournal == Empty \in Journal /\ \A id \in Ids : Empty[id] = NoEntry
  BY DEF Empty, Journal

LEMMA NoSaveType == NoSave \in [step : {"none", "truncate", "write"}, to : Journal]
  BY EmptyJournal DEF NoSave

\* a save replaces the save of its process only
LEMMA SaveAllType ==
  ASSUME TypeOK, NEW p \in Procs, NEW to \in Journal, SaveAll(p, to)
  PROVE  proc' \in [Procs -> Proc]
  BY DEF TypeOK, SaveAll, Proc

LEMMA UpsertType ==
  ASSUME TypeOK, NEW p \in Procs, NEW id \in Ids, NEW entry \in Entry, Upsert(p, id, entry)
  PROVE  proc' \in [Procs -> Proc]
<1>1. [disk EXCEPT ![id] = entry] \in Journal
  BY DEF TypeOK, Journal
<1> QED BY <1>1, SaveAllType DEF Upsert

LEMMA RemoveEntryType ==
  ASSUME TypeOK, NEW p \in Procs, NEW id \in Ids, RemoveEntry(p, id)
  PROVE  proc' \in [Procs -> Proc]
<1>1. [disk EXCEPT ![id] = NoEntry] \in Journal
  BY DEF TypeOK, Journal
<1> QED BY <1>1, SaveAllType DEF RemoveEntry, TypeOK, Proc

LEMMA InitType == ASSUME JournalAssumption, Init PROVE TypeOK
<1>1. proc \in [Procs -> Proc]
  BY NoSaveType DEF Init, Proc, Stage
<1>2. launches \in 0..MaxLaunches
  BY DEF Init, JournalAssumption
<1> QED BY <1>1, <1>2, EmptyJournal DEF Init, TypeOK, Proc

LEMMA ProcessStepType ==
  ASSUME TypeOK, JournalAssumption, NEW p \in Procs,
         \/ Truncate(p) \/ Write(p) \/ Launch(p) \/ RecoverOnStartup(p)
         \/ HasPreviousInstance(p) \/ Start(p) \/ Stop(p)
  PROVE  TypeOK'
<1> USE DEF TypeOK, transfers
<1>1. CASE Truncate(p)
  <2>1. proc' \in [Procs -> Proc] BY <1>1 DEF Truncate, Proc
  <2> QED BY <1>1, <2>1, EmptyJournal DEF Truncate, Proc
<1>2. CASE Write(p)
  <2>1. proc' \in [Procs -> Proc] BY <1>2, NoSaveType DEF Write, Proc
  <2> QED BY <1>2, <2>1 DEF Write, Proc
<1>3. CASE Launch(p)
  <2>1. proc' \in [Procs -> Proc] BY <1>3 DEF Launch, Proc, Stage
  <2>2. launches' \in 0..MaxLaunches BY <1>3, JournalAssumption DEF Launch, JournalAssumption
  <2>3. enabled' \in [Procs -> BOOLEAN] BY <1>3 DEF Launch
  <2> QED BY <1>3, <2>1, <2>2, <2>3 DEF Launch, Proc
<1>4. CASE RecoverOnStartup(p)
  <2>1. PICK kept \in SUBSET Recoverable :
          proc' = [proc EXCEPT ![p] =
            [stage |-> "probe",
             save |-> IF enabled[p]
                      THEN [step |-> "truncate",
                            to |-> [id \in Ids |-> IF id \in kept THEN disk[id] ELSE NoEntry]]
                      ELSE NoSave]]
    BY <1>4 DEF RecoverOnStartup
  <2>2. [id \in Ids |-> IF id \in kept THEN disk[id] ELSE NoEntry] \in Journal
    BY DEF Journal
  <2>3. proc' \in [Procs -> Proc] BY <2>1, <2>2, NoSaveType DEF Proc, Stage
  <2> QED BY <1>4, <2>3 DEF RecoverOnStartup, Proc
<1>5. CASE HasPreviousInstance(p)
  <2>1. proc' \in [Procs -> Proc] BY <1>5 DEF HasPreviousInstance, Proc, Stage
  <2> QED BY <1>5, <2>1 DEF HasPreviousInstance, Proc
<1>6. CASE Start(p)
  <2>1. proc' \in [Procs -> Proc] BY <1>6 DEF Start, Proc, Stage
  <2> QED BY <1>6, <2>1 DEF Start, Proc
<1>7. CASE Stop(p)
  <2>1. proc' \in [Procs -> Proc] BY <1>7, NoSaveType DEF Stop, Proc, Stage
  <2>2. down' \in [Downloads -> Downloading] /\ up' \in [Uploads -> Uploading]
    BY <1>7 DEF Stop, Abandoned, Downloading, Uploading
  <2> QED BY <1>7, <2>1, <2>2 DEF Stop, Proc, Downloading, Uploading
<1> QED BY <1>1, <1>2, <1>3, <1>4, <1>5, <1>6, <1>7

LEMMA DownloadStepType ==
  ASSUME TypeOK, NEW p \in Procs, NEW d \in Downloads, DownloadSteps(p, d)
  PROVE  TypeOK'
<1> USE DEF TypeOK
<1>0. d \in Ids BY DEF Ids
<1>1. CASE Header(p, d)
  <2>1. DownloadCheckpoint(source[d]) \in Entry BY CheckpointOf
  <2>2. proc' \in [Procs -> Proc] /\ upset' \in BOOLEAN
    BY <1>0, <1>1, <2>1, UpsertType DEF Header, Upsert, Loads
  <2>3. part' \in [Downloads -> Versions \cup {0, Mixed}]
    <3>1. PICK old \in PartsToResume(d) :
            part' = [part EXCEPT ![d] = IF old \in {0, source[d]} THEN old ELSE Mixed]
      BY <1>1 DEF Header
    <3> QED BY <3>1
  <2>4. down' \in [Downloads -> Downloading] BY <1>1 DEF Header, Downloading
  <2> QED BY <1>1, <2>2, <2>3, <2>4 DEF Header, Proc, Downloading
<1>2. CASE HeaderRefused(p, d)
  <2>1. upset' \in BOOLEAN BY <1>2 DEF HeaderRefused, Loads
  <2> QED BY <1>2, <2>1 DEF HeaderRefused
<1>3. CASE Data(d)
  BY <1>3 DEF Data
<1>4. ASSUME NEW s \in Downloading, Ends(d, s, 0) \/ Ends(d, s, part[d]),
             RemoveEntry(p, d) \/ UNCHANGED <<proc, upset>>
      PROVE  TypeOK'
  <2>1. proc' \in [Procs -> Proc]
    BY <1>0, <1>4, RemoveEntryType DEF Proc
  <2>2. upset' \in BOOLEAN BY <1>4 DEF RemoveEntry, Loads
  <2>3. down' \in [Downloads -> Downloading] BY <1>4 DEF Ends, Downloading
  <2>4. part' \in [Downloads -> Versions \cup {0, Mixed}] BY <1>4 DEF Ends
  <2> QED BY <1>4, <2>1, <2>2, <2>3, <2>4 DEF Ends, Proc, Downloading
<1>5. CASE FinalizeDownload(p, d) \/ CancelDownload(p, d)
  BY <1>4, <1>5 DEF FinalizeDownload, CancelDownload, Downloading
<1>6. CASE CancelPacket(d) \/ ChecksumFailed(d) \/ WriteFails(d) \/ DownloadBreaks(d)
  BY <1>4, <1>6 DEF CancelPacket, ChecksumFailed, WriteFails, DownloadBreaks, Downloading
<1> QED BY <1>1, <1>2, <1>3, <1>5, <1>6 DEF DownloadSteps

LEMMA UploadStepType ==
  ASSUME TypeOK, NEW p \in Procs, NEW u \in Uploads, UploadSteps(p, u)
  PROVE  TypeOK'
<1> USE DEF TypeOK
<1>0. u \in Ids BY DEF Ids
<1>1. up' \in [Uploads -> Uploading]
  BY DEF UploadSteps, Connect, Lost, UploadEnds, CancelUpload, SetUp, Uploading
<1>2. proc' \in [Procs -> Proc] /\ upset' \in BOOLEAN
  <2>1. CASE Upsert(p, u, UploadCheckpoint)
    BY <1>0, <2>1, EntriesAreEntries, UpsertType DEF Upsert, Loads
  <2>2. CASE RemoveEntry(p, u)
    BY <1>0, <2>2, RemoveEntryType DEF RemoveEntry, Loads
  <2>3. CASE UNCHANGED <<proc, upset>>
    BY <2>3 DEF Proc
  <2> QED BY <2>1, <2>2, <2>3 DEF UploadSteps, Connect, Lost, UploadEnds, CancelUpload
<1> QED BY <1>1, <1>2 DEF UploadSteps, Connect, Lost, UploadEnds, CancelUpload, Proc, Uploading

(***************************************************************************)
(* Every variable keeps its type, the number of launches its bound.        *)
(***************************************************************************)
THEOREM TypeCorrect == Spec => []TypeOK
<1>1. Init => TypeOK BY InitType, JournalAssumption
<1>2. TypeOK /\ [Next]_vars => TypeOK'
  <2> SUFFICES ASSUME TypeOK, [Next]_vars PROVE TypeOK' OBVIOUS
  <2>1. CASE UNCHANGED vars BY <2>1 DEF vars, TypeOK
  <2>2. ASSUME NEW p \in Procs,
               \/ Truncate(p) \/ Write(p) \/ Launch(p) \/ RecoverOnStartup(p)
               \/ HasPreviousInstance(p) \/ Start(p) \/ Stop(p)
        PROVE  TypeOK'
    BY <2>2, ProcessStepType, JournalAssumption
  <2>3. ASSUME NEW p \in Procs, Handles(p) PROVE TypeOK'
    <3>1. CASE SetJournalEnabled(p)
      BY <3>1 DEF SetJournalEnabled, TypeOK, transfers
    <3> QED BY <2>3, <3>1, DownloadStepType, UploadStepType DEF Handles
  <2>4. ASSUME NEW d \in Downloads, SourceChanges(d) PROVE TypeOK'
    BY <2>4 DEF SourceChanges, TypeOK
  <2> QED BY <2>1, <2>2, <2>3, <2>4 DEF Next
<1> QED BY <1>1, <1>2, PTL DEF Spec

-----------------------------------------------------------------------------
(***************************************************************************)
(* The file: what a step makes of what is coming.                          *)
(***************************************************************************)

\* there is always something that the file will be
LEMMA SomethingComes == ASSUME TypeOK PROVE \E j \in Journal : Coming(j)
<1>1. CASE Settled BY <1>1 DEF Coming, TypeOK
<1>2. CASE ~Settled
  <2>1. PICK p \in Procs : proc[p].save.step # "none" BY <1>2 DEF Settled
  <2> QED BY <2>1 DEF Coming, TypeOK
<1> QED BY <1>1, <1>2

\* whoever loads between two handlers, and upsets nothing, loads what is there to stay
LEMMA LoadsIt ==
  ASSUME TypeOK, JournalInv, NEW p \in Procs, Idle(p), Loads(p), ~upset'
  PROVE  /\ Settled /\ enabled[p] /\ disk \in Journal
         /\ \A j \in Journal : j = disk => Follows(j)
<1>1. Settled /\ ~upset BY DEF Idle, Loads, Settled
<1>2. disk \in Journal BY DEF TypeOK
<1>3. \A j \in Journal : j = disk => Coming(j) BY <1>1 DEF Coming
<1> QED BY <1>1, <1>2, <1>3 DEF JournalInv

\* and what it saves is what comes
LEMMA SavesIt ==
  ASSUME TypeOK, NEW p \in Procs, Settled, enabled[p],
         NEW to \in Journal, SaveAll(p, to), NEW j, Coming(j)'
  PROVE  j = to
<1>1. /\ proc'[p].save = [step |-> "truncate", to |-> to]
      /\ \A q \in Procs \ {p} : proc'[q] = proc[q]
  BY DEF TypeOK, SaveAll
<1>2. \A q \in Procs \ {p} : proc'[q].save.step = "none" BY <1>1 DEF Settled
<1>3. ~Settled' BY <1>1 DEF Settled
<1> QED BY <1>1, <1>2, <1>3 DEF Coming

LEMMA UpsertsIt ==
  ASSUME TypeOK, JournalInv, NEW p \in Procs, Idle(p), ~upset',
         NEW id \in Ids, NEW entry \in Entry, Upsert(p, id, entry), NEW j, Coming(j)'
  PROVE  j = [disk EXCEPT ![id] = entry]
<1>1. Settled /\ disk \in Journal /\ enabled[p] BY LoadsIt DEF Upsert
<1>2. [disk EXCEPT ![id] = entry] \in Journal BY <1>1 DEF Journal
<1> QED BY <1>1, <1>2, SavesIt DEF Upsert

LEMMA RemovesIt ==
  ASSUME TypeOK, JournalInv, NEW p \in Procs, Idle(p), ~upset', disk' = disk,
         NEW id \in Ids, RemoveEntry(p, id), NEW j, Coming(j)'
  PROVE  j = [disk EXCEPT ![id] = NoEntry]
<1>1. Settled /\ disk \in Journal /\ enabled[p] BY LoadsIt DEF RemoveEntry
<1>2. [disk EXCEPT ![id] = NoEntry] \in Journal BY <1>1 DEF Journal
<1>3. CASE disk[id] = NoEntry
  <2>1. [disk EXCEPT ![id] = NoEntry] = disk BY <1>1, <1>3 DEF Journal
  <2>2. proc' = proc BY <1>3 DEF RemoveEntry
  <2> QED BY <1>1, <2>1, <2>2 DEF Coming, Settled
<1>4. CASE disk[id] # NoEntry
  BY <1>1, <1>2, <1>4, SavesIt DEF RemoveEntry
<1> QED BY <1>3, <1>4

\* a step that leaves the saves and the file alone leaves what is coming alone
LEMMA SameComes ==
  ASSUME UNCHANGED <<disk, proc>>, NEW j, Coming(j)' PROVE Coming(j)
  BY DEF Coming, Settled

\* so do truncation and writing, the steps of a launch, and the end of an idle process
LEMMA ProcessStepComes ==
  ASSUME TypeOK, NEW p \in Procs, NEW j, Coming(j)',
         \/ Truncate(p) \/ Write(p) \/ Launch(p) \/ HasPreviousInstance(p) \/ Start(p)
         \/ Stop(p) /\ ~upset'
  PROVE  Coming(j)
<1>1. \A q \in Procs \ {p} : proc'[q] = proc[q]
  BY DEF TypeOK, Truncate, Write, Launch, HasPreviousInstance, Start, Stop
<1>2. CASE Truncate(p)
  <2>1. proc'[p].save.step = "write" /\ proc'[p].save.to = proc[p].save.to
    BY <1>2 DEF TypeOK, Truncate
  <2>2. ~Settled' BY <2>1 DEF Settled
  <2> QED BY <1>1, <1>2, <2>1, <2>2 DEF Coming, Truncate
<1>3. CASE Write(p)
  <2>1. proc'[p].save.step = "none" BY <1>3 DEF TypeOK, Write, NoSave
  <2> QED BY <1>1, <1>3, <2>1 DEF Coming, Write
<1>4. CASE Launch(p) \/ HasPreviousInstance(p) \/ Start(p)
  <2>1. proc'[p].save = proc[p].save /\ disk' = disk
    BY <1>4 DEF TypeOK, Launch, HasPreviousInstance, Start
  <2> QED BY <1>1, <2>1 DEF Coming, Settled
<1>5. CASE Stop(p) /\ ~upset'
  <2>1. proc[p].save.step = "none" /\ proc'[p].save.step = "none" /\ disk' = disk
    BY <1>5 DEF TypeOK, Stop, NoSave
  <2> QED BY <1>1, <2>1 DEF Coming, Settled
<1> QED BY <1>2, <1>3, <1>4, <1>5

-----------------------------------------------------------------------------
(***************************************************************************)
(* The transfers: a journal that follows them still does after a step, or  *)
(* does once the step's own change to it is made.                          *)
(***************************************************************************)

LEMMA VersionsAreFiles ==
  ASSUME JournalAssumption PROVE \A v \in Versions : v # 0 /\ v # Mixed
  BY DEF JournalAssumption, Mixed

LEMMA SameTransfers ==
  ASSUME NEW j, Follows(j), UNCHANGED transfers PROVE Follows(j)'
  BY DEF Follows, JournalsDownloads, JournalsUploads, transfers, DownloadCheckpoint

LEMMA StopFollows ==
  ASSUME TypeOK, NEW p \in Procs, Stop(p), NEW j, Follows(j)
  PROVE  Follows(j)'
<1>1. /\ UNCHANGED <<part, source>>
      /\ \A d \in Downloads :
            down'[d] = IF port = p /\ down[d] = "receiving" THEN "broken" ELSE down[d]
      /\ \A u \in Uploads : up'[u] = Abandoned(p, u)
  BY DEF Stop
<1>2. JournalsDownloads(j)'
  <2> SUFFICES ASSUME NEW d \in Downloads
               PROVE  /\ down'[d] = "receiving" =>
                           j[d] = DownloadCheckpoint(source[d]) /\ part[d] \in {0, source[d]}
                      /\ down'[d] = "broken" =>
                           \E v \in Versions : j[d] = DownloadCheckpoint(v) /\ part[d] \in {0, v}
                      /\ down'[d] \in {"none", "over", "cancelled"} => part[d] = 0
                      /\ j[d] = NoEntry <=> down'[d] \in {"none", "over"}
    BY <1>1 DEF JournalsDownloads, DownloadCheckpoint
  <2>1. CASE port = p /\ down[d] = "receiving"
    <3>1. source[d] \in Versions BY DEF TypeOK
    <3>2. down'[d] = "broken" BY <1>1, <2>1
    <3> QED BY <2>1, <3>1, <3>2 DEF Follows, JournalsDownloads
  <2>2. CASE ~(port = p /\ down[d] = "receiving")
    BY <1>1, <2>2 DEF Follows, JournalsDownloads
  <2> QED BY <2>1, <2>2
<1>3. JournalsUploads(j)'
  BY <1>1 DEF Follows, JournalsUploads, Abandoned, HasEntry, UploadCheckpoint, TypeOK
<1> QED BY <1>2, <1>3 DEF Follows

\* a step on download d, with what it makes of d and of its entry
LEMMA OneDownload ==
  ASSUME JournalAssumption, TypeOK, NEW d \in Downloads, NEW j \in Journal, Follows(j),
         NEW k \in Journal, \A id \in Ids \ {d} : k[id] = j[id], UNCHANGED <<source, up>>,
         \A e \in Downloads \ {d} : down'[e] = down[e] /\ part'[e] = part[e],
         down'[d] = "receiving" =>
           k[d] = DownloadCheckpoint(source[d]) /\ part'[d] \in {0, source[d]},
         down'[d] = "broken" =>
           \E v \in Versions : k[d] = DownloadCheckpoint(v) /\ part'[d] \in {0, v},
         down'[d] \in {"none", "over", "cancelled"} => part'[d] = 0,
         k[d] = NoEntry <=> down'[d] \in {"none", "over"}
  PROVE  Follows(k)'
<1>1. JournalsDownloads(k)'
  <2> SUFFICES ASSUME NEW e \in Downloads
               PROVE  /\ down'[e] = "receiving" =>
                           k[e] = DownloadCheckpoint(source[e]) /\ part'[e] \in {0, source[e]}
                      /\ down'[e] = "broken" =>
                           \E v \in Versions : k[e] = DownloadCheckpoint(v) /\ part'[e] \in {0, v}
                      /\ down'[e] \in {"none", "over", "cancelled"} => part'[e] = 0
                      /\ k[e] = NoEntry <=> down'[e] \in {"none", "over"}
    BY DEF JournalsDownloads, DownloadCheckpoint
  <2>1. CASE e = d BY <2>1
  <2>2. CASE e # d
    <3>1. k[e] = j[e] /\ down'[e] = down[e] /\ part'[e] = part[e] BY <2>2 DEF Ids
    <3> QED BY <3>1 DEF Follows, JournalsDownloads
  <2> QED BY <2>1, <2>2
<1>2. JournalsUploads(k)'
  <2>1. \A u \in Uploads : k[u] = j[u] BY DEF Ids, JournalAssumption
  <2> QED BY <2>1 DEF Follows, JournalsUploads, UploadCheckpoint
<1> QED BY <1>1, <1>2 DEF Follows

\* the fingerprint check: what is resumed is of the version the peer sends
LEMMA HeaderFollows ==
  ASSUME JournalAssumption, TypeOK, NEW p \in Procs, NEW d \in Downloads,
         Header(p, d), NEW j \in Journal, j = disk, Follows(j),
         NEW k, k = [disk EXCEPT ![d] = DownloadCheckpoint(source[d])]
  PROVE  Follows(k)'
<1>1. source[d] \in Versions /\ disk \in Journal BY DEF TypeOK
<1>2. DownloadCheckpoint(source[d]) \in Entry /\ DownloadCheckpoint(source[d]) # NoEntry
  BY <1>1, CheckpointOf
<1>3. PICK old \in PartsToResume(d) :
        part' = [part EXCEPT ![d] = IF old \in {0, source[d]} THEN old ELSE Mixed]
  BY DEF Header
<1>4. old \in {0, source[d]}
  <2>1. CASE down[d] = "none"
    BY <1>3, <2>1 DEF PartsToResume, Follows, JournalsDownloads
  <2>2. CASE down[d] = "broken"
    <3>1. PICK v \in Versions : disk[d] = DownloadCheckpoint(v) /\ part[d] \in {0, v}
      BY <2>2 DEF Follows, JournalsDownloads
    <3>2. disk[d].fingerprint = v /\ disk[d] # NoEntry BY <3>1, CheckpointOf
    <3> QED BY <1>3, <3>1, <3>2 DEF PartsToResume
  <2> QED BY <2>1, <2>2 DEF Header
<1>5. /\ part'[d] \in {0, source[d]} /\ down'[d] = "receiving"
      /\ \A e \in Downloads \ {d} : part'[e] = part[e] /\ down'[e] = down[e]
      /\ UNCHANGED <<source, up>>
  BY <1>3, <1>4 DEF Header, TypeOK
<1>6. /\ k \in Journal /\ k[d] = DownloadCheckpoint(source[d])
      /\ \A id \in Ids \ {d} : k[id] = j[id]
  BY <1>1, <1>2 DEF Journal, Ids
<1> QED BY <1>1, <1>2, <1>5, <1>6, OneDownload, ZenonT(60)

\* a step of download d that loads nothing
LEMMA DownloadFollows ==
  ASSUME JournalAssumption, TypeOK, NEW p \in Procs, NEW d \in Downloads,
         \/ HeaderRefused(p, d) \/ Data(d) \/ CancelPacket(d) \/ ChecksumFailed(d)
         \/ WriteFails(d) \/ DownloadBreaks(d),
         NEW j \in Journal, Follows(j)
  PROVE  Follows(j)'
<1>1. /\ \A e \in Downloads \ {d} : part'[e] = part[e] /\ down'[e] = down[e]
      /\ UNCHANGED <<source, up>>
  BY DEF HeaderRefused, Data, CancelPacket, ChecksumFailed, WriteFails, DownloadBreaks,
         Ends, TypeOK
<1>2. source[d] \in Versions BY DEF TypeOK
<1>3. DownloadCheckpoint(source[d]) # NoEntry BY <1>2, CheckpointOf
<1>4. CASE HeaderRefused(p, d)
  <2>1. /\ down'[d] = "broken" /\ part'[d] = 0
        /\ \E v \in Versions : j[d] = DownloadCheckpoint(v) /\ part[d] \in {0, v}
    BY <1>4 DEF HeaderRefused, TypeOK, Follows, JournalsDownloads
  <2>2. j[d] # NoEntry BY <2>1, CheckpointOf
  <2> QED BY <1>1, <2>1, <2>2, OneDownload
<1>5. CASE ~HeaderRefused(p, d)
  <2>1. down[d] = "receiving" BY <1>5 DEF Data, CancelPacket, ChecksumFailed, WriteFails,
                                          DownloadBreaks, Ends
  <2>2. j[d] = DownloadCheckpoint(source[d]) /\ part[d] \in {0, source[d]}
    BY <2>1 DEF Follows, JournalsDownloads
  <2>3. \/ down'[d] = "receiving" /\ part'[d] = source[d]
        \/ down'[d] = "cancelled" /\ part'[d] = 0
        \/ down'[d] = "broken" /\ part'[d] \in {0, part[d]}
    BY <1>5, <2>1 DEF Data, CancelPacket, ChecksumFailed, WriteFails, DownloadBreaks,
                      Ends, TypeOK
  <2>4. down'[d] = "broken" =>
          \E v \in Versions : j[d] = DownloadCheckpoint(v) /\ part'[d] \in {0, v}
    BY <1>2, <2>2, <2>3
  <2> QED BY <1>1, <1>3, <2>2, <2>3, <2>4, OneDownload
<1> QED BY <1>4, <1>5

\* finalizeDownload() and the user's cancel
LEMMA OverFollows ==
  ASSUME JournalAssumption, TypeOK, NEW d \in Downloads, Ends(d, "over", 0),
         NEW j \in Journal, j = disk, Follows(j), NEW k, k = [disk EXCEPT ![d] = NoEntry]
  PROVE  Follows(k)'
<1>1. /\ \A e \in Downloads \ {d} : part'[e] = part[e] /\ down'[e] = down[e]
      /\ UNCHANGED <<source, up>> /\ down'[d] = "over" /\ part'[d] = 0
  BY DEF Ends, TypeOK
<1>2. disk \in Journal BY DEF TypeOK
<1>3. k \in Journal /\ k[d] = NoEntry /\ \A id \in Ids \ {d} : k[id] = j[id]
  BY <1>2 DEF Journal, Ids
<1> QED BY <1>1, <1>3, OneDownload, ZenonT(60)

LEMMA SourceChangesFollows ==
  ASSUME TypeOK, NEW d \in Downloads, SourceChanges(d), NEW j, Follows(j)
  PROVE  Follows(j)'
<1>1. /\ down[d] # "receiving" /\ \A e \in Downloads \ {d} : source'[e] = source[e]
      /\ UNCHANGED <<down, part, up>>
  BY DEF SourceChanges, TypeOK
<1> QED BY <1>1 DEF Follows, JournalsDownloads, JournalsUploads, DownloadCheckpoint,
                     UploadCheckpoint

\* a step on upload u, with what it makes of u and of its entry
LEMMA OneUpload ==
  ASSUME JournalAssumption, TypeOK, NEW u \in Uploads, NEW j \in Journal, Follows(j),
         NEW k \in Journal, \A id \in Ids \ {u} : k[id] = j[id],
         UNCHANGED <<down, part, source>>, \A v \in Uploads \ {u} : up'[v] = up[v],
         k[u] \in {NoEntry, UploadCheckpoint},
         k[u] = NoEntry <=> up'[u] \in {"none", "failed", "ended"}
  PROVE  Follows(k)'
<1>1. JournalsDownloads(k)'
  <2>1. \A d \in Downloads : k[d] = j[d] BY DEF Ids, JournalAssumption
  <2> QED BY <2>1 DEF Follows, JournalsDownloads, DownloadCheckpoint
<1>2. JournalsUploads(k)'
  <2>1. \A v \in Uploads \ {u} : k[v] = j[v] BY DEF Ids
  <2> QED BY <2>1 DEF Follows, JournalsUploads, UploadCheckpoint
<1> QED BY <1>1, <1>2 DEF Follows

LEMMA UpFollows ==
  ASSUME JournalAssumption, TypeOK, NEW p \in Procs, NEW u \in Uploads,
         Connect(p, u) \/ Lost(p, u), NEW j \in Journal, j = disk, Follows(j),
         NEW k, k = [disk EXCEPT ![u] = UploadCheckpoint]
  PROVE  Follows(k)'
<1>1. /\ up'[u] \in {"running", "retrying", "undead"} /\ UNCHANGED <<down, part, source>>
      /\ \A v \in Uploads \ {u} : up'[v] = up[v]
  BY DEF Connect, Lost, SetUp, TypeOK
<1>2. UploadCheckpoint # NoEntry /\ UploadCheckpoint \in Entry BY EntriesAreEntries
<1>3. disk \in Journal BY DEF TypeOK
<1>4. k \in Journal /\ k[u] = UploadCheckpoint /\ \A id \in Ids \ {u} : k[id] = j[id]
  BY <1>2, <1>3 DEF Journal, Ids
<1> QED BY <1>1, <1>2, <1>4, OneUpload, ZenonT(60)

LEMMA UploadEndsFollows ==
  ASSUME JournalAssumption, TypeOK, NEW p \in Procs, NEW u \in Uploads,
         UploadEnds(p, u), NEW j \in Journal, j = disk, Follows(j),
         NEW k, k = [disk EXCEPT ![u] = NoEntry]
  PROVE  Follows(k)'
<1>1. /\ up'[u] \in {"ended", "failed"} /\ UNCHANGED <<down, part, source>>
      /\ \A v \in Uploads \ {u} : up'[v] = up[v]
  BY DEF UploadEnds, SetUp, TypeOK
<1>2. disk \in Journal BY DEF TypeOK
<1>3. k \in Journal /\ k[u] = NoEntry /\ \A id \in Ids \ {u} : k[id] = j[id]
  BY <1>2 DEF Journal, Ids
<1> QED BY <1>1, <1>3, OneUpload, ZenonT(60)

LEMMA CancelUploadFollows ==
  ASSUME JournalAssumption, TypeOK, NEW u \in Uploads, CancelUpload(u),
         NEW j \in Journal, Follows(j)
  PROVE  Follows(j)'
<1>1. /\ up[u] \in {"running", "retrying"} /\ up'[u] = "cancelled"
      /\ UNCHANGED <<down, part, source>> /\ \A v \in Uploads \ {u} : up'[v] = up[v]
  BY DEF CancelUpload, SetUp, TypeOK
<1>2. j[u] \in {NoEntry, UploadCheckpoint} /\ j[u] # NoEntry
  BY <1>1 DEF Follows, JournalsUploads
<1> QED BY <1>1, <1>2, OneUpload

-----------------------------------------------------------------------------
(***************************************************************************)
(* The invariant.                                                          *)
(***************************************************************************)

LEMMA InitJournal == ASSUME JournalAssumption, Init PROVE JournalInv
<1>1. \A j : Coming(j) => j = Empty BY DEF Init, Coming, NoSave
<1>2. Follows(Empty)
  BY EmptyJournal DEF Init, Follows, JournalsDownloads, JournalsUploads, Ids
<1>3. \A p \in Procs : enabled[p] BY DEF Init
<1> QED BY <1>1, <1>2, <1>3 DEF JournalInv

\* a launch that discards nothing saves what was there, an empty journal
LEMMA RecoverKeeps ==
  ASSUME TypeOK, JournalInv, NEW p \in Procs, RecoverOnStartup(p), ~upset',
         NEW j \in Journal, Coming(j)'
  PROVE  Follows(j)'
<1>1. disk = Empty /\ Settled /\ ~upset /\ disk' = disk /\ enabled[p]
  BY DEF RecoverOnStartup, JournalInv
<1>2. Recoverable = {} BY <1>1, EmptyJournal DEF Recoverable, Ids
<1>3. proc' = [proc EXCEPT ![p] =
                [stage |-> "probe", save |-> [step |-> "truncate", to |-> Empty]]]
  BY <1>1, <1>2 DEF RecoverOnStartup, Empty
<1>4. /\ proc'[p].save = [step |-> "truncate", to |-> Empty]
      /\ \A q \in Procs \ {p} : proc'[q] = proc[q]
  BY <1>3 DEF TypeOK
<1>5. j = Empty
  <2>1. \A q \in Procs \ {p} : proc'[q].save.step = "none" BY <1>1, <1>4 DEF Settled
  <2>2. ~Settled' BY <1>4 DEF Settled
  <2> QED BY <1>4, <2>1, <2>2 DEF Coming
<1>6. Follows(j)
  <2>1. Coming(Empty) /\ Empty \in Journal BY <1>1, EmptyJournal DEF Coming
  <2> QED BY <1>1, <1>5, <2>1 DEF JournalInv
<1> QED BY <1>6, SameTransfers DEF RecoverOnStartup

LEMMA ProcessStepKeeps ==
  ASSUME TypeOK, JournalInv, NEW p \in Procs, ~upset', NEW j \in Journal, Coming(j)',
         \/ Truncate(p) \/ Write(p) \/ Launch(p) \/ HasPreviousInstance(p) \/ Start(p)
         \/ Stop(p)
  PROVE  Follows(j)'
<1>1. ~upset BY DEF Truncate, Write, Launch, HasPreviousInstance, Start, Stop
<1>2. Follows(j) BY <1>1, ProcessStepComes DEF JournalInv
<1>3. CASE Stop(p) BY <1>2, <1>3, StopFollows
<1>4. CASE ~Stop(p)
  <2>1. UNCHANGED transfers
    BY <1>4 DEF Truncate, Write, Launch, HasPreviousInstance, Start
  <2> QED BY <1>2, <2>1, SameTransfers
<1> QED BY <1>3, <1>4

LEMMA DownloadStepKeeps ==
  ASSUME JournalAssumption, TypeOK, JournalInv, NEW p \in Procs, Idle(p), ~upset',
         NEW d \in Downloads, DownloadSteps(p, d), NEW j \in Journal, Coming(j)'
  PROVE  Follows(j)'
<1>0. d \in Ids BY DEF Ids
<1>1. CASE Header(p, d)
  <2>1. source[d] \in Versions BY DEF TypeOK
  <2>2. DownloadCheckpoint(source[d]) \in Entry BY <2>1, CheckpointOf
  <2>3. Upsert(p, d, DownloadCheckpoint(source[d])) BY <1>1 DEF Header
  <2>4. PICK i \in Journal : i = disk /\ Follows(i) BY <2>3, LoadsIt DEF Upsert
  <2>5. j = [disk EXCEPT ![d] = DownloadCheckpoint(source[d])]
    BY <1>0, <2>2, <2>3, UpsertsIt
  <2> QED BY <1>1, <2>4, <2>5, HeaderFollows
<1>2. CASE FinalizeDownload(p, d) \/ CancelDownload(p, d)
  <2>1. Ends(d, "over", 0) /\ RemoveEntry(p, d)
    BY <1>2 DEF FinalizeDownload, CancelDownload
  <2>2. disk' = disk BY <2>1 DEF Ends
  <2>3. PICK i \in Journal : i = disk /\ Follows(i) BY <2>1, LoadsIt DEF RemoveEntry
  <2>4. j = [disk EXCEPT ![d] = NoEntry] BY <1>0, <2>1, <2>2, RemovesIt
  <2> QED BY <2>1, <2>3, <2>4, OverFollows
<1>3. CASE \/ HeaderRefused(p, d) \/ Data(d) \/ CancelPacket(d) \/ ChecksumFailed(d)
           \/ WriteFails(d) \/ DownloadBreaks(d)
  <2>1. UNCHANGED <<disk, proc>> /\ ~upset
    <3>1. CASE HeaderRefused(p, d) BY <3>1 DEF HeaderRefused, Loads
    <3>2. CASE \/ Data(d) \/ CancelPacket(d) \/ ChecksumFailed(d) \/ WriteFails(d)
               \/ DownloadBreaks(d)
      BY <3>2 DEF Data, CancelPacket, ChecksumFailed, WriteFails, DownloadBreaks, Ends
    <3> QED BY <1>3, <3>1, <3>2
  <2>2. Follows(j) BY <2>1, SameComes DEF JournalInv
  <2> QED BY <1>3, <2>2, DownloadFollows
<1> QED BY <1>1, <1>2, <1>3 DEF DownloadSteps

LEMMA UploadStepKeeps ==
  ASSUME JournalAssumption, TypeOK, JournalInv, NEW p \in Procs, Idle(p), ~upset',
         NEW u \in Uploads, UploadSteps(p, u), NEW j \in Journal, Coming(j)'
  PROVE  Follows(j)'
<1>0. u \in Ids BY DEF Ids
<1>1. CASE Connect(p, u) \/ Lost(p, u)
  <2>1. Upsert(p, u, UploadCheckpoint) /\ disk' = disk BY <1>1 DEF Connect, Lost
  <2>2. PICK i \in Journal : i = disk /\ Follows(i) BY <2>1, LoadsIt DEF Upsert
  <2>3. j = [disk EXCEPT ![u] = UploadCheckpoint]
    BY <1>0, <2>1, UpsertsIt, EntriesAreEntries
  <2> QED BY <1>1, <2>2, <2>3, UpFollows
<1>2. CASE UploadEnds(p, u)
  <2>1. RemoveEntry(p, u) /\ disk' = disk BY <1>2 DEF UploadEnds
  <2>2. PICK i \in Journal : i = disk /\ Follows(i) BY <2>1, LoadsIt DEF RemoveEntry
  <2>3. j = [disk EXCEPT ![u] = NoEntry] BY <1>0, <2>1, RemovesIt
  <2> QED BY <1>2, <2>2, <2>3, UploadEndsFollows
<1>3. CASE CancelUpload(u)
  <2>1. UNCHANGED <<disk, proc, upset>> BY <1>3 DEF CancelUpload
  <2>2. Follows(j) BY <2>1, SameComes DEF JournalInv
  <2> QED BY <1>3, <2>2, CancelUploadFollows
<1> QED BY <1>1, <1>2, <1>3 DEF UploadSteps

\* once the journal has been upset it stays so
LEMMA UpsetStays == ASSUME [Next]_vars, ~upset' PROVE ~upset
  BY DEF Next, vars, Truncate, Write, Launch, RecoverOnStartup, HasPreviousInstance, Start,
         Stop, Handles, DownloadSteps, UploadSteps, Header, HeaderRefused, Data, Ends,
         FinalizeDownload, CancelDownload, CancelPacket, ChecksumFailed, WriteFails,
         DownloadBreaks, Connect, Lost, UploadEnds, CancelUpload, Upsert, RemoveEntry, Loads,
         SourceChanges, SetJournalEnabled

LEMMA NextJournal ==
  ASSUME JournalAssumption, TypeOK, JournalInv, [Next]_vars
  PROVE  JournalInv'
<1> SUFFICES ASSUME ~upset'
             PROVE  /\ \A p \in Procs : enabled'[p]
                    /\ \A j \in Journal : Coming(j)' => Follows(j)'
  BY DEF JournalInv, Journal, Entry, Ids, NoEntry
<1>0. ~upset /\ \A p \in Procs : enabled[p] BY UpsetStays DEF JournalInv
<1>1. \A p \in Procs : enabled'[p]
  <2>1. CASE UNCHANGED enabled BY <1>0, <2>1
  <2>2. ASSUME NEW p \in Procs, Launch(p) PROVE \A q \in Procs : enabled'[q]
    BY <1>0, <2>2 DEF Launch, TypeOK
  <2> QED BY <2>1, <2>2 DEF Next, vars, Truncate, Write, RecoverOnStartup,
       HasPreviousInstance, Start, Stop, Handles, DownloadSteps, UploadSteps, Header,
       HeaderRefused, Data, Ends, FinalizeDownload, CancelDownload, CancelPacket,
       ChecksumFailed, WriteFails, DownloadBreaks, Connect, Lost, UploadEnds, CancelUpload,
       SourceChanges, SetJournalEnabled
<1>2. ASSUME NEW j \in Journal, Coming(j)' PROVE Follows(j)'
  <2>1. CASE UNCHANGED vars
    <3>1. Follows(j) BY <1>0, <1>2, <2>1, SameComes DEF vars, JournalInv
    <3>2. UNCHANGED transfers BY <2>1 DEF vars, transfers
    <3> QED BY <3>1, <3>2, SameTransfers
  <2>2. ASSUME NEW p \in Procs,
               \/ Truncate(p) \/ Write(p) \/ Launch(p) \/ HasPreviousInstance(p)
               \/ Start(p) \/ Stop(p)
        PROVE  Follows(j)'
    BY <1>2, <2>2, ProcessStepKeeps
  <2>3. ASSUME NEW p \in Procs, RecoverOnStartup(p) PROVE Follows(j)'
    BY <1>2, <2>3, RecoverKeeps
  <2>4. ASSUME NEW p \in Procs, Handles(p) PROVE Follows(j)'
    <3>1. Idle(p) /\ ~SetJournalEnabled(p) BY <2>4 DEF Handles, SetJournalEnabled
    <3> QED BY <1>2, <2>4, <3>1, DownloadStepKeeps, UploadStepKeeps DEF Handles
  <2>5. ASSUME NEW d \in Downloads, SourceChanges(d) PROVE Follows(j)'
    <3>1. Follows(j) BY <1>0, <1>2, <2>5, SameComes DEF SourceChanges, JournalInv
    <3> QED BY <2>5, <3>1, SourceChangesFollows
  <2> QED BY <2>1, <2>2, <2>3, <2>4, <2>5 DEF Next
<1> QED BY <1>1, <1>2

(***************************************************************************)
(* Two processes and their crashes notwithstanding: the file, or the file  *)
(* once a save under way is done, has an entry for exactly the transfers   *)
(* the code keeps there, until the journal is upset (see                   *)
(* JournalFollowsTransfers).                                               *)
(***************************************************************************)
THEOREM JournalIsKnown == Spec => []JournalInv
<1>1. Init => JournalInv BY InitJournal, JournalAssumption
<1>2. TypeOK /\ JournalInv /\ [Next]_vars => JournalInv' BY NextJournal, JournalAssumption
<1> QED BY <1>1, <1>2, TypeCorrect, PTL DEF Spec

(***************************************************************************)
(* The fingerprint check (receiver.cpp:413): until the journal is upset,   *)
(* no .part holds bytes of two versions of its file.                       *)
(***************************************************************************)
THEOREM PartsAreNotMixed == Spec => []NoMixedPart
<1>1. TypeOK /\ JournalInv => NoMixedPart
  <2> SUFFICES ASSUME TypeOK, JournalInv, ~upset, NEW d \in Downloads PROVE part[d] # Mixed
    BY DEF NoMixedPart
  <2>1. PICK j \in Journal : Coming(j) BY SomethingComes
  <2>2. JournalsDownloads(j) BY <2>1 DEF JournalInv, Follows
  <2>3. source[d] \in Versions /\ down[d] \in Downloading BY DEF TypeOK, Downloading
  <2>4. part[d] = 0 \/ part[d] \in Versions BY <2>2, <2>3 DEF JournalsDownloads, Downloading
  <2> QED BY <2>4, VersionsAreFiles, JournalAssumption DEF Mixed
<1> QED BY <1>1, JournalIsKnown, TypeCorrect, PTL

(***************************************************************************)
(* Checkpoints and their removal (transferjournal.cpp:145-225): whenever   *)
(* no save is under way and the journal has not been upset, the file has   *)
(* an entry for exactly the transfers the code keeps there.                *)
(***************************************************************************)
THEOREM TheJournalFollows == Spec => []JournalFollowsTransfers
<1>1. TypeOK /\ JournalInv => JournalFollowsTransfers
  BY DEF TypeOK, JournalInv, Coming, Follows, JournalFollowsTransfers
<1> QED BY <1>1, JournalIsKnown, TypeCorrect, PTL
=============================================================================
