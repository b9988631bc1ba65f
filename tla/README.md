# LAN Share: specification and verification

This directory holds TLA+ models of LAN Share (`src/src`), the TLC
configurations that check them, and proofs that TLAPS checks. LAN Share sends
files between computers of one network: a sender connects to the peer's
transfer port, sends a JSON header, learns from an `OffsetAck` how much of the
file the peer already has, streams the rest, sends `Finish` with the SHA-256,
and waits for a finish ack. The receiver writes `<name>.part` and renames it.

Contents: [inventory](#1-inventory), [plan](#2-plan), [modules](#3-modules),
[model](#4-how-the-model-corresponds-to-the-code), [runs](#5-runs),
[proofs](#6-proofs), [what the code does otherwise](#7-where-the-code-departs-from-what-is-said-of-it),
[limits](#8-what-is-not-modelled).

## 1. Inventory

| Component | State it keeps | Operations | Interacts with | Modules |
|---|---|---|---|---|
| **Transfer state machine** `model/transferinfo.cpp` | `mState`, `mLastState`, attempt, progress | `setState`, `fail`, `canPause/Resume/Cancel` | owned by each `Sender` and `Receiver`; its signals drive the queue and the UI | `TransferInfo` |
| **Sender** `transfer/sender.cpp` | socket, file position, bytes remaining, hash, eight control flags, four timers | `start`, `retryConnect`, `pause/resume/cancel`, one handler per socket signal, packet and timer | Receiver by packets; queue by signals; journal by checkpoints | `TransferProtocol`, `FileDelivery` |
| **Receiver** `transfer/receiver.cpp` | socket, file handle, bytes read, hash, verification flags | handlers of header, data, finish, cancel; user buttons | Sender by packets; the download folder; the registry `gTransferRegistry`; journal | `TransferProtocol`, `TransferServer` |
| **Parallel streams** in sender/receiver | data sockets, chunk offsets, deferred Finish | `setupDataSockets`, `sendStripedData`, `adoptDataSocket`, `handleStripedPayload` | server and registry (attach connections) | `StripedTransfer` |
| **Packet framing** `transfer/transfer.cpp` | read buffer, size of the packet being read, idle timer | `onReadyRead`, `consumeNextPacket`, `writePacket`, `onIdleTimeout` | base class of both endpoints | `PacketFraming`, `PacketStream` |
| **Transfer server** `transfer/transferserver.cpp` | all Receivers ever made, the registry | admit or reject a connection, start a Receiver, attach a data socket | creates Receivers; caps downloads | `TransferServer` |
| **Send queue** `ui/mainwindow.cpp` | rows, folder enumeration, cancel-all flag | `sendFile`, `processSendQueue`, folder batches, `cancelAllSenderTransfers` | starts Senders; reacts to their signals | `SendQueue` |
| **Transfer table** `model/transfertablemodel.cpp`, `ui/transferlistpanel.cpp` | rows, cards, the selected one | insert, remove, clear | buttons and menus of both lists act on its rows | `TransferTable` |
| **Transfer journal** `transfer/transferjournal.cpp` | a JSON file of checkpoints | `upsert`, `remove`, `recoverOnStartup` | Sender, Receiver, `main` | `TransferJournal` |
| **Single instance** `singleinstance.cpp`, `main.cpp` | a local server | probe, listen | journal: startup order | `TransferJournal` |
| **TLS trust** `transfer/tlshelper.cpp`, `ui/tlstrustdialog.cpp` | pinned certificates, own key and certificate | trust on first use, generate, export, import | Sender's `onEncrypted` | `TlsTrust`, `Neighbours` |
| **Device discovery** `devicebroadcaster.cpp`, `devicelistmodel.cpp` | list of devices | broadcast, receive, refresh, choose | the address an upload goes to | `Neighbours` |
| **Settings** `settings.cpp`, `ui/settingsdialog.cpp` | live values, stored values, the panel's fields | enter, save, reset, load | everything | `Settings`, `Neighbours` |
| **User interface**, **logging and utilities** | widgets, log files | buttons, menus, dialogs; formatting | everything | actions of the modules above; the rest is not modelled |

Everything of one process runs in one Qt event loop, so a handler is atomic
except where it spins the loop itself (`setupDataSockets`). What interleaves
are the event loops of the two peers, the network between them, their timers
and their users.

What makes each component correct, and what is hard about it:

* **Transfer protocol** (Sender, Receiver): the delivered file is the sender's,
  whole; a lost connection is retried and continues where the receiver is; what
  is finished, cancelled or failed stays so; every transfer ends. Hard: a
  Receiver of a broken connection lives on beside its successor and both share
  one file name; three pause sources and five flags decide whether a chunk may
  be sent; `setState` refuses silently.
* **Transfer server**: at most `MaxConcurrentDownloads` downloads, every slot
  comes back, data sockets reach the Receiver of the current attempt. Hard:
  attach connections are counted too, deleted Receivers are still looked at, and
  the registry is keyed by an id that a retry reuses.
* **Send queue**: at most `MaxConcurrentTransfers` uploads run; every queued
  file is started or cancelled, the oldest first. Hard: slots are freed by
  signals in the middle of the walk that reads them; a folder is fed in batches
  that outlive its cancellation.
* **Transfer table**: the selected row is the row of the selected card.
* **Journal**: running transfers are in it, finished and failed ones are not, and
  a `.part` is only continued with the file it began with. Hard: a second
  instance, which uploads too; a write that is not atomic; ends of a transfer
  that forget its entry.
* **Parallel streams**: chunks arrive in any order, the file is complete when
  it is finalized. Hard: Finish overtakes data; pause and break tear sockets
  down in mid-file; the set-up spins the event loop.
* **Framing**: any split of the byte stream yields the same packets.
* **Neighbours** (discovery, trust, settings): a file goes to the peer chosen or
  to nobody; the list catches up with the network; key and certificate match;
  live settings are the stored ones. Hard: addresses move, peers restart with a
  new id, files are written in two steps and only their existence is tested.

`PROJECT.json` lists the hazards line by line with the properties that cover
them.

## 2. Plan

Done, in this order: the transfer over a single stream with its abstract
specification; the queue; the server with its registry; the journal; parallel
streams; framing, refining a stream of packets; the device among its
neighbours. The types and the safety properties are proved (section 6).

Left, in the order of what it would add:

1. a refinement of `FileDelivery` by `StripedTransfer`;
2. the composition of `SendQueue` with `TransferProtocol` in place of the
   upload stages it abstracts, and of `TransferServer` with `StripedTransfer`;
3. source files that change during a transfer, and several network interfaces.

## 3. Modules

* `TransferInfo`: `setState`, `fail` and the button predicates as operators on
  any record with `state` and `last`.
* `TransferProtocol`: one upload, its Sender, up to `RetryMax + 1` connections
  and the Receiver of each, the `.part` and the final file, the users and the
  network. Parameters: number of chunks, retries, the three settings that change
  the protocol (`VerifyChecksum`, `ResumePartialDownloads`, `TlsEnabled`), a
  bound on packets, and the set of events the environment may cause.
* `FileDelivery`: what the transfer promises: the file appears whole or not at
  all, once; an upload shown as finished was delivered; an outcome is final.
* `StripedTransfer`: the same upload over data sockets: the stack of nested
  calls of `setupDataSockets`, chunks in each socket, the `.part` with its holes,
  the deferred Finish, falling back to the single stream, a retry.
* `TransferServer`: all connections to one server: admission, busy answers,
  Receivers with their registry entries, attach connections, the list of
  downloads with its buttons and the "delete file" dialog.
* `SendQueue`: all uploads of one window: direct sends, the queue, folder sends,
  cancel-all, buttons and menus. It and `TransferServer` use `TransferTable`.
* `TransferJournal`: the file, the saves of each process, launches, crashes, the
  uploads of every process and the downloads of the one that got the transfer
  port.
* `PacketFraming`: the two read loops over bytes that arrive in any portions;
  `PacketStream` is what they implement.
* `Neighbours`: one device among its peers, on top of the operators of
  `Settings` and `TlsTrust`.
* `MC...`: the instances TLC checks: named sets of events, folders, sizes and
  scenarios.
* `...Proofs`: theorems and their lemmas, section 6.

How they fit: `PacketFraming` justifies the queues of packets that
`TransferProtocol` and `StripedTransfer` use as connections; `TransferProtocol`
has several Receivers of one upload where `StripedTransfer` has one;
`TransferServer` sees many uploads and of each only what admission and registry
look at; `SendQueue` sees an upload as its state and a stage of its connection;
`TransferJournal` sees a transfer as the checkpoints it takes.

## 4. How the model corresponds to the code

### TransferProtocol

**Objects.** `snd` is the Sender: every member that its control flow reads is a
field (`mBytesRemaining` is `remaining`, `mFile->pos()` is `pos`, the range of
the file in `mHash` is `hashFrom + 1 .. pos`). `rcv[a]` is the Receiver that the
server made for connection `a`; `got` is what it counts in `mBytesRead` and
hashes. Connection `a` is the one of attempt `a`: `retryConnect` makes a new
socket for each.

**Actions.** An action is one callback of the event loop with all it calls. A
handler that only computes on members is an operator from the record to the next
record (`ScheduleSend`, `OnDisconnected`, `ApplyOffsetAck`), so that the actions
compose them as the code does. `disconnectFromHost()` on an open socket emits
`disconnected` synchronously when nothing is left to write; the actions that call
it include the handler.

**Files.** `part` and `final` are the two directory entries; a Receiver's `file`
says which entry its open handle stands for. Removing an entry leaves the handle
open on no entry, renaming keeps it, as POSIX does. So a stale Receiver really
can write into, or remove, the file of its successor. Chunks are numbered from
1; chunk 0 is one of some other file.

**Network.** A connection is two FIFO queues. `Break` may cut a suffix of each;
the two ends notice independently and in any order, the Receiver perhaps long
after the Sender has connected again.

**Digest.** `Finish` carries which prefix its SHA-256 leaves out; the Receiver
compares it with the content it has. Equal digests are taken for equal content.

Abstractions, each with its reason:

* progress acks are left out (they only change numbers on display), and so are
  journal checkpoints (`TransferJournal`) and the registry (`TransferServer`);
* an `OffsetAck` offset outside `0 .. size` and a fingerprint mismatch cannot
  come from this Receiver for this Sender, so their branches are left out;
* the source file does not change during the transfer;
* without `.part` files `ReplaceExistingFile` is assumed, so that retries meet
  under one name;
* a chunk is larger than QFile's buffer and thus written through;
* an empty Data packet at the end of the file is not put into the queue;
* `SenderEncrypted` includes the `bytesWritten` that Qt emits in the same call;
* bytes written may be reported after the answer to them has arrived, which the
  code permits only across a loop turn: the model has more behaviours;
* an idle timer fires only when nothing waits to be read, since every read
  starts it anew, and its period (at least seconds) is far longer than a loop turn;
* the retry delay (`TransferRetryBaseMs`, at least 100 ms) outlasts the packets
  of the old connection; its Receiver may still be alive;
* `MaxQueue` bounds how many pause and resume packets the receiving user can put
  in front of an unread queue, the only unbounded source of packets.

**Fairness** (`FairSpec`). Weak fairness of the callbacks of both event loops:
connected or refused, encrypted, readable, written, disconnected, and each timer
that runs. A socket that is readable stays so until read, and a timer that has
been started fires unless it is stopped, so weak fairness is what the loops
give. Users, disks, and the network breaking a connection have none.

### StripedTransfer

`snd` and `rcv` are the two objects as above, with the striped members
(`mNextStripedOffset` is `next`, `mStripedSocketIndex` is `index`,
`mActiveStreams` is `active`). `setup` is the stack of calls of
`setupDataSockets()` under way, each with the number of sockets it has opened:
while it is not empty every handler of the Sender may run, a nested
`sendStripedData()` included, and the innermost call returns first. `pumps` and
`stripers` count the pending single shots of the two pumps. A chunk in a data
socket carries the position it is written to and the chunk that was read, which
need not be the same. `part` maps positions to chunks, 0 is a hole, and its size
is the highest position that is not one. Chunks of different sockets arrive in
any order.

Left out because `TransferProtocol` has it: busy answers and late OffsetAcks on
the control connection, and a Receiver that outlives the next connection. The
retry delay outlasts the single shots of a few milliseconds; only the event
`slowAttach` lets a retry come in the middle of a set-up. `MaxClicks` bounds
pauses and resumes, `MaxSockets` the data sockets ever opened. Fairness: the
steps of each peer as a whole (its event loop runs while it has something to
do), and the idle timers.

### TransferServer

`rec` is `mReceivers`, which is never pruned, so a Receiver is known by its
index; `deleted` marks those whose object is gone. What `activeDownloadCount()`
reads in a deleted one is undefined: the model counts any subset of them.
`role` is what the first packet makes of a Receiver: a download, or the proxy of
an attach connection, which loses its socket and stays in Waiting. `socket` is
"closing" from `disconnectFromHost()` to `disconnected()`, which comes by an
action of its own (`OnDisconnected`). The ways to end differ in what they do to
registry and socket. `finalizeDownload()`, `failDownloadWrite()` and
`processCancelPacket()` leave the registry at once and hang up (`EndsWith`);
`failTransfer()`, a checksum that differs and a refused header hang up and leave
the registry when the connection is over (`FailTransfer`, `BadPacket`); a packet
too large on a data socket fails the download and does neither
(`OversizeStripedPacket`), and no more does the receiving user's cancel. `Over`
and `Left` reset what is not looked at any more in a Receiver that has ended
(`mLastState`, its data sockets) or left the registry (its id). The state of the
download's data is not looked at. Fairness: the idle timer of each Receiver
(`TransferIdleTimeoutMs` above 0; with 0 the slots need not come back).

### SendQueue

`list.up[u]` is upload `u` in order of creation, with the state of its
`TransferInfo` and the stage of its connection; `folder` holds the files still
to be enumerated, `timers` the pending single shots of
`processFolderSendBatch()`, some of which belong to a send that was cancelled
since. The walk over the rows is one operator, `ToStart`; the walks that nested
signals start see the states the outer one has already set. Everything the
upload does by itself is `Connected`, `Done` and `Failed`; lost connections and
retries stay in the stage `up`. `kFolderSendBatchFiles` and the limits of active
and waiting files are constants. Fairness: the timer, and that an upload which is
not paused gets on and ends, which is what `TransferProtocol` shows of it.

### TransferJournal

An entry is reduced to its type, whether bytes are above 0, and the fingerprint.
`saveAll()` is two steps (`Truncate`, `Write`), since the file is opened with
truncation before it is written: in between the process may be killed, and
another process reads an empty journal. A handler that checkpoints is one step
that leaves its save pending; nothing else of that process happens before the save
is done, and so the two saves of a connection that is lost and fails in one go
are one. Launching is three steps in the order of `main()`: recover the journal,
probe for another instance, start. `Start` listens on the transfer port if it is
free; `MainWindow` ignores the result (`mainwindow.cpp:117`), so a process without
the port uploads all the same and saves into the same file. `port` is who
receives.

A download is `broken` when it may come back under its id: its connection broke,
it failed its checksum, or its disk did, and the Cancel packet that says so may be
lost. It is `cancelled` when its sender said so, and `over` when it finished or its
user cancelled it. Only the last two remove the entry. An upload is `undead` when
it failed with its retry scheduled and the retry ran. There is one Receiver of an id
at a time here, `ResumePartialDownloads` is on, and what a `.part` holds is one
version of the file, or `Mixed`.

`upset` is a history variable: it turns true when a launch discards entries, a
process dies in the middle of a save, one loads while another is in the middle of
a save, or the journal is switched on or off. Until then `JournalFollowsTransfers`
says what is in the file: an entry for each download that is received, broken or
cancelled by its sender, under the version of its `.part`, one for each upload
that runs, retries or was cancelled, and no other. That is what the code does; it
is not what `CHANGES.md:794` says of cancelled transfers (section 7).

### PacketFraming

Bytes are known by packet and place; `size` is `mPacketSize`, -1 when none has
been read; `looping` says that the slot is in its loop, which is what lets
`ReadyRead` append in between only as the code does. A data socket starts with a
reader of its own that hands the socket over, without its buffer. The peer waits
for the attach ack before it writes, as `setupDataSockets()` does. Fairness:
bytes on their way arrive, and the slot runs to its end.

### Neighbours

One device runs the program in full; peers are what it sees of them:
broadcasts, addresses, certificates. A setting stands for all that are kept
alike (`Settings`). The message of a broadcast is the id, which each start of a
peer makes anew, and the address it came from. The socket buffers `MaxInbox`
datagrams. A handshake succeeds with the peer that holds the address and has
loaded its credentials. Generating credentials may stop in each of its files.
`scenario` picks which peers there are and what may happen to them, so that one
run covers six independent questions instead of their product. Fairness: weak
for processing what was received; strong for the broadcast of each peer, which
is repeated every few seconds and may be lost.

## 5. Runs

Settings, events and size of each run (distinct states):

| Run | Instance | Shows |
|---|---|---|
| `interruptions` | 2 chunks, 1 retry, no checksum, `.part`, no TLS; 1,348,000 | connections lost, busy, refused or rejected at any step, pauses of both users, disk errors, leftovers, cancels: `FileIntegrity` without the help of a checksum, `StreamAligned`, `DigestIsWhole`, `HeaderComesFirst`, `DeliveredFileIsStable`, `LossIsRetried`, `CancelIsFinal`, `DeliveredOnce`, `InterruptionsKeepBytes`, and `FinishedDownloadIsWhole` beside the stale Receivers of broken connections |
| `checksum_tls` | 2/1, checksum, TLS; 625,000 | foreign bytes in the `.part`, OffsetAcks that miss their timeout, pauses, a pin that differs: `FileIntegrity` by the checksum |
| `delivery` | 2/1, checksum; 13,000 | refinement of `FileDelivery` while connections hold |
| `every_transfer_ends` | 2/1, checksum, fair; 47,000 | `EveryTransferEnds` with the idle timer on |
| `stripes` | 2 chunks, 2 streams, 1 retry, 2 clicks, 3 sockets, checksum, fair; 815,000 | `DeliveredIsWhole`, `StripesAreAligned`, `PausedSendsNothing`, `EveryTransferEnds` over data sockets |
| `downloads` | 3 connections, 2 ids, a cap of 2, TLS, fair; 505,000 | `CapHolds`, `StreamsGoToTheLatest`, `EndedDownloadsTakeNoStreams`, `SelectionStays`, `SlotsComeBack` |
| `send_queue` | 3 uploads, limits 1 and 2, a folder of 4 files in batches of 2, fair; 112,000 | `SlotsWithinLimit`, `CancelAllStopsEverything`, `OldestFirst`, `QueueAdvances`, `FolderIsMapped` |
| `journal` | 2 processes with an upload each, 3 launches, a download, 2 versions; 3,548,000 | `NoMixedPart`, `JournalFollowsTransfers` |
| `framing` | 3 packets of 0, 2, 5 or 7 bytes, limits 6 and 8, 1 reconnect, fair; 249,000 | `ImplementsStream`, `OnlyATinyPacketWaits` |
| `neighbours` | 2 peers, 2 addresses, 2 key pairs, 2 launches, six scenarios, fair; 255,000 | `TrustedFilesAreNotMisdelivered`, `CredentialsMatch`, `LiveSettingsAreStored`, `ListCatchesUp` |
| `late_ack`, `striped_order` | small | violations, section 7 |

`interruptions`, `send_queue`, `downloads`, `framing` and `neighbours` also check
`TypeOK`; the types of every module are proved.

**Bounds.** Two chunks distinguish first, last and in-between offsets 0, 1 and
2, so that every resume can gap, repeat or fit, and two striped chunks can
overtake each other. One retry makes two Receivers overlap and separates
"attempts left" from "last attempt". Three data sockets are the two of one
attempt and the first of a second set-up. Three connections are a download, its
retry and an attach connection, one more than the cap. Three uploads are one
more than the higher limit, so that one waits; the folder has a file that is
left out, one that cannot be sent, and more than one batch. Three launches let
the second process start while the first runs and once more after a crash; with
an upload in each, and a download in one, their saves meet in every order. The payload sizes are: empty,
shorter than a header, just long enough, and above one of the limits; three
packets put one before and one after each. Two peers and two addresses are
enough for one to take the other's place.

Packets in flight are bounded by the chunks, except for pause and resume, which
`MaxQueue` and `MaxClicks` bound. Each event set leaves out what makes its
properties false by itself (section 7) and what only multiplies states.

Each property has a mutant: an operator with a plausible mistake (no seek, no
hash of the prefix, an attempt counted wrongly, a cancelled retry that goes on,
a walk that starts one more...) under which TLC finds that very property
violated.

## 6. Proofs

The theorems hold for every value of the constants, from the named `ASSUME`s of
the modules and what each statement assumes.

* `TransferProtocolProofs`, first part: `TypeCorrect`. `TypeOK` is not inductive by itself: a
  retry adds one to the attempt, so the invariant adds `RetryLeft`, that a retry
  is only ever scheduled with an attempt left. The proof first says of each
  handler what it does to the stream (`Steady`, `SameStream`), then classifies
  every action of the Sender (`Listens`, `Learns`, `SendsChunk`, `SendsFinish`,
  `SendsCancel`, `Reconnects`); later proofs use the classes only.
* `TransferProtocolProofs`, second part: `VerifiedFileIntegrity`, with `VerifyChecksum` and
  `ResumePartialDownloads`, `FileIntegrity` always holds. `finalizeDownload`
  renames whatever is called `.part`, so the invariant needs: only the current
  connection's Receiver still reads (`PastDrained`), its handle and the `.part`
  are the same file as long as the entry exists (`HandleInv`), and the digest in
  every Finish packet on its way is that of the whole file (`HashInv`).
  `DigestStaysWhole` is the latter by itself, under no assumption: position,
  remainder and start of the hash add up to the file (`DigestAddsUp`) through
  every handler, an OffsetAck timeout included.
* `TransferStreamProofs`, about the same module, from the least to the most that
  has to be assumed:
  - `CancelIsFinal`: nothing. The classes of the Sender's steps suffice.
  - `DeliveredFileIsStable` and `DeliveredOnce`: `ResumePartialDownloads`.
    `SettledInv` says that once the file has its final name all of it has been
    read from disk, so that no loss of the connection is retried, and that its
    Receiver has ended; `finalizeDownload` and the removal of a `.part` need one
    that has not. With TLS this follows from another invariant (`TlsInv`): there
    no lost connection is ever retried (section 7), so there is one attempt.
  - `StreamAligned`, `HeaderComesFirst`: the hypothesis `Plain`, which is
    `ResumePartialDownloads`, no `OffsetAck` after its timeout, and with TLS no
    pause before the handshake has ended. `StreamInv` accounts for every packet
    on the current connection: at place `i` of the queue to a Receiver that has
    `got` a number of chunks lies the chunk of number `got + i` (`Flow`); the
    Sender stands where the Receiver will once it has read the queue (`Lead`);
    the offset in an `OffsetAck` that is waited for is still the Receiver's
    position (`Replies`). A retry begins with an empty queue, the step that
    re-establishes all of it from the `.part`.
  - `FileIntegrity` without checksums: `Plain`, and the `.part` was of this
    file. `InterruptionsKeepBytes`: `Plain`, or checksums.
    `FinishedDownloadIsWhole`: what either of the two integrity theorems
    assumes; with it an ended Receiver is as good as the file it left.
  - `LossIsRetried`: no TLS and no idle timer. `LossInv` says that
    a cancelled upload has ended and that one that has not ended does not have an
    ended state in `mLastState`, which `setState` would bring back out of a pause.
  - `ImplementsDelivery` (`ThePromiseIsKept`): `Calm`, which is `Plain` on
    connections that are neither lost nor given up for silence, and checksums or
    a `.part` of this file. `PromiseInv` adds to the invariants above what the
    two ends may conclude from each other: a word under way is so (`Announced`:
    a finish ack means the file is there, a cancel that the download has ended, a
    busy that there never was one); the Receiver of a closed connection has ended
    or never will open a file (`Deserted`), so that no old one takes the `.part`
    from the current one (`PartKept`); who hangs up on a waiting Sender has
    delivered or left it a word to read first (`Answered`); the Finish packet
    goes only to a Receiver that acknowledges it (`Granted`). `SenderClaims`
    lists the five handlers that can set an upload to finished: on these
    connections three of them never do, and in the other two the file is there
    already. That it is whole is `FileIntegrity` again.

  `Plain` is not a convenience. TLC finds `StreamAligned` and `HeaderComesFirst`
  violated with TLS and `senderPause`, `FileIntegrity` with an OffsetAck that
  misses its timeout (the run `late_ack`). It excludes a user who pauses in the few milliseconds of a
  handshake, and a peer that answers a header later than
  `TransferOffsetAckTimeoutMs`. Nor is `Calm`: a connection lost, or closed by an
  idle timer, while the Sender waits for the finish ack completes the upload with
  nothing delivered (section 7).
  `ResumePartialDownloads`, `VerifyChecksum` and `TlsEnabled` are the defaults of
  `settings.cpp:343-349`. The idle timer is on by default
  (`settings.cpp:37`); that it may end what would be retried is its purpose.
* `TransferServerProofs`: types, the cap, the two registry properties and
  `SelectionStays`. `ServerInv` says of a Receiver that a registered one has not
  finished (in a pause it has a state to go on from, or `Finish` could be its next)
  and that its connection is open, or being closed because it failed, or that it
  was deleted (`ReceiversOK`), of the registry that its entries are registered
  under their id and the latest there (`RegistryOK`, `StreamsGoToTheLatest`). It needs nothing
  of the list: a button may change any Receiver its state allows. `ListInv` says
  that the list has every Receiver once and that a row is current. For
  `clearCompleted()`, whose loop steps back after each row it removes, the
  induction over the turns says that the current row follows its card as long as
  that is there, and that what is left is a part of what was.
* `SendQueueProofs`: types, `SlotsWithinLimit`, `OldestFirst` and
  `CancelAllStopsEverything`. `QueueInv` is the types and one sum: the uploads
  that exist and those a folder send still has to make are no more than there
  is room for, which each file of a batch moves from one side to the other
  (`Emits`). Every step is of one of three kinds. It gives no upload a slot
  (`Releases`: users, connections, cancel-all). It adds uploads, each placed
  under the limit (`Grown`: sends and batches). Or an upload ends and wakes the
  walk (`WakingIsFine`), which starts those with fewer startable ones below them
  than there are free slots: that these are no more than the free slots is
  `FewHaveFewBelow`, that no older one is passed over is `FewerBelow`, and both
  are about sets of any size. The limit needs no bound on the uploads that run
  already: a user who lowers it stops none, so `SlotsWithinLimit` is about steps.
* `TransferJournalProofs`: types, and both safety properties. They speak of the
  file when no save is under way; the invariant (`JournalInv`) speaks of what is
  `Coming`: the file, or what any save under way will leave in it, whoever saves.
  `Follows` says that this has an entry for exactly the transfers the code keeps
  there, under the version of their `.part`. A handler that does not touch the
  journal must not change what that is; one that does loads the file while no
  other process is saving, or `upset` turns true. `NoMixedPart` follows, since the
  fingerprint that is compared is that of the `.part`.
* `StripedTransferProofs`: types, `StripesAreAligned`, `PausedSendsNothing` and
  `DeliveredIsWhole`, when `slowAttach` is not among the events (with it a retry may change the
  Sender under a waiting `setupDataSockets()`, section 7). The heart of
  `SenderOK`: while the Sender waits for an OffsetAck its file is at the
  beginning, no timer of the striped pump is pending and nothing waits in the
  set-up, so the first striped chunk is the one at offset 0 and the digest is of
  the whole file; Finish packets on the network (`NetOK`) therefore leave
  nothing out, and a Receiver that compares has the file (`ReceiverOK`,
  `FilesOK`).
* `PacketFramingProofs`: types, `OnlyATinyPacketWaits` and that the read loops
  implement the safety part of `PacketStream`, for any sizes of packets, limits,
  portions and reconnects. `FramingInv` is about all bytes not yet consumed,
  buffered or under way: each is followed by the rest of its packet and that by
  the next packet (`Contiguous`), and they begin with the packet after the last
  one taken, or behind its size (`StartsAt`). The arrival of a portion does not
  change these bytes; a turn of either loop drops a size or a packet from their
  front.
* `NeighboursProofs`: the types; for the list of devices by induction over the
  datagrams heard. `LiveSettingsAreStored` from the types of the settings;
  `CredentialsMatch` from `PeersInv`: a certificate is written after its key and
  read together with it (`PairsMatch`), and no two peers have one certificate
  (`PairsHaveOneOwner`); `TrustedFilesAreNotMisdelivered` from the latter and
  `UploadInv`.

Loops that the model has as functions over the turns (`Heard`, `ClearCompleted`,
`SendEach`, `Batch`) are proved about without an induction theorem: if a claim failed in some turn
there would be a first one (`NatLessThanWellFounded`), lemma `Least` of each
module, and the function's equation refutes it.

Model-checked only is liveness, which rests on fairness and is out of the
prover's reach: `EveryTransferEnds` (twice), `SlotsComeBack`, `QueueAdvances`,
`FolderIsMapped`, `ListCatchesUp`, and the fairness of `PacketStream` in
`ImplementsStream`.

## 7. Where the code departs from what is said of it

Two are runs that TLC finds violated; `PROJECT.json` quotes both sides.

* `late_ack`: when the `OffsetAck` of a resumed download misses its timeout the
  Sender assumes a legacy receiver and sends from offset 0 (`sender.cpp:716`), and
  ignores the ack when it comes (`sender.cpp:824`). The Receiver appends all of it
  to the `.part` it has kept; without checksums that file gets the final name.
* `striped_order`: when the chunk with the last bytes overtakes another one the
  Receiver takes the file for complete (`mBytesRead` is the highest end of any
  chunk) and fails an undisturbed transfer with `checksum_failed`.

Others met while modelling. The models have the behaviour; properties and events
are stated around it.

Transfers:

* with TLS no lost connection is retried: `mStartedTlsHandshake` is still set
  when the socket error arrives (`sender.cpp:344`), so it counts as a failed
  handshake (`CHANGES.md:756` promises otherwise); the run that checks `LossIsRetried` is
  one without TLS for this reason;
* a connection lost while the Sender waits for the finish ack completes the
  upload although nothing may have been delivered (`sender.cpp:312`,
  `CHANGES.md:749`); `ImplementsDelivery` therefore runs without `break`;
* the scheduled retry of an upload that has failed since runs
  (`sender.cpp:174`, `CHANGES.md:750`);
* pause and resume in the TLS handshake send a chunk before the header;
* with the idle timer off, a refused connection, or one lost between the last
  chunk and Finish, leaves the upload running for ever;
* a transfer that ends while paused is not shown as finished on either side,
  since `setState` accepts no `Finish` from `Paused`; its row keeps a slot;
* without `.part` files, cancelling the row of an interrupted download removes
  what its successor writes, under the final name and up to the end: the successor
  is then shown as finished with no file there. `FinishedDownloadIsWhole` is
  therefore a property of `ResumePartialDownloads`, whose `.part` cannot be renamed
  once it is gone;
* a `.part` of another file of this name is resumed when the journal has no
  entry of the new transfer id; the checksum then rejects it;
* a `FileBufferSize` above the peer's `MaxPacketSize` makes the peer refuse the
  first data packet.

Parallel streams: a retry that runs inside `setupDataSockets()`, which needs an
attach that takes longer than the retry delay, closes the sockets that the
waiting call then returns with, and `% mDataSockets.size()` (`sender.cpp:621`)
divides by zero: `snd.crashed` in the model, with `slowAttach` among the events.
A busy answer to an attach connection is taken for its ack, and chunks go to a
socket nobody reads; the idle timers end it.

Server: attach proxies and deleted Receivers count as downloads, so that a peer
may be answered busy with fewer than `MaxConcurrentDownloads` running; the
registry may keep the address of a deleted Receiver that its user had cancelled,
or that an oversize striped packet had failed (`receiver.cpp:596`): neither hangs
up nor leaves the registry, and the row may be cleared before the sender closes
the connection; an old Receiver that is disconnected late removes the entry of
its successor (`receiver.cpp:131`), whose data sockets are then refused; the "delete file" dialog removes the row number it was opened for,
which may be another download's by the time of the answer.

Queue: with a limit of 0 nothing starts from the queue although direct sends
do, and files left by a folder scan stay Queued; raising the limit wakes nobody
until some upload ends; files that cannot be opened stay Queued and are tried
again on every walk.

Journal: downloads are checkpointed with `bytesTransferred` 0, and recovery
discards entries of 0 bytes, so no download survives a restart in it
(`CHANGES.md` says that incomplete entries are retained). `CHANGES.md:794` says
of checkpoints "removed on finish/cancel": those of uploads that their user cancels
(`sender.cpp:243`), and of downloads that their sender cancels (`receiver.cpp:724`)
or that fail their checksum or their disk (`receiver.cpp:708`, `500`), are not,
and stay until a launch discards them. Launching the program a second time rewrites
the journal of the first before it finds it is the second; two that are launched
together both run, both upload, and a save of one that begins during a save of the
other undoes it.

Neighbours: credentials whose generation was broken off are never replaced, so
TLS stays locked out; the banner of `settingsdialog.cpp:312` announces a restart
of the listener for ports that are bound once at the start; an empty
device name is passed over and then set all the same
(`settingsdialog.cpp:426-433`); `reset()` leaves `ReplaceExistingFile` as it is.

## 8. What is not modelled

* `log.cpp`, `util.cpp`: files, formatting and digests, without state that other
  components read. Card widgets, theme, log viewer and about pages display only.
* Of the settings, the range of each single value: values are constants of the
  modules that use them; how they are entered, kept and loaded is modelled.
* Of `Sender`, a source file that cannot be opened again or positioned at a retry
  or at a resume offset (`sender.cpp:207-214, 753-759`), which fails the upload;
  and packets of a broken connection that are still read after its retry delay
  (`Drained`).
* Of parallel streams, errors of the receiving disk and a packet too large
  (`receiver.cpp:532-539, 593-599, 636-649`; the control stream's are in
  `TransferProtocol`, what the latter does to the registry in `TransferServer`), a
  `.part` that cannot be renamed, the receiving user's cancel, and a read error of
  a source that falls back to the single stream; Finish there goes out together
  with the last Data.
* Of the send queue, that the idle timer, where it still runs, also fails a Paused
  upload whose connection is over (`transfer.cpp:97`): it keeps its slot in the
  model.
* Of framing, a handler that fails the transfer, and so clears the buffer, in the
  middle of the loop; what it has not read then does not matter.
* Of discovery, more than one network interface and the format of datagrams.
* Cryptography: a digest identifies content, a certificate its key pair.
* Progress acks, speed and display of progress, failure texts.
* A source file that changes while it is sent (a file that changed between an
  interrupted attempt and its retry is in `TransferJournal`).
