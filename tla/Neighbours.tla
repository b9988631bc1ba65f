----------------------------- MODULE Neighbours -----------------------------
(***************************************************************************)
(* One device among its peers: how it finds them                           *)
(* (src/src/transfer/devicebroadcaster.cpp, src/src/model/                 *)
(* devicelistmodel.cpp), whom it trusts (TlsTrust) and the settings that   *)
(* decide both (Settings).                                                 *)
(*                                                                         *)
(* The device itself runs the program in full.  Peers run it with the      *)
(* default settings; what the device sees of them are their broadcasts,    *)
(* their addresses, which may move from one peer to another, and the       *)
(* certificates they show.                                                 *)
(***************************************************************************)
EXTENDS Settings, TlsTrust, SequencesExt

CONSTANTS
  Peers,
  MaxLaunches,  \* bounds the starts of a peer: each has a new device id
  MaxInbox,     \* datagrams the UDP socket holds
  Home,         \* the address of each peer at the beginning
  Scenarios     \* the peers there are and what may happen; one of them is picked

ASSUME NeighbourAssumption ==
  /\ MaxLaunches \in Nat \ {0} /\ MaxInbox \in Nat \ {0}
  /\ Peers # {} /\ Home \in [Peers -> Addresses]
  /\ \A p, q \in Peers : p # q => Home[p] # Home[q]
  /\ \A s \in Scenarios :
       /\ s.peers \subseteq Peers
       /\ s.events \subseteq {"network", "storage", "folder", "restart", "pins", "store",
                              "move", "relaunch", "reinstall", "disk", "crash"}

VARIABLES
  scenario,
  running,   \* the program runs on this device
  live,      \* Settings::instance()
  stored,    \* the settings on disk
  panel,     \* the settings panel is shown
  fields,    \* what its widgets hold
  usable,    \* folders that can be written
  bound,     \* the ports bound when the program started
  inbox,     \* datagrams received
  devices,   \* mDevices of the device list
  selecting, \* the receiver selector is open
  pins,      \* the certificates trusted
  backup,    \* an exported trust store
  upload,    \* the last upload, unless it failed
  peers,
  pairs      \* key pairs generated so far

settings == <<live, stored, panel, fields, usable, bound>>
list == <<inbox, devices, selecting>>
trust == <<pins, backup>>
world == <<peers, pairs>>
vars == <<scenario, running, settings, list, trust, upload, world>>

NoAddress == 0   \* Addresses are natural numbers above 0

Peer == [on : BOOLEAN, launch : 1 .. MaxLaunches, addr : Addresses \cup {NoAddress},
         files : Credentials,    \* on its disk
         loaded : Credentials]   \* mServerKey and mServerCert

\* a datagram, or a row of the device list: the id names a peer and one of its launches
Device == [peer : Peers, launch : 1 .. MaxLaunches, addr : Addresses]

\* to: who accepted the file; trusted: the certificate of the chosen peer was pinned before
Upload == [phase : {"none", "connecting", "accepted"}, chosen : Peers, addr : Addresses,
           to : Peers, trusted : BOOLEAN]

NoUpload ==
  LET p == CHOOSE p \in Peers : TRUE
  IN  [phase |-> "none", chosen |-> p, addr |-> CHOOSE a \in Addresses : TRUE, to |-> p,
       trusted |-> FALSE]

May(event) == event \in scenario.events

Holds(p, a) == peers[p].on /\ peers[p].addr = a

Init ==
  /\ scenario \in Scenarios
  /\ running = FALSE
  /\ live = Defaults /\ stored = Defaults /\ panel = FALSE /\ fields = Defaults
  /\ usable = Folders /\ bound = DefaultPort
  /\ inbox = <<>> /\ devices = <<>> /\ selecting = FALSE
  /\ pins = NoPins /\ backup = NoPins
  /\ upload = NoUpload
  /\ peers = [p \in Peers |-> [on |-> p \in scenario.peers, launch |-> 1, addr |-> Home[p],
                               files |-> NoCredentials, loaded |-> NoCredentials]]
  /\ pairs = 0

-----------------------------------------------------------------------------
(***************************************************************************)
(* The program starts and ends.                                            *)
(***************************************************************************)

Launch ==
  /\ ~running /\ running' = TRUE
  /\ live' = Loaded(stored, usable) /\ stored' = StoredByLoad(stored, usable)
  /\ fields' = live' /\ bound' = live'.ports
  /\ UNCHANGED <<scenario, panel, usable, list, trust, upload, world>>

Quit ==
  /\ May("restart") /\ running
  /\ running' = FALSE
  /\ panel' = FALSE /\ fields' = live
  /\ inbox' = <<>> /\ devices' = <<>> /\ selecting' = FALSE
  /\ upload' = IF upload.phase = "connecting" THEN NoUpload ELSE upload
  /\ UNCHANGED <<scenario, live, stored, usable, bound, trust, world>>

(***************************************************************************)
(* The settings panel.                                                     *)
(***************************************************************************)

ShowSettingsView ==
  /\ scenario.events \cap {"network", "storage", "pins", "store"} # {}
  /\ running /\ ~selecting /\ ~panel
  /\ panel' = TRUE /\ fields' = live
  /\ UNCHANGED <<scenario, running, live, stored, usable, bound, list, trust, upload, world>>

Edit ==
  /\ panel
  /\ \/ /\ May("network")
        /\ \/ \E n \in Ports \cup {0} : fields' = [fields EXCEPT !.ports = n]
           \/ fields' = [fields EXCEPT !.tls = ~@]
     \/ /\ May("storage")
        /\ \/ fields' = [fields EXCEPT !.overwrite = ~@]
           \/ \E f \in Folders : fields' = [fields EXCEPT !.dir = f]
  /\ UNCHANGED <<scenario, running, live, stored, panel, usable, bound, list, trust, upload, world>>

\* mutant: what was entered is stored, not what was accepted
StoresWhatWasEntered ==
  /\ panel
  /\ live' = Entered(live, fields, usable) /\ stored' = fields
  /\ panel' = FALSE /\ fields' = live'
  /\ UNCHANGED <<scenario, running, usable, bound, list, trust, upload, world>>

\* onSaveClicked(), and saved() that leads back to the transfers
Save ==
  /\ panel
  /\ live' = Entered(live, fields, usable) /\ stored' = live'
  /\ panel' = FALSE /\ fields' = live'
  /\ UNCHANGED <<scenario, running, usable, bound, list, trust, upload, world>>

\* onResetClicked(): nothing is stored, and the panel stays
ResetSettings ==
  /\ panel
  /\ live' = Reset(live) /\ fields' = live'
  /\ UNCHANGED <<scenario, running, stored, panel, usable, bound, list, trust, upload, world>>

\* onCancelClicked(), or another view is shown
LeaveSettings ==
  /\ panel
  /\ panel' = FALSE /\ fields' = live
  /\ UNCHANGED <<scenario, running, live, stored, usable, bound, list, trust, upload, world>>

\* a folder's volume comes and goes
FolderComesOrGoes ==
  /\ May("folder")
  /\ \E f \in Folders : usable' = IF f \in usable THEN usable \ {f} ELSE usable \cup {f}
  /\ UNCHANGED <<scenario, running, live, stored, panel, fields, bound, list, trust, upload, world>>

(***************************************************************************)
(* Discovery.                                                              *)
(***************************************************************************)

\* a broadcast of peer p that is not lost; it is sent to the default port
PeerBroadcast(p) ==
  /\ running /\ bound = DefaultPort /\ Len(inbox) < MaxInbox
  /\ peers[p].on /\ peers[p].addr # NoAddress
  /\ inbox' = Append(inbox, [peer |-> p, launch |-> peers[p].launch, addr |-> peers[p].addr])
  /\ UNCHANGED <<scenario, running, settings, devices, selecting, trust, upload, world>>

\* mutant: one row for each peer, whichever launch of it the row is about
OneRowForEachPeer(rows, d) ==
  IF \E i \in DOMAIN rows : rows[i].peer = d.peer THEN rows ELSE Append(rows, d)

\* mutant: a device that has moved gets a second row
ComparesAddresses(rows, d) ==
  IF \E i \in DOMAIN rows : rows[i] = d THEN rows ELSE Append(rows, d)

\* onBCReceived(): one row for each id, which keeps the address it was first heard from
OnBCReceived(rows, d) ==
  IF \E i \in DOMAIN rows : rows[i].peer = d.peer /\ rows[i].launch = d.launch
    THEN rows ELSE Append(rows, d)

\* the loop over the pending datagrams
Heard(rows, datagrams) ==
  LET heard[n \in 0 .. Len(datagrams)] ==
        IF n = 0 THEN rows ELSE OnBCReceived(heard[n - 1], datagrams[n])
  IN  heard[Len(datagrams)]

\* datagrams of another port than the current setting are ignored
ProcessBroadcast ==
  /\ running /\ inbox # <<>>
  /\ devices' = IF live.ports = DefaultPort THEN Heard(devices, inbox) ELSE devices
  /\ inbox' = <<>>
  /\ UNCHANGED <<scenario, running, settings, selecting, trust, upload, world>>

\* the selector is opened with an empty list, or its list is emptied
Refresh ==
  /\ running /\ ~panel
  /\ selecting' = TRUE /\ devices' = <<>>
  /\ UNCHANGED <<scenario, running, settings, inbox, trust, upload, world>>

CancelSelection ==
  /\ selecting /\ selecting' = FALSE
  /\ UNCHANGED <<scenario, running, settings, inbox, devices, trust, upload, world>>

\* a row is chosen; the upload keeps its address
SelectReceiver ==
  /\ selecting /\ selecting' = FALSE
  /\ upload.phase # "connecting"
  /\ \E d \in Device :
       /\ d \in ToSet(devices)
       /\ upload' = [NoUpload EXCEPT !.phase = "connecting", !.chosen = d.peer, !.addr = d.addr]
  /\ UNCHANGED <<scenario, running, settings, inbox, devices, trust, world>>

(***************************************************************************)
(* The connection of an upload, TLS first.                                 *)
(***************************************************************************)

UploadFails == upload' = NoUpload

\* no one listens there, or one who speaks TLS only
ConnectionRefused ==
  /\ upload.phase = "connecting"
  /\ live.ports # DefaultPort \/ ~live.tls \/ \A p \in Peers : ~Holds(p, upload.addr)
  /\ UploadFails
  /\ UNCHANGED <<scenario, running, settings, list, trust, world>>

Reached(p) ==
  upload.phase = "connecting" /\ live.ports = DefaultPort /\ live.tls /\ Holds(p, upload.addr)

\* loadServerCredentials() of p, at the first connection since it was started
LoadCredentials(p) ==
  /\ Reached(p) /\ peers[p].loaded = NoCredentials
  /\ \/ /\ Readable(peers[p].files)
        /\ peers' = [peers EXCEPT ![p].loaded = peers[p].files]
        /\ UNCHANGED <<upload, pairs>>
     \/ /\ Exist(peers[p].files) /\ ~Readable(peers[p].files)
        /\ UploadFails /\ UNCHANGED <<peers, pairs>>
     \/ /\ ~Exist(peers[p].files) /\ pairs < MaxCerts
        /\ peers' = [peers EXCEPT ![p].files = Generated(pairs + 1), ![p].loaded = Generated(pairs + 1)]
        /\ pairs' = pairs + 1 /\ UNCHANGED upload
     \/ /\ ~Exist(peers[p].files) /\ pairs < MaxCerts
        /\ May("disk")
        /\ \E f \in Interrupted(peers[p].files, pairs + 1) : peers' = [peers EXCEPT ![p].files = f]
        /\ pairs' = pairs + 1 /\ UploadFails
     \/ /\ ~Exist(peers[p].files) /\ pairs < MaxCerts
        /\ May("crash")
        /\ \E f \in Interrupted(peers[p].files, pairs + 1) :
             peers' = [peers EXCEPT ![p].files = f, ![p].on = FALSE]
        /\ pairs' = pairs + 1 /\ UploadFails
  /\ UNCHANGED <<scenario, running, settings, list, trust>>

\* the handshake, and onEncrypted() of the Sender
OnEncrypted(p) ==
  /\ Reached(p) /\ peers[p].loaded # NoCredentials
  /\ LET c == peers[p].loaded.cert
     IN  IF peers[p].loaded.key = c /\ Trusted(pins, upload.addr, c)
           THEN /\ pins' = CheckAndPin(pins, upload.addr, c)
                /\ upload' = [upload EXCEPT !.phase = "accepted", !.to = p,
                     !.trusted = pins[upload.addr] \in Certs
                                  /\ pins[upload.addr] = peers[upload.chosen].files.cert]
           ELSE UploadFails /\ UNCHANGED pins
  /\ UNCHANGED <<scenario, running, settings, list, backup, world>>

(***************************************************************************)
(* The trust inspector.                                                    *)
(***************************************************************************)

RemoveSelectedPeer ==
  /\ May("pins") /\ panel
  /\ \E a \in Addresses : pins[a] # NoCert /\ pins' = RemovePinnedPeer(pins, a)
  /\ UNCHANGED <<scenario, running, settings, list, backup, upload, world>>

ClearAllPeers ==
  /\ May("pins") /\ panel
  /\ pins # NoPins /\ pins' = NoPins
  /\ UNCHANGED <<scenario, running, settings, list, backup, upload, world>>

ExportTrustStore ==
  /\ May("store") /\ panel
  /\ backup' = pins
  /\ UNCHANGED <<scenario, running, settings, list, pins, upload, world>>

ImportTrust ==
  /\ May("store") /\ panel
  /\ pins' = ImportTrustStore(pins, backup)
  /\ UNCHANGED <<scenario, running, settings, list, backup, upload, world>>

(***************************************************************************)
(* The peers.                                                              *)
(***************************************************************************)

MyState == <<scenario, running, settings, list, trust, upload>>

PeerQuits(p) ==
  /\ May("relaunch") /\ peers[p].on
  /\ peers' = [peers EXCEPT ![p].on = FALSE, ![p].loaded = NoCredentials]
  /\ UNCHANGED <<MyState, pairs>>

PeerStarts(p) ==
  /\ p \in scenario.peers /\ ~peers[p].on
  /\ peers[p].launch < MaxLaunches
  /\ peers' = [peers EXCEPT ![p].on = TRUE, ![p].launch = @ + 1, ![p].loaded = NoCredentials]
  /\ UNCHANGED <<MyState, pairs>>

\* DHCP: p loses its address or gets a free one
PeerMoves(p) ==
  /\ May("move")
  /\ \E a \in Addresses \cup {NoAddress} :
       /\ a # peers[p].addr
       /\ a # NoAddress => \A q \in Peers : peers[q].addr # a
       /\ peers' = [peers EXCEPT ![p].addr = a]
  /\ UNCHANGED <<MyState, pairs>>

\* the program of p is installed anew
PeerReinstalls(p) ==
  /\ May("reinstall") /\ ~peers[p].on
  /\ peers[p].files # NoCredentials
  /\ peers' = [peers EXCEPT ![p].files = NoCredentials]
  /\ UNCHANGED <<MyState, pairs>>

Program ==
  \/ Launch \/ Quit
  \/ ShowSettingsView \/ Edit \/ Save \/ ResetSettings \/ LeaveSettings
  \/ ProcessBroadcast \/ Refresh \/ CancelSelection \/ SelectReceiver
  \/ ConnectionRefused \/ (\E p \in Peers : LoadCredentials(p) \/ OnEncrypted(p))
  \/ RemoveSelectedPeer \/ ClearAllPeers \/ ExportTrustStore \/ ImportTrust

Environment ==
  \/ FolderComesOrGoes
  \/ \E p \in Peers : \/ PeerBroadcast(p) \/ PeerQuits(p) \/ PeerStarts(p) \/ PeerMoves(p)
                      \/ PeerReinstalls(p)

Next == Program \/ Environment

Spec == Init /\ [][Next]_vars

(***************************************************************************)
(* Datagrams are processed when the event loop is idle; a broadcast may be *)
(* lost, but they are repeated every few seconds and some get through.     *)
(***************************************************************************)
FairSpec == Spec /\ WF_vars(ProcessBroadcast) /\ \A p \in Peers : SF_vars(PeerBroadcast(p))

-----------------------------------------------------------------------------
\* every variable has its type, and the device list has one row for each id
TypeOK ==
  /\ scenario \in Scenarios
  /\ {running, panel, selecting} \subseteq BOOLEAN
  /\ live \in Setting /\ stored \in Setting /\ fields \in Fields
  /\ usable \subseteq Folders /\ bound \in Ports
  /\ inbox \in Seq(Device) /\ devices \in Seq(Device)
  /\ \A i, j \in DOMAIN devices :
       devices[i].peer = devices[j].peer /\ devices[i].launch = devices[j].launch => i = j
  /\ pins \in Pins /\ backup \in Pins
  /\ upload \in Upload
  /\ peers \in [Peers -> Peer] /\ pairs \in 0 .. MaxCerts

(***************************************************************************)
(* A file goes to the device that was chosen, or nowhere, if the           *)
(* certificate of that device was pinned: whoever may hold its address by  *)
(* the time of the connection, and whatever the row of the list, the trust *)
(* store and the credentials of the peers have gone through.               *)
(***************************************************************************)
TrustedFilesAreNotMisdelivered ==
  upload.phase = "accepted" /\ upload.trusted => upload.to = upload.chosen

(***************************************************************************)
(* The key and the certificate that a peer presents belong together, also  *)
(* after a full disk or a crash in the middle of their generation.         *)
(***************************************************************************)
CredentialsMatch == \A p \in Peers : peers[p].loaded.key = peers[p].loaded.cert

(***************************************************************************)
(* What the program works with is what it will find after a restart,       *)
(* unless the settings were reset and not saved, or both the stored and    *)
(* the default download folder are gone.                                   *)
(***************************************************************************)
LiveSettingsAreStored ==
  running =>
    \/ live = stored
    \/ live = Reset(stored)
    \/ live = [stored EXCEPT !.dir = DefaultFolder]

(***************************************************************************)
(* A peer that keeps its address and is within reach is in the list again  *)
(* and again, however often the list is emptied; and if the list is        *)
(* emptied for ever, then at the address that it has now.                  *)
(***************************************************************************)
InReach(p, a) ==
  running /\ bound = DefaultPort /\ live.ports = DefaultPort /\ Holds(p, a)

Listed(p, a) ==
  \E i \in DOMAIN devices :
    devices[i] = [peer |-> p, launch |-> peers[p].launch, addr |-> a]

ListCatchesUp ==
  \A p \in Peers, a \in Addresses :
    <>[]InReach(p, a) =>
      /\ []<>(\E b \in Addresses : Listed(p, b))
      /\ []<>(devices = <<>>) => []<>Listed(p, a)
=============================================================================
