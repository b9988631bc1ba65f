--------------------------- MODULE NeighboursProofs ---------------------------
(***************************************************************************)
(* Proofs about Neighbours: its types and its three safety properties, for *)
(* any number of peers, addresses, key pairs, ports and folders.           *)
(***************************************************************************)
EXTENDS Neighbours, SequenceTheorems, WellFoundedInduction, TLAPS

-----------------------------------------------------------------------------
(***************************************************************************)
(* The invariant: settings, then trust.                                    *)
(***************************************************************************)

SettingsInv ==
  /\ live \in Setting /\ stored \in Setting /\ fields \in Fields
  /\ usable \subseteq Folders
  /\ LiveSettingsAreStored

\* the key pairs that p has on its disk or has loaded
Of(p) == {peers[p].files.cert, peers[p].loaded.cert} \cap Certs

Whole(pair) == pair.cert \in Certs /\ pair.key = pair.cert

\* a certificate is written after its key, and is read together with it
PairsMatch ==
  \A p \in Peers :
    /\ peers[p].files.cert \in Certs => peers[p].files.key = peers[p].files.cert
    /\ peers[p].loaded # NoCredentials => Whole(peers[p].loaded)

\* no two peers have one certificate
PairsHaveOneOwner ==
  /\ \A p \in Peers : Of(p) \subseteq 1 .. pairs
  /\ \A p, q \in Peers : p # q => Of(p) \cap Of(q) = {}

PeersInv ==
  /\ peers \in [Peers -> Peer] /\ pairs \in 0 .. MaxCerts
  /\ PairsMatch /\ PairsHaveOneOwner

UploadInv ==
  /\ pins \in Pins /\ backup \in Pins
  /\ upload.phase = "connecting" => upload \in Upload
  /\ TrustedFilesAreNotMisdelivered

-----------------------------------------------------------------------------
(***************************************************************************)
(* Settings.                                                               *)
(***************************************************************************)

LEMMA DefaultsType == Defaults \in Setting /\ Defaults \in Fields
  BY SettingsAssumption DEF SettingsAssumption, Defaults, Setting, Fields

LEMMA SettingIsFields == Setting \subseteq Fields
  BY DEF Setting, Fields

\* reset() forgets what was set before, but for the one setting it overlooks
LEMMA ResetType ==
  ASSUME NEW set \in Setting
  PROVE  Reset(set) \in Setting /\ Reset(set) = [Defaults EXCEPT !.overwrite = set.overwrite]
  BY DefaultsType DEF Reset, Setting

LEMMA ResetOverwrites ==
  ASSUME NEW set \in Setting, NEW old \in Setting, old.overwrite = set.overwrite
  PROVE  Reset(old) = Reset(set)
  BY DEF Reset

\* the setters accept settings only
LEMMA EnteredType ==
  ASSUME NEW set \in Setting, NEW what \in Fields, NEW writable \in SUBSET Folders
  PROVE  Entered(set, what, writable) \in Setting
<1> DEFINE port == IF what.ports > 0 THEN what.ports ELSE set.ports
           dir == IF what.dir \in writable THEN what.dir ELSE set.dir
<1>1. Entered(set, what, writable) = [what EXCEPT !.ports = port, !.dir = dir]
  BY DEF Entered
<1>2. port \in Ports
  <2>1. set.ports \in Ports /\ (what.ports \in Ports \/ what.ports = 0)
    BY DEF Setting, Fields
  <2> QED BY <2>1
<1>3. dir \in Folders
  BY DEF Setting, Fields
<1> HIDE DEF port, dir
<1> QED BY <1>1, <1>2, <1>3 DEF Setting, Fields

LEMMA LoadedType ==
  ASSUME NEW set \in Setting, NEW writable
  PROVE  Loaded(set, writable) \in Setting /\ StoredByLoad(set, writable) \in Setting
<1>1. [set EXCEPT !.dir = DefaultFolder] \in Setting
  BY SettingsAssumption DEF SettingsAssumption, Setting
<1> QED BY <1>1 DEF Loaded, StoredByLoad

LEMMA InitSettings == Init => SettingsInv
  BY DefaultsType DEF Init, SettingsInv, LiveSettingsAreStored

LEMMA LaunchKeepsSettings == ASSUME SettingsInv, Launch PROVE SettingsInv'
<1>1. live' \in Setting /\ stored' \in Setting /\ fields' \in Fields
  BY LoadedType, SettingIsFields DEF SettingsInv, Launch
<1>2. \/ live' = stored'
      \/ live' = [stored EXCEPT !.dir = DefaultFolder] /\ stored' = stored
  BY DEF Launch, Loaded, StoredByLoad
<1> QED BY <1>1, <1>2 DEF SettingsInv, LiveSettingsAreStored, Launch

LEMMA SaveKeepsSettings == ASSUME SettingsInv, Save PROVE SettingsInv'
<1>1. live' \in Setting /\ stored' = live' /\ fields' = live'
  BY EnteredType DEF SettingsInv, Save
<1> QED BY <1>1, SettingIsFields DEF SettingsInv, LiveSettingsAreStored, Save

LEMMA ResetKeepsSettings == ASSUME SettingsInv, ResetSettings PROVE SettingsInv'
<1>1. live' = Reset(live) /\ live' \in Setting /\ fields' = live' /\ UNCHANGED <<stored, running, usable>>
  BY ResetType DEF SettingsInv, ResetSettings
<1>2. running => live.overwrite = stored.overwrite
  BY DefaultsType DEF SettingsInv, LiveSettingsAreStored, Reset, Setting
<1>3. running => live' = Reset(stored)
  BY <1>1, <1>2, ResetOverwrites DEF SettingsInv
<1> QED BY <1>1, <1>3, SettingIsFields DEF SettingsInv, LiveSettingsAreStored

\* the panel's widgets
LEMMA PanelKeepsSettings ==
  ASSUME SettingsInv, ShowSettingsView \/ Edit \/ LeaveSettings
  PROVE  SettingsInv'
<1>1. UNCHANGED <<live, stored, usable, running>>
  BY DEF ShowSettingsView, Edit, LeaveSettings
<1>2. fields' \in Fields
  <2>1. CASE ShowSettingsView \/ LeaveSettings
    BY <2>1, SettingIsFields DEF ShowSettingsView, LeaveSettings, SettingsInv
  <2>2. CASE Edit
    BY <2>2 DEF Edit, SettingsInv, Fields
  <2> QED BY <2>1, <2>2
<1> QED BY <1>1, <1>2 DEF SettingsInv, LiveSettingsAreStored

LEMMA NextSettings == ASSUME SettingsInv, [Next]_vars PROVE SettingsInv'
<1>1. CASE Launch BY <1>1, LaunchKeepsSettings
<1>2. CASE Save BY <1>2, SaveKeepsSettings
<1>3. CASE ResetSettings BY <1>3, ResetKeepsSettings
<1>4. CASE ShowSettingsView \/ Edit \/ LeaveSettings BY <1>4, PanelKeepsSettings
<1>5. CASE Quit
  BY <1>5, SettingIsFields DEF Quit, SettingsInv, LiveSettingsAreStored
<1>6. CASE FolderComesOrGoes
  <2>1. usable' \subseteq Folders /\ UNCHANGED <<live, stored, fields, running>>
    BY <1>6 DEF FolderComesOrGoes, SettingsInv
  <2> QED BY <2>1 DEF SettingsInv, LiveSettingsAreStored
<1>7. CASE UNCHANGED <<live, stored, fields, usable, running>>
  BY <1>7 DEF SettingsInv, LiveSettingsAreStored
<1>8. CASE ProcessBroadcast \/ Refresh \/ CancelSelection \/ SelectReceiver
  BY <1>7, <1>8 DEF ProcessBroadcast, Refresh, CancelSelection, SelectReceiver, settings
<1>9. CASE ConnectionRefused \/ \E p \in Peers : LoadCredentials(p) \/ OnEncrypted(p)
  BY <1>7, <1>9 DEF ConnectionRefused, LoadCredentials, OnEncrypted, settings
<1>10. CASE RemoveSelectedPeer \/ ClearAllPeers \/ ExportTrustStore \/ ImportTrust
  BY <1>7, <1>10 DEF RemoveSelectedPeer, ClearAllPeers, ExportTrustStore, ImportTrust, settings
<1>11. CASE \E p \in Peers : \/ PeerBroadcast(p) \/ PeerQuits(p) \/ PeerStarts(p)
                             \/ PeerMoves(p) \/ PeerReinstalls(p)
  BY <1>7, <1>11 DEF PeerBroadcast, PeerQuits, PeerStarts, PeerMoves, PeerReinstalls,
     MyState, settings
<1>12. CASE UNCHANGED vars
  BY <1>7, <1>12 DEF vars, settings
<1> QED BY <1>1, <1>2, <1>3, <1>4, <1>5, <1>6, <1>8, <1>9, <1>10, <1>11, <1>12
     DEF Next, Program, Environment

(***************************************************************************)
(* What the program works with is what it will find after a restart,       *)
(* unless it was reset without being saved, or a folder is gone.           *)
(***************************************************************************)
THEOREM SettingsAreStored == Spec => []LiveSettingsAreStored
<1>1. SettingsInv => LiveSettingsAreStored BY DEF SettingsInv
<1> QED BY <1>1, InitSettings, NextSettings, PTL DEF Spec

-----------------------------------------------------------------------------
(***************************************************************************)
(* Key pairs.                                                              *)
(***************************************************************************)

LEMMA InitPeers == Init => PeersInv
<1> SUFFICES ASSUME Init PROVE PeersInv OBVIOUS
<1>1. \A p \in Peers : peers[p].files = NoCredentials /\ peers[p].loaded = NoCredentials
  BY DEF Init
<1>2. \A p \in Peers : Of(p) = {}
  BY <1>1 DEF Of, Certs, NoCredentials, NoCert
<1>3. peers \in [Peers -> Peer] /\ pairs \in 0 .. MaxCerts
  BY NeighbourAssumption, TrustAssumption
     DEF Init, Peer, Credentials, NoCredentials, NeighbourAssumption, TrustAssumption
<1>4. PairsMatch
  BY <1>1 DEF PairsMatch, Certs, NoCredentials, NoCert
<1> QED BY <1>2, <1>3, <1>4 DEF PeersInv, PairsHaveOneOwner

(***************************************************************************)
(* A step that changes one peer keeps the invariant if what it leaves      *)
(* matches and is the peer's own: its pair of before, or a new one.        *)
(***************************************************************************)
LEMMA OnePeerChanges ==
  ASSUME PeersInv, NEW p \in Peers, NEW x \in Peer, peers' = [peers EXCEPT ![p] = x],
         pairs' \in pairs .. MaxCerts,
         x.files.cert \in Certs => x.files.key = x.files.cert,
         x.loaded # NoCredentials => Whole(x.loaded),
         {x.files.cert, x.loaded.cert} \cap Certs \subseteq Of(p) \cup (pairs + 1 .. pairs')
  PROVE  PeersInv'
<1>1. peers' \in [Peers -> Peer] /\ pairs' \in 0 .. MaxCerts /\ pairs \in 0 .. MaxCerts
  BY DEF PeersInv
<1>2. peers'[p] = x /\ \A q \in Peers \ {p} : peers'[q] = peers[q]
  BY DEF PeersInv
<1>3. PairsMatch'
  BY <1>2 DEF PeersInv, PairsMatch, Certs, Whole
<1>4. /\ Of(p)' \subseteq Of(p) \cup (pairs + 1 .. pairs')
      /\ \A q \in Peers \ {p} : Of(q)' = Of(q)
  BY <1>2 DEF Of, Certs
<1>5. \A q \in Peers : Of(q) \subseteq 1 .. pairs
  BY DEF PeersInv, PairsHaveOneOwner
<1>6. \A q \in Peers : Of(q)' \subseteq 1 .. pairs'
  BY <1>1, <1>4, <1>5, 1 .. pairs \subseteq 1 .. pairs', pairs + 1 .. pairs' \subseteq 1 .. pairs'
<1>7. \A q, r \in Peers : q # r => Of(q)' \cap Of(r)' = {}
  <2>1. (1 .. pairs) \cap (pairs + 1 .. pairs') = {} BY <1>1
  <2> QED BY <1>4, <1>5, <2>1 DEF PeersInv, PairsHaveOneOwner
<1> QED BY <1>1, <1>3, <1>6, <1>7 DEF PeersInv, PairsHaveOneOwner

\* a peer comes, goes or moves: what it had loaded is forgotten, or nothing is
LEMMA PeerStepKeeps ==
  ASSUME PeersInv, NEW p \in Peers,
         PeerQuits(p) \/ PeerStarts(p) \/ PeerMoves(p) \/ PeerReinstalls(p)
  PROVE  PeersInv'
<1> DEFINE x == peers'[p]
<1>0. /\ peers[p] \in Peer /\ pairs \in 0 .. MaxCerts /\ pairs' = pairs
      /\ NoCredentials \in Credentials
  BY DEF PeersInv, PeerQuits, PeerStarts, PeerMoves, PeerReinstalls, NoCredentials, Credentials
<1>1. x \in Peer /\ peers' = [peers EXCEPT ![p] = x]
      /\ x.files \in {peers[p].files, NoCredentials}
      /\ x.loaded \in {peers[p].loaded, NoCredentials}
  <2>1. CASE PeerQuits(p)
    BY <1>0, <2>1 DEF PeersInv, PeerQuits, Peer
  <2>2. CASE PeerStarts(p)
    BY <1>0, <2>2, NeighbourAssumption DEF PeersInv, PeerStarts, Peer, NeighbourAssumption
  <2>3. CASE PeerMoves(p)
    <3>1. PICK a \in Addresses \cup {NoAddress} : peers' = [peers EXCEPT ![p].addr = a]
      BY <2>3 DEF PeerMoves
    <3> QED BY <1>0, <3>1 DEF PeersInv, Peer
  <2>4. CASE PeerReinstalls(p)
    BY <1>0, <2>4 DEF PeersInv, PeerReinstalls, Peer
  <2> QED BY <2>1, <2>2, <2>3, <2>4
<1>2. /\ x.files.cert \in Certs => x.files.key = x.files.cert
      /\ x.loaded # NoCredentials => Whole(x.loaded)
      /\ {x.files.cert, x.loaded.cert} \cap Certs \subseteq Of(p)
  BY <1>1 DEF PeersInv, PairsMatch, Of, NoCredentials, NoCert, Certs
<1>3. pairs' \in pairs .. MaxCerts
      /\ {x.files.cert, x.loaded.cert} \cap Certs \subseteq Of(p) \cup (pairs + 1 .. pairs')
  BY <1>0, <1>2
<1> HIDE DEF x
<1> QED BY <1>1, <1>2, <1>3, OnePeerChanges

\* broken credentials are never loaded, and a certificate comes after its key
LEMMA LoadKeeps ==
  ASSUME PeersInv, NEW p \in Peers, LoadCredentials(p)
  PROVE  PeersInv'
<1>0. /\ peers[p] \in Peer /\ peers[p].files \in Credentials /\ pairs \in 0 .. MaxCerts
      /\ peers[p].loaded = NoCredentials
  BY DEF PeersInv, Peer, LoadCredentials
<1>1. CASE UNCHANGED <<peers, pairs>>
  BY <1>1 DEF PeersInv, PairsMatch, PairsHaveOneOwner, Of, Whole
<1>2. CASE Readable(peers[p].files) /\ UNCHANGED pairs
           /\ peers' = [peers EXCEPT ![p].loaded = peers[p].files]
  <2> DEFINE x == [peers[p] EXCEPT !.loaded = peers[p].files]
  <2>1. x \in Peer /\ peers' = [peers EXCEPT ![p] = x]
        /\ x.files = peers[p].files /\ x.loaded = peers[p].files
    BY <1>0, <1>2 DEF Peer, PeersInv
  <2>2. peers[p].files.cert \in Certs => peers[p].files.key = peers[p].files.cert
    BY DEF PeersInv, PairsMatch
  <2>3. x.loaded # NoCredentials => Whole(x.loaded)
    BY <1>2, <2>1, <2>2 DEF Readable, Whole
  <2>4. {x.files.cert, x.loaded.cert} \cap Certs \subseteq Of(p)
    BY <2>1 DEF Of
  <2>5. pairs' \in pairs .. MaxCerts
        /\ {x.files.cert, x.loaded.cert} \cap Certs \subseteq Of(p) \cup (pairs + 1 .. pairs')
    BY <1>0, <1>2, <2>4
  <2> HIDE DEF x
  <2> QED BY <2>1, <2>2, <2>3, <2>5, OnePeerChanges
<1>3. ASSUME ~Exist(peers[p].files), pairs < MaxCerts, pairs' = pairs + 1,
             NEW new \in Credentials, NEW mine \in {new, NoCredentials}, NEW on \in BOOLEAN,
             peers' = [peers EXCEPT ![p] = [@ EXCEPT !.files = new, !.loaded = mine, !.on = on]],
             new \in {Generated(pairs + 1)} \cup Interrupted(peers[p].files, pairs + 1),
             mine = new => new = Generated(pairs + 1)
      PROVE  PeersInv'
  <2> DEFINE x == [peers[p] EXCEPT !.files = new, !.loaded = mine, !.on = on]
  <2>0. NoCredentials \in Credentials BY DEF NoCredentials, Credentials
  <2>1. x \in Peer /\ peers' = [peers EXCEPT ![p] = x] /\ x.files = new /\ x.loaded = mine
    BY <1>0, <1>3, <2>0 DEF Peer
  <2>2. pairs + 1 \in Certs /\ pairs' \in pairs .. MaxCerts /\ pairs + 1 \in pairs + 1 .. pairs'
    BY <1>0, <1>3, TrustAssumption DEF Certs, TrustAssumption
  <2>3. peers[p].files.cert \notin Certs
    BY <1>3 DEF Exist, PeersInv, PairsMatch, Certs, NoCert
  <2>4. new.cert \in Certs => new.key = new.cert /\ new.cert = pairs + 1
    BY <1>0, <1>3, <2>3 DEF Generated, Interrupted, Credentials, Certs, Broken
  <2>5. mine # NoCredentials => Whole(mine)
    BY <1>3, <2>2 DEF Generated, Whole
  <2>6. mine.cert \in Certs => mine.cert = pairs + 1
    BY <1>3, <2>4 DEF NoCredentials, NoCert, Certs
  <2>7. {x.files.cert, x.loaded.cert} \cap Certs \subseteq Of(p) \cup (pairs + 1 .. pairs')
    BY <2>1, <2>2, <2>4, <2>6
  <2> HIDE DEF x
  <2> QED BY <2>1, <2>2, <2>4, <2>5, <2>7, OnePeerChanges
<1>4. ASSUME ~Exist(peers[p].files), pairs < MaxCerts
      PROVE  /\ Generated(pairs + 1) \in Credentials
             /\ Interrupted(peers[p].files, pairs + 1) \subseteq Credentials
  <2>1. pairs + 1 \in Certs
    BY <1>0, <1>4, TrustAssumption DEF Certs, TrustAssumption
  <2>2. /\ [peers[p].files EXCEPT !.key = Broken] \in Credentials
        /\ [peers[p].files EXCEPT !.key = pairs + 1] \in Credentials
        /\ [key |-> pairs + 1, cert |-> Broken] \in Credentials
        /\ [key |-> pairs + 1, cert |-> pairs + 1] \in Credentials
    BY <1>0, <2>1 DEF Credentials
  <2> QED BY <2>2 DEF Generated, Interrupted
<1>5. CASE ~Exist(peers[p].files) /\ pairs < MaxCerts /\ pairs' = pairs + 1
           /\ peers' = [peers EXCEPT ![p].files = Generated(pairs + 1),
                                     ![p].loaded = Generated(pairs + 1)]
  <2>1. peers' = [peers EXCEPT ![p] = [@ EXCEPT !.files = Generated(pairs + 1),
                    !.loaded = Generated(pairs + 1), !.on = peers[p].on]]
    BY <1>0, <1>5 DEF PeersInv, Peer
  <2> QED BY <1>0, <1>3, <1>4, <1>5, <2>1 DEF Peer
<1>6. ASSUME ~Exist(peers[p].files), pairs < MaxCerts, pairs' = pairs + 1,
             NEW new \in Interrupted(peers[p].files, pairs + 1), NEW on \in BOOLEAN,
             peers' = [peers EXCEPT ![p] = [@ EXCEPT !.files = new, !.on = on]]
      PROVE  PeersInv'
  <2>1. peers' = [peers EXCEPT ![p] = [@ EXCEPT !.files = new,
                    !.loaded = NoCredentials, !.on = on]]
    BY <1>0, <1>6 DEF PeersInv, Peer
  <2>2. new \in Credentials BY <1>4, <1>6
  <2>3. new # NoCredentials
    BY <1>0, <1>6, TrustAssumption
       DEF Interrupted, NoCredentials, NoCert, Broken, Credentials, TrustAssumption
  <2> QED BY <1>3, <1>6, <2>1, <2>2, <2>3
<1>7. ASSUME ~Exist(peers[p].files), pairs < MaxCerts, pairs' = pairs + 1,
             NEW new \in Interrupted(peers[p].files, pairs + 1),
             \/ peers' = [peers EXCEPT ![p].files = new]
             \/ peers' = [peers EXCEPT ![p].files = new, ![p].on = FALSE]
      PROVE  PeersInv'
  <2>1. \E on \in BOOLEAN : peers' = [peers EXCEPT ![p] = [@ EXCEPT !.files = new, !.on = on]]
    <3>1. CASE peers' = [peers EXCEPT ![p].files = new]
      <4>1. peers' = [peers EXCEPT ![p] = [@ EXCEPT !.files = new, !.on = peers[p].on]]
        BY <1>0, <3>1 DEF PeersInv, Peer
      <4> QED BY <1>0, <4>1 DEF Peer
    <3>2. CASE peers' = [peers EXCEPT ![p].files = new, ![p].on = FALSE]
      BY <1>0, <3>2 DEF PeersInv, Peer
    <3> QED BY <1>7, <3>1, <3>2
  <2> QED BY <1>6, <1>7, <2>1
<1> QED BY <1>1, <1>2, <1>5, <1>7 DEF LoadCredentials

LEMMA NextPeers == ASSUME PeersInv, [Next]_vars PROVE PeersInv'
<1>1. CASE \E p \in Peers : LoadCredentials(p)
  BY <1>1, LoadKeeps
<1>2. CASE \E p \in Peers : \/ PeerQuits(p) \/ PeerStarts(p) \/ PeerMoves(p)
                            \/ PeerReinstalls(p)
  BY <1>2, PeerStepKeeps
<1>3. CASE UNCHANGED <<peers, pairs>>
  BY <1>3 DEF PeersInv, PairsMatch, PairsHaveOneOwner, Of, Whole
<1>4. CASE \/ Launch \/ Quit \/ ShowSettingsView \/ Edit \/ Save \/ ResetSettings
           \/ LeaveSettings \/ FolderComesOrGoes
  BY <1>3, <1>4 DEF Launch, Quit, ShowSettingsView, Edit, Save, ResetSettings,
     LeaveSettings, FolderComesOrGoes, world
<1>5. CASE \/ ProcessBroadcast \/ Refresh \/ CancelSelection \/ SelectReceiver
           \/ ConnectionRefused \/ RemoveSelectedPeer \/ ClearAllPeers
           \/ ExportTrustStore \/ ImportTrust
  BY <1>3, <1>5 DEF ProcessBroadcast, Refresh, CancelSelection, SelectReceiver,
     ConnectionRefused, RemoveSelectedPeer, ClearAllPeers, ExportTrustStore, ImportTrust, world
<1>6. CASE \E p \in Peers : OnEncrypted(p) \/ PeerBroadcast(p)
  BY <1>3, <1>6 DEF OnEncrypted, PeerBroadcast, world
<1>7. CASE UNCHANGED vars
  BY <1>3, <1>7 DEF vars, world
<1> QED BY <1>1, <1>2, <1>4, <1>5, <1>6, <1>7 DEF Next, Program, Environment

THEOREM PeersAreSound == Spec => []PeersInv
  BY InitPeers, NextPeers, PTL DEF Spec

(***************************************************************************)
(* The key and the certificate that a peer presents belong together,       *)
(* wherever their generation was broken off.                               *)
(***************************************************************************)
THEOREM CredentialsAlwaysMatch == Spec => []CredentialsMatch
<1>1. PeersInv => CredentialsMatch
  BY DEF PeersInv, PairsMatch, Whole, CredentialsMatch, NoCredentials
<1> QED BY <1>1, PeersAreSound, PTL

-----------------------------------------------------------------------------
(***************************************************************************)
(* Trust.                                                                  *)
(***************************************************************************)

LEMMA InitUpload == Init => UploadInv
  BY DEF Init, UploadInv, TrustedFilesAreNotMisdelivered, NoUpload, NoPins, Pins

\* an upload that has failed or has not begun
LEMMA NoUploadKeeps ==
  ASSUME UploadInv, upload' = NoUpload, pins' \in Pins, backup' \in Pins
  PROVE  UploadInv'
  BY DEF UploadInv, TrustedFilesAreNotMisdelivered, NoUpload

LEMMA SameUploadKeeps ==
  ASSUME UploadInv, upload' = upload, pins' \in Pins, backup' \in Pins
  PROVE  UploadInv'
  BY DEF UploadInv, TrustedFilesAreNotMisdelivered

(***************************************************************************)
(* The argument: who showed the pinned certificate has its key pair, and   *)
(* so has the peer that was chosen; no two peers have one.                 *)
(***************************************************************************)
LEMMA OnEncryptedKeeps ==
  ASSUME PeersInv, UploadInv, NEW p \in Peers, OnEncrypted(p)
  PROVE  UploadInv'
<1> DEFINE c == peers[p].loaded.cert
           chosen == upload.chosen
<1>0. upload.phase = "connecting" /\ upload \in Upload /\ pins \in Pins
      /\ backup' = backup /\ backup \in Pins
  BY DEF OnEncrypted, Reached, UploadInv, trust
<1>1. CASE upload' = NoUpload /\ UNCHANGED pins
  BY <1>0, <1>1, NoUploadKeeps
<1>2. CASE /\ Trusted(pins, upload.addr, c)
           /\ pins' = CheckAndPin(pins, upload.addr, c)
           /\ upload' = [upload EXCEPT !.phase = "accepted", !.to = p,
                !.trusted = pins[upload.addr] \in Certs
                             /\ pins[upload.addr] = peers[chosen].files.cert]
  <2>1. c \in Certs
    BY DEF OnEncrypted, PeersInv, PairsMatch, Whole
  <2>2. pins' \in Pins
    BY <1>0, <1>2, <2>1 DEF CheckAndPin, Pins
  <2>3. chosen \in Peers
    BY <1>0 DEF Upload
  <2>4. ASSUME pins[upload.addr] \in Certs, pins[upload.addr] = peers[chosen].files.cert
        PROVE  p = chosen
    <3>1. pins[upload.addr] = c
      BY <1>2, <2>4 DEF Trusted, NoCert, Certs
    <3>2. c \in Of(p) /\ c \in Of(chosen)
      BY <2>1, <2>4, <3>1 DEF Of
    <3> QED BY <2>3, <3>2 DEF PeersInv, PairsHaveOneOwner
  <2>5. /\ upload'.phase = "accepted" /\ upload'.to = p /\ upload'.chosen = chosen
        /\ upload'.trusted => pins[upload.addr] \in Certs
                               /\ pins[upload.addr] = peers[chosen].files.cert
    BY <1>0, <1>2 DEF Upload
  <2> QED BY <1>0, <2>2, <2>4, <2>5 DEF UploadInv, TrustedFilesAreNotMisdelivered
<1> QED BY <1>1, <1>2 DEF OnEncrypted, UploadFails

LEMMA SelectKeeps == ASSUME UploadInv, SelectReceiver PROVE UploadInv'
<1>1. PICK d \in Device :
        upload' = [NoUpload EXCEPT !.phase = "connecting", !.chosen = d.peer, !.addr = d.addr]
  BY DEF SelectReceiver
<1>2. d.peer \in Peers /\ d.addr \in Addresses BY DEF Device
<1>3. upload' \in Upload /\ upload'.phase = "connecting"
  BY <1>1, <1>2 DEF NoUpload, Upload
<1> QED BY <1>3 DEF SelectReceiver, trust, UploadInv, TrustedFilesAreNotMisdelivered

LEMMA NextUpload == ASSUME PeersInv, UploadInv, [Next]_vars PROVE UploadInv'
<1>0. pins \in Pins /\ backup \in Pins BY DEF UploadInv
<1>1. CASE \E p \in Peers : OnEncrypted(p)
  BY <1>1, OnEncryptedKeeps
<1>2. CASE SelectReceiver
  BY <1>2, SelectKeeps
<1>3. CASE RemoveSelectedPeer \/ ClearAllPeers \/ ExportTrustStore \/ ImportTrust
  <2>1. pins' \in Pins /\ backup' \in Pins
    BY <1>0, <1>3 DEF RemoveSelectedPeer, ClearAllPeers, ExportTrustStore, ImportTrust,
       RemovePinnedPeer, ImportTrustStore, Pins, NoPins
  <2>2. UNCHANGED upload
    BY <1>3 DEF RemoveSelectedPeer, ClearAllPeers, ExportTrustStore, ImportTrust
  <2> QED BY <2>1, <2>2, SameUploadKeeps
<1>4. CASE UNCHANGED trust /\ (upload' = NoUpload \/ UNCHANGED upload)
  BY <1>0, <1>4, NoUploadKeeps, SameUploadKeeps DEF trust
<1>5. CASE \/ Launch \/ Quit \/ ShowSettingsView \/ Edit \/ Save \/ ResetSettings
           \/ LeaveSettings \/ FolderComesOrGoes
  BY <1>4, <1>5 DEF Launch, Quit, ShowSettingsView, Edit, Save, ResetSettings,
     LeaveSettings, FolderComesOrGoes
<1>6. CASE ProcessBroadcast \/ Refresh \/ CancelSelection \/ ConnectionRefused
  BY <1>4, <1>6 DEF ProcessBroadcast, Refresh, CancelSelection, ConnectionRefused, UploadFails
<1>7. CASE \E p \in Peers : LoadCredentials(p)
  BY <1>4, <1>7 DEF LoadCredentials, UploadFails
<1>8. CASE \E p \in Peers : \/ PeerBroadcast(p) \/ PeerQuits(p) \/ PeerStarts(p)
                            \/ PeerMoves(p) \/ PeerReinstalls(p)
  BY <1>4, <1>8 DEF PeerBroadcast, PeerQuits, PeerStarts, PeerMoves, PeerReinstalls,
     MyState
<1>9. CASE UNCHANGED vars
  BY <1>4, <1>9 DEF vars
<1> QED BY <1>1, <1>2, <1>3, <1>5, <1>6, <1>7, <1>8, <1>9 DEF Next, Program, Environment

(***************************************************************************)
(* A file goes to the peer that was chosen, or nowhere, if the certificate *)
(* of that peer was pinned.                                                *)
(***************************************************************************)
THEOREM TrustedFilesArrive == Spec => []TrustedFilesAreNotMisdelivered
<1>1. UploadInv => TrustedFilesAreNotMisdelivered BY DEF UploadInv
<1> QED BY <1>1, InitUpload, NextUpload, PeersAreSound, PTL DEF Spec

-----------------------------------------------------------------------------
(***************************************************************************)
(* The device list.                                                        *)
(***************************************************************************)

\* rows of devices, one for each id
RowsOfIds ==
  {rows \in Seq(Device) :
     \A i, j \in DOMAIN rows :
       rows[i].peer = rows[j].peer /\ rows[i].launch = rows[j].launch => i = j}

LEMMA ReceivedRows ==
  ASSUME NEW rows \in RowsOfIds, NEW d \in Device
  PROVE  OnBCReceived(rows, d) \in RowsOfIds
<1>0. rows \in Seq(Device) BY DEF RowsOfIds
<1>1. CASE \E i \in DOMAIN rows : rows[i].peer = d.peer /\ rows[i].launch = d.launch
  BY <1>1 DEF OnBCReceived
<1>2. CASE \A i \in DOMAIN rows : ~(rows[i].peer = d.peer /\ rows[i].launch = d.launch)
  <2> DEFINE new == Append(rows, d)
             n == Len(rows)
  <2>1. OnBCReceived(rows, d) = new BY <1>2 DEF OnBCReceived
  <2>2. /\ n \in Nat /\ DOMAIN rows = 1 .. n /\ new \in Seq(Device)
        /\ DOMAIN new = 1 .. n + 1 /\ new[n + 1] = d /\ \A i \in 1 .. n : new[i] = rows[i]
    BY <1>0
  <2> HIDE DEF new, n
  <2>3. ASSUME NEW i \in 1 .. n + 1, NEW j \in 1 .. n + 1,
               new[i].peer = new[j].peer, new[i].launch = new[j].launch
        PROVE  i = j
    <3>1. CASE i = n + 1 /\ j = n + 1 BY <3>1
    <3>2. CASE i = n + 1 /\ j # n + 1
      <4>1. j \in 1 .. n BY <2>2, <3>2
      <4> QED BY <1>2, <2>2, <2>3, <3>2, <4>1
    <3>3. CASE i # n + 1 /\ j = n + 1
      <4>1. i \in 1 .. n BY <2>2, <3>3
      <4> QED BY <1>2, <2>2, <2>3, <3>3, <4>1
    <3>4. CASE i # n + 1 /\ j # n + 1
      <4>1. i \in 1 .. n /\ j \in 1 .. n BY <2>2, <3>4
      <4> QED BY <2>2, <2>3, <4>1 DEF RowsOfIds
    <3> QED BY <3>1, <3>2, <3>3, <3>4
  <2> QED BY <2>1, <2>2, <2>3 DEF RowsOfIds
<1> QED BY <1>1, <1>2

Below == {ss \in Nat \X Nat : ss[1] < ss[2]}

\* a set of naturals has a least member
LEMMA Least ==
  ASSUME NEW T, T \subseteq Nat, T # {}
  PROVE  \E x \in T : \A y \in T : x <= y
<1>1. IsWellFoundedOn(Below, Nat)
  BY NatLessThanWellFounded DEF OpToRel, Below
<1>2. PICK x \in T : \A y \in T : ~(<<y, x>> \in Below)
  BY <1>1, WFMin
<1>3. ASSUME NEW y \in T PROVE x <= y
  <2>1. x \in Nat /\ y \in Nat BY <1>2
  <2>2. ~(y < x) BY <1>2, <2>1 DEF Below
  <2> QED BY <2>1, <2>2
<1> QED BY <1>3

\* h holds the rows after each of the first m datagrams of ds
Hearing(rows, ds, m, h) ==
  h = [n \in 0 .. m |-> IF n = 0 THEN rows ELSE OnBCReceived(h[n - 1], ds[n])]

\* there are such rows, and in each of them an id has one row
LEMMA HearingExists ==
  ASSUME NEW rows \in RowsOfIds, NEW ds \in Seq(Device), NEW m \in 0 .. Len(ds)
  PROVE  \E h : Hearing(rows, ds, m, h) /\ h[m] \in RowsOfIds
<1> DEFINE Good(n) == \E h : Hearing(rows, ds, n, h) /\ h[n] \in RowsOfIds
           Bad == {n \in Nat : n <= Len(ds) /\ ~Good(n)}
<1>1. Good(0)
  <2> DEFINE h == [n \in 0 .. 0 |-> rows]
  <2>1. h[0] = rows OBVIOUS
  <2>2. h = [n \in 0 .. 0 |-> IF n = 0 THEN rows ELSE OnBCReceived(h[n - 1], ds[n])]
    <3>1. \A n \in 0 .. 0 : n = 0 OBVIOUS
    <3> QED BY <3>1, Zenon
  <2>3. Hearing(rows, ds, 0, h) BY <2>2 DEF Hearing
  <2> HIDE DEF h
  <2> QED BY <2>1, <2>3
<1>2. ASSUME NEW n \in Nat, n + 1 <= Len(ds), Good(n) PROVE Good(n + 1)
  <2>1. PICK g : Hearing(rows, ds, n, g) /\ g[n] \in RowsOfIds
    BY <1>2
  <2> DEFINE h == [k \in 0 .. n + 1 |-> IF k = n + 1 THEN OnBCReceived(g[n], ds[k]) ELSE g[k]]
  <2>2. h[n + 1] = OnBCReceived(g[n], ds[n + 1])
    OBVIOUS
  <2>3. \A k \in 0 .. n : h[k] = g[k]
    OBVIOUS
  <2>4. ASSUME NEW k \in 0 .. n + 1
        PROVE  h[k] = IF k = 0 THEN rows ELSE OnBCReceived(h[k - 1], ds[k])
    <3>1. CASE k = n + 1
      <4>1. k # 0 /\ k - 1 = n /\ n \in 0 .. n BY <3>1
      <4>2. h[k - 1] = g[n] BY <2>3, <4>1
      <4> HIDE DEF h
      <4> QED BY <2>2, <3>1, <4>1, <4>2
    <3>2. CASE k # n + 1
      <4>1. k \in 0 .. n /\ (k # 0 => k - 1 \in 0 .. n) BY <3>2
      <4>2. g[k] = IF k = 0 THEN rows ELSE OnBCReceived(g[k - 1], ds[k])
        BY <2>1, <4>1 DEF Hearing
      <4> HIDE DEF h
      <4> QED BY <2>3, <4>1, <4>2
    <3> QED BY <3>1, <3>2
  <2>5. DOMAIN h = 0 .. n + 1 /\ h = [k \in 0 .. n + 1 |-> h[k]]
    OBVIOUS
  <2> HIDE DEF h
  <2>6. Hearing(rows, ds, n + 1, h)
    BY <2>4, <2>5 DEF Hearing
  <2>7. ds[n + 1] \in Device
    <3>1. n + 1 \in 1 .. Len(ds) BY <1>2
    <3> QED BY <3>1
  <2>8. h[n + 1] \in RowsOfIds
    BY <2>1, <2>2, <2>7, ReceivedRows
  <2> QED BY <2>6, <2>8
<1> HIDE DEF Good
<1>3. ASSUME Bad # {} PROVE FALSE
  <2>1. PICK n \in Bad : \A k \in Bad : n <= k BY <1>3, Least
  <2>2. n \in Nat /\ n # 0 /\ n <= Len(ds) BY <1>1, <2>1
  <2>3. n - 1 \in Nat /\ (n - 1) + 1 = n /\ n - 1 <= Len(ds) BY <2>2
  <2>4. n - 1 \notin Bad BY <2>1, <2>2
  <2>5. Good(n - 1) BY <2>3, <2>4
  <2>6. Good((n - 1) + 1) BY <1>2, <2>2, <2>3, <2>5
  <2> QED BY <2>1, <2>3, <2>6
<1> QED BY <1>3 DEF Good

\* two of them are the same
LEMMA HearingIsUnique ==
  ASSUME NEW rows, NEW ds, NEW m \in Nat, NEW f, NEW h,
         Hearing(rows, ds, m, f), Hearing(rows, ds, m, h)
  PROVE  f[m] = h[m]
<1> DEFINE Bad == {n \in Nat : n <= m /\ f[n] # h[n]}
<1>1. \A n \in 0 .. m : /\ f[n] = (IF n = 0 THEN rows ELSE OnBCReceived(f[n - 1], ds[n]))
                         /\ h[n] = (IF n = 0 THEN rows ELSE OnBCReceived(h[n - 1], ds[n]))
  BY DEF Hearing
<1>2. ASSUME Bad # {} PROVE FALSE
  <2>1. PICK n \in Bad : \A k \in Bad : n <= k BY <1>2, Least
  <2>2. n \in 0 .. m BY <2>1
  <2>3. n # 0 BY <1>1, <2>1, <2>2
  <2>4. n - 1 \in Nat /\ n - 1 <= m /\ ~(n <= n - 1) BY <2>2, <2>3
  <2>5. f[n - 1] = h[n - 1] BY <2>1, <2>4
  <2> QED BY <1>1, <2>1, <2>2, <2>3, <2>5
<1> QED BY <1>2

LEMMA HeardIsTheLast ==
  ASSUME NEW rows, NEW ds, NEW h, Hearing(rows, ds, Len(ds), h)
  PROVE  \E f : Hearing(rows, ds, Len(ds), f) /\ Heard(rows, ds) = f[Len(ds)]
  BY Zenon DEF Hearing, Heard

LEMMA HeardRows ==
  ASSUME NEW rows \in RowsOfIds, NEW ds \in Seq(Device)
  PROVE  Heard(rows, ds) \in RowsOfIds
<1>0. Len(ds) \in Nat /\ Len(ds) \in 0 .. Len(ds)
  OBVIOUS
<1>1. PICK h : Hearing(rows, ds, Len(ds), h) /\ h[Len(ds)] \in RowsOfIds
  BY <1>0, HearingExists
<1>2. PICK f : Hearing(rows, ds, Len(ds), f) /\ Heard(rows, ds) = f[Len(ds)]
  BY <1>1, HeardIsTheLast
<1>3. f[Len(ds)] = h[Len(ds)]
  BY <1>0, <1>1, <1>2, HearingIsUnique
<1> QED BY <1>1, <1>2, <1>3

-----------------------------------------------------------------------------
(***************************************************************************)
(* Types: what the invariants above leave out.                             *)
(***************************************************************************)
DeviceInv ==
  /\ scenario \in Scenarios /\ {running, panel, selecting} \subseteq BOOLEAN
  /\ bound \in Ports /\ upload \in Upload
  /\ inbox \in Seq(Device) /\ devices \in RowsOfIds

\* NoUpload names a peer and an address: there is one of each
LEMMA NoUploadType == NoUpload \in Upload
<1>1. (CHOOSE p \in Peers : TRUE) \in Peers
  BY NeighbourAssumption DEF NeighbourAssumption
<1>2. (CHOOSE a \in Addresses : TRUE) \in Addresses
  <2>1. PICK p \in Peers : Home[p] \in Addresses
    BY NeighbourAssumption DEF NeighbourAssumption
  <2> QED BY <2>1
<1> QED BY <1>1, <1>2 DEF NoUpload, Upload

LEMMA NoRows == <<>> \in Seq(Device) /\ <<>> \in RowsOfIds
<1>1. <<>> \in Seq(Device) /\ DOMAIN <<>> = {}
  OBVIOUS
<1> QED BY <1>1 DEF RowsOfIds

LEMMA InitDevice == Init => DeviceInv
<1> SUFFICES ASSUME Init PROVE DeviceInv OBVIOUS
<1>1. bound \in Ports BY SettingsAssumption DEF Init, SettingsAssumption
<1> QED BY <1>1, NoUploadType, NoRows DEF Init, DeviceInv

LEMMA NextDevice ==
  ASSUME SettingsInv, PeersInv, DeviceInv, [Next]_vars
  PROVE  DeviceInv'
<1>1. CASE Launch
  <2>1. live' \in Setting BY <1>1, LoadedType DEF Launch, SettingsInv
  <2>2. bound' \in Ports BY <1>1, <2>1 DEF Launch, Setting
  <2> QED BY <1>1, <2>2 DEF Launch, DeviceInv, list
<1>2. CASE Quit
  BY <1>2, NoUploadType, NoRows DEF Quit, DeviceInv
<1>3. CASE ShowSettingsView \/ Edit \/ Save \/ ResetSettings \/ LeaveSettings \/ FolderComesOrGoes
  BY <1>3 DEF ShowSettingsView, Edit, Save, ResetSettings, LeaveSettings, FolderComesOrGoes,
              DeviceInv, list
<1>4. CASE ProcessBroadcast
  <2>1. devices' \in RowsOfIds
    BY <1>4, HeardRows DEF ProcessBroadcast, DeviceInv
  <2> QED BY <1>4, <2>1, NoRows DEF ProcessBroadcast, DeviceInv, settings
<1>5. CASE Refresh \/ CancelSelection
  BY <1>5, NoRows DEF Refresh, CancelSelection, DeviceInv, settings
<1>6. CASE SelectReceiver
  <2>1. PICK d \in Device :
          upload' = [NoUpload EXCEPT !.phase = "connecting", !.chosen = d.peer, !.addr = d.addr]
    BY <1>6 DEF SelectReceiver
  <2>2. upload' \in Upload BY <2>1, NoUploadType DEF Upload, Device
  <2> QED BY <1>6, <2>2 DEF SelectReceiver, DeviceInv, settings
<1>7. CASE ConnectionRefused \/ \E p \in Peers : LoadCredentials(p) \/ OnEncrypted(p)
  <2>1. upload' \in Upload
    <3>1. ASSUME NEW p \in Peers, OnEncrypted(p) PROVE upload' \in Upload
      <4> DEFINE trusted == pins[upload.addr] \in Certs
                            /\ pins[upload.addr] = peers[upload.chosen].files.cert
      <4>1. upload' = NoUpload
            \/ upload' = [upload EXCEPT !.phase = "accepted", !.to = p, !.trusted = trusted]
        BY <3>1 DEF OnEncrypted, UploadFails
      <4>2. trusted \in BOOLEAN OBVIOUS
      <4> HIDE DEF trusted
      <4> QED BY <4>1, <4>2, NoUploadType DEF DeviceInv, Upload
    <3>2. ASSUME ConnectionRefused \/ \E p \in Peers : LoadCredentials(p) PROVE upload' \in Upload
      BY <3>2, NoUploadType DEF ConnectionRefused, LoadCredentials, UploadFails, DeviceInv
    <3> QED BY <1>7, <3>1, <3>2
  <2>2. UNCHANGED <<scenario, running, settings, list>>
    BY <1>7 DEF ConnectionRefused, LoadCredentials, OnEncrypted
  <2> QED BY <2>1, <2>2 DEF DeviceInv, settings, list
<1>8. CASE RemoveSelectedPeer \/ ClearAllPeers \/ ExportTrustStore \/ ImportTrust
  BY <1>8 DEF RemoveSelectedPeer, ClearAllPeers, ExportTrustStore, ImportTrust, DeviceInv,
              settings, list
<1>9. ASSUME NEW p \in Peers, PeerBroadcast(p) PROVE DeviceInv'
  <2> DEFINE d == [peer |-> p, launch |-> peers[p].launch, addr |-> peers[p].addr]
  <2>1. d \in Device
    BY <1>9 DEF PeerBroadcast, PeersInv, Peer, Device
  <2>2. inbox' = Append(inbox, d) BY <1>9 DEF PeerBroadcast
  <2> HIDE DEF d
  <2>3. inbox' \in Seq(Device) BY <2>1, <2>2 DEF DeviceInv
  <2> QED BY <1>9, <2>3 DEF PeerBroadcast, DeviceInv, settings
<1>10. CASE \E p \in Peers : PeerQuits(p) \/ PeerStarts(p) \/ PeerMoves(p) \/ PeerReinstalls(p)
  BY <1>10 DEF PeerQuits, PeerStarts, PeerMoves, PeerReinstalls, MyState, DeviceInv,
               settings, list
<1>11. CASE UNCHANGED vars
  BY <1>11 DEF vars, DeviceInv, settings, list
<1> QED BY <1>1, <1>2, <1>3, <1>4, <1>5, <1>6, <1>7, <1>8, <1>9, <1>10, <1>11
     DEF Next, Program, Environment

(***************************************************************************)
(* Every variable keeps its type; in the device list an id has one row,    *)
(* however many of its datagrams were read at once                         *)
(* (devicelistmodel.cpp, onBCReceived).                                    *)
(***************************************************************************)
THEOREM DeviceTypes == Spec => []TypeOK
<1>1. ASSUME SettingsInv, PeersInv, UploadInv, DeviceInv PROVE TypeOK
  BY <1>1 DEF SettingsInv, PeersInv, UploadInv, DeviceInv, RowsOfIds, TypeOK
<1>2. SettingsInv /\ PeersInv /\ DeviceInv /\ [Next]_vars => DeviceInv' BY NextDevice
<1> QED BY <1>1, <1>2, InitSettings, NextSettings, InitUpload, NextUpload, PeersAreSound,
           InitDevice, PTL DEF Spec
=============================================================================
