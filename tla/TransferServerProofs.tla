------------------------- MODULE TransferServerProofs -------------------------
(***************************************************************************)
(* Proofs about TransferServer: the cap on downloads, the registry of      *)
(* Receivers, the rows of their list and the selected one, for any number  *)
(* of connections, transfer ids and downloads.                             *)
(***************************************************************************)
EXTENDS TransferServer, FiniteSetTheorems, SequenceTheorems, WellFoundedInduction, TLAPS

-----------------------------------------------------------------------------
(***************************************************************************)
(* The invariant of Receivers and registry.  It needs nothing of the list: *)
(* a button may change any Receiver that its state allows.  The list has   *)
(* an invariant of its own, ListInv, further down.                         *)
(***************************************************************************)

\* a Receiver that has not finished; in a pause it knows how to go on
Live(x) ==
  \/ x.state \in {"Waiting", "Transfering", "Cancelled", "Failed"}
  \/ x.state = "Paused" /\ x.last \in {"Waiting", "Transfering"}

\* its connection is not over, and is being closed only because it failed
Connected(x) ==
  \/ x.socket = "open"
  \/ x.socket = "closing" /\ x.state = "Failed"

ReceiverOK(x) ==
  /\ x.registered => x.role = "main" /\ x.id \in Ids /\ Live(x) /\ (Connected(x) \/ x.deleted)
  /\ x.role = "new" => Live(x)

ReceiversOK == rec \in Seq(Receiver) /\ \A r \in DOMAIN rec : ReceiverOK(rec[r])

\* an entry of the registry names a Receiver that is registered under it
RegistryOK ==
  /\ registry \in [Ids -> 0 .. Len(rec)]
  /\ \A id \in Ids : registry[id] # 0 =>
       rec[registry[id]].registered /\ rec[registry[id]].id = id

ServerInv == ReceiversOK /\ RegistryOK /\ StreamsGoToTheLatest /\ CapHolds

-----------------------------------------------------------------------------
(***************************************************************************)
(* setState() and fail().                                                  *)
(***************************************************************************)

\* y is the Receiver x in another state, and takes no slot that x did not have
Restated(x, y) ==
  /\ y \in Receiver
  /\ y.id = x.id /\ y.registered = x.registered /\ y.role = x.role
  /\ y.socket = x.socket /\ y.deleted = x.deleted
  /\ IsActive(y) => IsActive(x)
  /\ x.state = "Failed" => y.state = "Failed"

LEMMA SetStateType ==
  ASSUME NEW x \in Receiver, NEW new \in TransferState
  PROVE  /\ SetState(x, new) \in Receiver
         /\ SetState(x, new).id = x.id /\ SetState(x, new).registered = x.registered
         /\ SetState(x, new).role = x.role /\ SetState(x, new).socket = x.socket
         /\ SetState(x, new).deleted = x.deleted
         /\ new # x.state => /\ SetState(x, new).state = NextState(x, new)
                             /\ SetState(x, new).last = x.state
<1>1. x.state \in TransferState /\ x.last \in TransferState
  BY DEF Receiver
<1>2. NextState(x, new) \in TransferState
  BY <1>1 DEF NextState
<1>3. CASE new = x.state
  BY <1>3 DEF SetState
<1>4. CASE new # x.state
  <2> DEFINE y == [x EXCEPT !.state = NextState(x, new), !.last = x.state]
  <2>1. SetState(x, new) = y BY <1>4 DEF SetState
  <2>2. /\ y \in Receiver /\ y.id = x.id /\ y.registered = x.registered /\ y.role = x.role
        /\ y.socket = x.socket /\ y.deleted = x.deleted
        /\ y.state = NextState(x, new) /\ y.last = x.state
    BY <1>1, <1>2 DEF Receiver
  <2> QED BY <2>1, <2>2
<1> QED BY <1>3, <1>4

\* a transfer that ended is not started again, whatever it is asked for
LEMMA NoRevival ==
  ASSUME NEW x \in Receiver, NEW new \in TransferState, new \notin {"Waiting", "Queued"}
  PROVE  Restated(x, SetState(x, new))
<1>1. x.state \in TransferState BY DEF Receiver
<1>2. CASE new = x.state
  BY <1>2 DEF Restated, SetState
<1>3. CASE new # x.state
  <2>0. x.state = "Failed" => NextState(x, new) = "Failed"
    BY DEF NextState, Accepted, TransferState
  <2>1. ~IsActive(x) => NextState(x, new) = x.state \/ NextState(x, new) \notin {"Waiting", "Transfering", "Paused"}
    BY <1>1, <1>3 DEF IsActive, NextState, Accepted, TransferState
  <2> QED BY <1>3, <2>0, <2>1, SetStateType DEF Restated, IsActive
<1> QED BY <1>2, <1>3

LEMMA FailRestates ==
  ASSUME NEW x \in Receiver
  PROVE  /\ Restated(x, Fail(x)) /\ ~IsActive(Fail(x))
         /\ ~IsTerminal(x) => Fail(x).state = "Failed"
  BY DEF Restated, Fail, Receiver, TransferState, IsActive, IsTerminal, Terminal

\* hanging up, ending and leaving the registry touch their own fields only
LEMMA HungUpType ==
  ASSUME NEW x \in Receiver
  PROVE  /\ HungUp(x) \in Receiver /\ HungUp(x).state = x.state /\ HungUp(x).last = x.last
         /\ HungUp(x).role = x.role /\ HungUp(x).id = x.id
         /\ HungUp(x).registered = x.registered /\ HungUp(x).deleted = x.deleted
         /\ HungUp(x).socket = IF x.socket = "open" THEN "closing" ELSE x.socket
  BY DEF HungUp, Receiver

LEMMA OverType ==
  ASSUME NEW x \in Receiver
  PROVE  /\ Over(x) \in Receiver /\ Over(x).state = x.state /\ Over(x).last = x.state
         /\ Over(x).role = x.role /\ Over(x).id = x.id
         /\ Over(x).registered = x.registered /\ Over(x).deleted = x.deleted
         /\ Over(x).socket = x.socket
  BY DEF Over, Receiver

LEMMA LeftType ==
  ASSUME NEW x \in Receiver
  PROVE  /\ Left(x) \in Receiver /\ Left(x).state = x.state /\ Left(x).last = x.last
         /\ Left(x).role = x.role /\ ~Left(x).registered
         /\ Left(x).deleted = x.deleted /\ Left(x).socket = x.socket
  BY DEF Left, Receiver

LEMMA LiveRuns ==
  ASSUME NEW x \in Receiver, Live(x)
  PROVE  Live(SetState(x, "Transfering"))
<1>1. x.state \in TransferState /\ x.last \in TransferState /\ "Transfering" \in TransferState
  BY DEF Receiver, TransferState
<1>2. CASE x.state = "Transfering"
  BY <1>2 DEF SetState, Live
<1>3. CASE x.state # "Transfering"
  <2>1. NextState(x, "Transfering") \in {"Waiting", "Transfering", "Cancelled", "Failed"}
    BY <1>1, <1>3 DEF Live, NextState, Accepted
  <2> QED BY <1>1, <1>3, <2>1, SetStateType DEF Live
<1> QED BY <1>2, <1>3

(***************************************************************************)
(* The buttons, behind their guards, keep a download live.                 *)
(***************************************************************************)
LEMMA PauseRestates ==
  ASSUME NEW x \in Receiver, CanPause(x)
  PROVE  Restated(x, SetState(x, "Paused")) /\ Live(SetState(x, "Paused"))
<1>1. "Paused" \in TransferState /\ x.state \in {"Waiting", "Transfering"}
  BY DEF TransferState, CanPause
<1>2. NextState(x, "Paused") = "Paused"
  BY <1>1 DEF NextState, Accepted, TransferState
<1> QED BY <1>1, <1>2, SetStateType, NoRevival DEF Live

LEMMA ResumeRestates ==
  ASSUME NEW x \in Receiver, CanResume(x)
  PROVE  Restated(x, SetState(x, x.last)) /\ (Live(x) => Live(SetState(x, x.last)))
<1>1. x.last \in TransferState /\ x.state = "Paused" /\ x.state # "Failed"
  BY DEF Receiver, CanResume
<1>2. IsActive(x) BY <1>1 DEF IsActive
<1>3. Live(x) => NextState(x, x.last) = x.last /\ x.last \in {"Waiting", "Transfering"}
  BY <1>1 DEF Live, NextState, Accepted, TransferState
<1>4. Live(x) => x.last # x.state
  BY <1>1 DEF Live
<1> QED BY <1>1, <1>2, <1>3, <1>4, SetStateType DEF Restated, Live

LEMMA CancelRestates ==
  ASSUME NEW x \in Receiver, CanCancel(x)
  PROVE  /\ Restated(x, SetState(x, "Cancelled")) /\ Live(SetState(x, "Cancelled"))
         /\ SetState(x, "Cancelled").state = "Cancelled"
<1>1. "Cancelled" \in TransferState /\ x.state # "Cancelled"
  BY DEF TransferState, CanCancel
<1>2. NextState(x, "Cancelled") = "Cancelled"
  BY DEF CanCancel, NextState, Accepted, TransferState
<1> QED BY <1>1, <1>2, SetStateType, NoRevival DEF Live

-----------------------------------------------------------------------------
(***************************************************************************)
(* Slots.                                                                  *)
(***************************************************************************)

LEMMA ActiveIsFinite ==
  ASSUME ReceiversOK
  PROVE  /\ IsFiniteSet(Active) /\ IsFiniteSet(Deleted)
         /\ Cardinality(Active) \in Nat
<1>1. IsFiniteSet(1 .. Len(rec))
  BY FS_Interval DEF ReceiversOK
<1>2. Active \in SUBSET (1 .. Len(rec)) /\ Deleted \in SUBSET (1 .. Len(rec))
  BY DEF ReceiversOK, Active, Deleted
<1> QED BY <1>1, <1>2, FS_Subset, FS_CardinalityType

LEMMA FewerActive ==
  ASSUME ReceiversOK, CapHolds, ReceiversOK', Active' \subseteq Active
  PROVE  CapHolds'
<1>1. Cardinality(Active') <= Cardinality(Active)
  BY ActiveIsFinite, FS_Subset
<1>2. Cardinality(Active) \in Nat /\ Cardinality(Active)' \in Nat
  <2>1. IsFiniteSet(Active') BY ActiveIsFinite, FS_Subset
  <2> QED BY <2>1, ActiveIsFinite, FS_CardinalityType
<1> QED BY <1>1, <1>2, TransferServerAssumption DEF CapHolds, TransferServerAssumption

-----------------------------------------------------------------------------
(***************************************************************************)
(* The steps.                                                              *)
(***************************************************************************)

\* what a step of one Receiver leaves alone
LEMMA OneReceiver ==
  ASSUME ServerInv, NEW r \in DOMAIN rec, NEW y \in Receiver, rec' = [rec EXCEPT ![r] = y],
         ReceiverOK(y), IsActive(y) /\ ~y.deleted => IsActive(rec[r]) /\ ~rec[r].deleted
  PROVE  /\ ReceiversOK' /\ CapHolds'
         /\ DOMAIN rec' = DOMAIN rec /\ Len(rec') = Len(rec) /\ rec'[r] = y
         /\ \A s \in DOMAIN rec \ {r} : rec'[s] = rec[s]
<1>0. rec \in Seq(Receiver) /\ DOMAIN rec = 1 .. Len(rec)
  BY DEF ServerInv, ReceiversOK
<1>1. /\ DOMAIN rec' = DOMAIN rec /\ Len(rec') = Len(rec) /\ rec' \in Seq(Receiver)
      /\ rec'[r] = y /\ \A s \in DOMAIN rec \ {r} : rec'[s] = rec[s]
  BY <1>0
<1>2. ReceiversOK'
  BY <1>1 DEF ServerInv, ReceiversOK, ReceiverOK, Live, Connected
<1>3. Active' \subseteq Active
  BY <1>1 DEF Active, IsActive
<1>4. CapHolds'
  BY <1>2, <1>3, FewerActive DEF ServerInv
<1> QED BY <1>1, <1>2, <1>4

\* the registry does not change, and neither does what the Receivers have to do with it
LEMMA ReceiversChange ==
  ASSUME ServerInv, rec' \in Seq(Receiver), Len(rec') = Len(rec), UNCHANGED registry,
         \A s \in DOMAIN rec :
           /\ ReceiverOK(rec'[s]) /\ rec'[s].id = rec[s].id
           /\ rec'[s].registered = rec[s].registered /\ (rec[s].deleted => rec'[s].deleted)
           /\ IsActive(rec'[s]) => IsActive(rec[s])
  PROVE  ServerInv'
<1>1. DOMAIN rec = 1 .. Len(rec) /\ DOMAIN rec' = DOMAIN rec /\ Len(rec) \in Nat
  BY DEF ServerInv, ReceiversOK
<1>2. ReceiversOK' BY <1>1 DEF ReceiversOK, ReceiverOK, Live, Connected
<1>3. RegistryOK' BY <1>1 DEF ServerInv, RegistryOK
<1>4. StreamsGoToTheLatest' BY <1>1 DEF ServerInv, StreamsGoToTheLatest
<1>5. Active' \subseteq Active BY <1>1 DEF Active, IsActive
<1>6. CapHolds' BY <1>2, <1>5, FewerActive DEF ServerInv
<1> QED BY <1>2, <1>3, <1>4, <1>6 DEF ServerInv

LEMMA ReceiverChanges ==
  ASSUME ServerInv, NEW r \in DOMAIN rec, NEW y \in Receiver, rec' = [rec EXCEPT ![r] = y],
         ReceiverOK(y), IsActive(y) => IsActive(rec[r]), y.id = rec[r].id,
         y.registered = rec[r].registered, y.deleted = rec[r].deleted, UNCHANGED registry
  PROVE  ServerInv'
<1>1. rec \in Seq(Receiver) /\ \A s \in DOMAIN rec : ReceiverOK(rec[s])
  BY DEF ServerInv, ReceiversOK
<1>2. /\ rec' \in Seq(Receiver) /\ Len(rec') = Len(rec) /\ rec'[r] = y
      /\ \A s \in DOMAIN rec \ {r} : rec'[s] = rec[s]
  BY <1>1
<1> QED BY <1>1, <1>2, ReceiversChange

\* a Receiver leaves the registry: its entry goes with it
LEMMA LeavingKeeps ==
  ASSUME ServerInv, NEW r \in DOMAIN rec, NEW x \in Receiver, NEW y \in Receiver,
         rec' = [rec EXCEPT ![r] = y], ~y.registered, y.role = "new" => Live(y),
         IsActive(y) => IsActive(rec[r]), y.deleted = rec[r].deleted,
         x.id = rec[r].id, x.registered = rec[r].registered, registry' = Unregister(x)
  PROVE  ServerInv'
<1>0. rec \in Seq(Receiver) /\ DOMAIN rec = 1 .. Len(rec) /\ rec[r] \in Receiver /\ Len(rec) \in Nat
  BY DEF ServerInv, ReceiversOK
<1>2. /\ ReceiversOK' /\ CapHolds'
      /\ DOMAIN rec' = DOMAIN rec /\ Len(rec') = Len(rec) /\ rec'[r] = y
      /\ \A s \in DOMAIN rec \ {r} : rec'[s] = rec[s]
  BY OneReceiver DEF ReceiverOK
<1>3. /\ x.registered => x.id \in Ids
      /\ registry' = IF x.registered THEN [registry EXCEPT ![x.id] = 0] ELSE registry
      /\ registry \in [Ids -> 0 .. Len(rec)]
  BY DEF Unregister, ServerInv, RegistryOK, ReceiversOK, ReceiverOK
<1>4. /\ registry' \in [Ids -> 0 .. Len(rec)]
      /\ \A id \in Ids : registry'[id] # 0 => registry'[id] = registry[id] /\ registry[id] # r
  BY <1>0, <1>3 DEF ServerInv, RegistryOK
<1>5. RegistryOK'
  BY <1>0, <1>2, <1>4 DEF ServerInv, RegistryOK
<1>6. StreamsGoToTheLatest'
  BY <1>2, <1>4 DEF ServerInv, StreamsGoToTheLatest
<1> QED BY <1>2, <1>5, <1>6 DEF ServerInv

LEMMA EndsWithKeeps ==
  ASSUME ServerInv, NEW r \in DOMAIN rec, Receives(r), NEW x, Restated(rec[r], x),
         EndsWith(r, x)
  PROVE  ServerInv'
<1> DEFINE c == [x EXCEPT !.streams = FALSE]
           y == Left(HungUp(c))
<1>1. /\ c \in Receiver /\ c.state = x.state /\ c.role = x.role /\ c.deleted = x.deleted
  BY DEF Restated, Receiver
<1>2. rec' = [rec EXCEPT ![r] = y] /\ registry' = Unregister(x) BY DEF EndsWith
<1> HIDE DEF c
<1>3. /\ y \in Receiver /\ ~y.registered /\ y.state = x.state /\ y.role = x.role
      /\ y.deleted = x.deleted
  BY <1>1, HungUpType, LeftType
<1> HIDE DEF y
<1>4. x \in Receiver /\ x.role = "main" /\ x.id = rec[r].id /\ x.registered = rec[r].registered
      /\ x.deleted = rec[r].deleted /\ (IsActive(x) => IsActive(rec[r]))
  BY DEF Restated, Receives
<1> QED BY <1>2, <1>3, <1>4, LeavingKeeps DEF IsActive

(***************************************************************************)
(* Admission.                                                              *)
(***************************************************************************)
LEMMA OnNewConnectionKeeps ==
  ASSUME ServerInv, OnNewConnection
  PROVE  ServerInv'
<1>0. rec \in Seq(Receiver) /\ DOMAIN rec = 1 .. Len(rec) /\ Len(rec) \in Nat
  BY DEF ServerInv, ReceiversOK
<1>1. NewReceiver \in Receiver /\ ReceiverOK(NewReceiver) /\ ~NewReceiver.registered
  BY DEF NewReceiver, Receiver, TransferState, ReceiverOK, Live
<1>2. /\ Over(HungUp(Fail(NewReceiver))) \in Receiver
      /\ ReceiverOK(Over(HungUp(Fail(NewReceiver))))
      /\ ~Over(HungUp(Fail(NewReceiver))).registered
  <2> DEFINE f == Fail(NewReceiver)
  <2>1. f \in Receiver /\ f.state = "Failed" /\ ~f.registered
    BY <1>1 DEF Fail, NewReceiver, Receiver, TransferState
  <2> HIDE DEF f
  <2>2. /\ Over(HungUp(f)) \in Receiver /\ Over(HungUp(f)).state = "Failed"
        /\ ~Over(HungUp(f)).registered
    BY <2>1, HungUpType, OverType
  <2> QED BY <2>2 DEF ReceiverOK, Live, f
<1>3. PICK x \in Receiver : ReceiverOK(x) /\ ~x.registered /\ rec' = Append(rec, x)
  BY <1>1, <1>2 DEF OnNewConnection
<1>4. /\ rec' \in Seq(Receiver) /\ Len(rec') = Len(rec) + 1 /\ DOMAIN rec' = 1 .. Len(rec) + 1
      /\ rec'[Len(rec) + 1] = x /\ \A s \in DOMAIN rec : rec'[s] = rec[s]
  BY <1>0, <1>3
<1>5. ReceiversOK'
  BY <1>0, <1>3, <1>4 DEF ServerInv, ReceiversOK, ReceiverOK, Live, Connected
<1>6. RegistryOK' /\ StreamsGoToTheLatest'
  <2>1. UNCHANGED registry BY DEF OnNewConnection
  <2>2. RegistryOK' BY <1>0, <1>4, <2>1 DEF ServerInv, RegistryOK
  <2>3. StreamsGoToTheLatest'
    BY <1>0, <1>3, <1>4, <2>1 DEF ServerInv, StreamsGoToTheLatest, ReceiversOK
  <2> QED BY <2>2, <2>3
<1>7. ASSUME Cap > 0 PROVE Cardinality(Active) < Cap
  <2>1. PICK ghosts \in SUBSET Deleted : Cardinality(Active \cup ghosts) < Cap
    BY <1>7 DEF OnNewConnection, Admit, ActiveDownloadCounts
  <2>2. IsFiniteSet(Active \cup Deleted) /\ IsFiniteSet(Active)
    BY ActiveIsFinite, FS_Union DEF ServerInv
  <2>3. IsFiniteSet(Active \cup ghosts) /\ Active \in SUBSET (Active \cup ghosts)
    BY <2>2, FS_Subset
  <2>4. Cardinality(Active) <= Cardinality(Active \cup ghosts)
    BY <2>3, FS_Subset
  <2>5. Cardinality(Active) \in Nat /\ Cardinality(Active \cup ghosts) \in Nat
    BY <2>2, <2>3, FS_CardinalityType
  <2> QED BY <2>1, <2>4, <2>5, TransferServerAssumption DEF TransferServerAssumption
<1>8. CapHolds'
  <2>1. Active' \subseteq Active \cup {Len(rec) + 1}
    BY <1>0, <1>4 DEF Active, IsActive
  <2>2. IsFiniteSet(Active) /\ Cardinality(Active) \in Nat
    BY ActiveIsFinite DEF ServerInv
  <2>3. /\ IsFiniteSet(Active \cup {Len(rec) + 1})
        /\ Cardinality(Active \cup {Len(rec) + 1}) <= Cardinality(Active) + 1
    <3>1. Len(rec) + 1 \notin Active BY <1>0 DEF Active
    <3>2. /\ IsFiniteSet(Active \cup {Len(rec) + 1})
          /\ Cardinality(Active \cup {Len(rec) + 1}) = Cardinality(Active) + 1
      BY <2>2, <3>1, FS_AddElement, Zenon
    <3> QED BY <2>2, <3>2
  <2>4. IsFiniteSet(Active') /\ Cardinality(Active') <= Cardinality(Active \cup {Len(rec) + 1})
    BY <2>1, <2>3, FS_Subset
  <2>5. Cardinality(Active') \in Nat /\ Cardinality(Active \cup {Len(rec) + 1}) \in Nat
    BY <2>3, <2>4, FS_CardinalityType
  <2> QED BY <1>7, <2>2, <2>3, <2>4, <2>5, TransferServerAssumption
       DEF CapHolds, TransferServerAssumption
<1> QED BY <1>5, <1>6, <1>8 DEF ServerInv

(***************************************************************************)
(* Registration.  The Receivers made later have not registered this id     *)
(* yet: the headers of one id come in order.                               *)
(***************************************************************************)
LEMMA HeaderAcceptedKeeps ==
  ASSUME ServerInv, NEW r \in DOMAIN rec, HeaderAccepted(r)
  PROVE  ServerInv'
<1>0. rec \in Seq(Receiver) /\ DOMAIN rec = 1 .. Len(rec) /\ rec[r] \in Receiver /\ Len(rec) \in Nat
  BY DEF ServerInv, ReceiversOK
<1> DEFINE x == SetState(rec[r], "Transfering")
<1>1. PICK id \in Ids :
        /\ \A s \in DOMAIN rec : s > r => ~(rec[s].role = "main" /\ rec[s].id = id)
        /\ rec' = [rec EXCEPT ![r] = [x EXCEPT !.role = "main", !.id = id, !.registered = TRUE]]
        /\ registry' = [registry EXCEPT ![id] = r]
  BY DEF HeaderAccepted
<1>2. rec[r].role = "new" /\ rec[r].socket = "open" /\ ~rec[r].deleted
      /\ Live(rec[r]) /\ ~rec[r].registered
  BY <1>0 DEF HeaderAccepted, Expects, ServerInv, ReceiversOK, ReceiverOK
<1>3. Restated(rec[r], x) /\ Live(x)
  <2>1. "Transfering" \in TransferState BY DEF TransferState
  <2> QED BY <1>0, <1>2, <2>1, NoRevival, LiveRuns
<1> HIDE DEF x
<1> DEFINE y == [x EXCEPT !.role = "main", !.id = id, !.registered = TRUE]
<1>4. /\ y \in Receiver /\ y.role = "main" /\ y.id = id /\ y.registered /\ Live(y)
      /\ y.deleted = x.deleted /\ y.state = x.state /\ rec' = [rec EXCEPT ![r] = y]
      /\ y.socket = "open"
  BY <1>1, <1>2, <1>3 DEF Restated, Receiver, Live
<1> HIDE DEF y
<1>5. /\ ReceiversOK' /\ CapHolds'
      /\ DOMAIN rec' = DOMAIN rec /\ Len(rec') = Len(rec) /\ rec'[r] = y
      /\ \A s \in DOMAIN rec \ {r} : rec'[s] = rec[s]
  <2>1. ReceiverOK(y) BY <1>4 DEF ReceiverOK, Connected
  <2>2. IsActive(y) /\ ~y.deleted => IsActive(rec[r]) /\ ~rec[r].deleted
    BY <1>2, <1>3, <1>4 DEF Restated, IsActive
  <2> QED BY <1>4, <2>1, <2>2, OneReceiver
<1>6. registry \in [Ids -> 0 .. Len(rec)] /\ r \in 1 .. Len(rec)
      /\ registry' \in [Ids -> 0 .. Len(rec)]
      /\ registry'[id] = r /\ \A i \in Ids \ {id} : registry'[i] = registry[i]
  BY <1>0, <1>1 DEF ServerInv, RegistryOK
<1>7. RegistryOK'
  BY <1>0, <1>2, <1>4, <1>5, <1>6 DEF ServerInv, RegistryOK
<1>8. StreamsGoToTheLatest'
  <2> SUFFICES ASSUME NEW i \in Ids, registry'[i] # 0, NEW s \in DOMAIN rec,
                      rec'[s].id = i, rec'[s].registered, ~rec'[s].deleted
               PROVE  s <= registry'[i]
    BY <1>5 DEF StreamsGoToTheLatest
  <2>1. CASE i = id
    <3>1. CASE s = r BY <1>0, <1>6, <2>1, <3>1
    <3>2. CASE s # r
      <4>1. rec[s].registered /\ rec[s].id = id BY <1>5, <2>1, <3>2
      <4>2. rec[s].role = "main" BY <4>1 DEF ServerInv, ReceiversOK, ReceiverOK
      <4> QED BY <1>0, <1>1, <1>6, <2>1, <4>1, <4>2
    <3> QED BY <3>1, <3>2
  <2>2. CASE i # id
    <3>1. s # r BY <1>4, <1>5, <2>2
    <3> QED BY <1>5, <1>6, <2>2, <3>1 DEF ServerInv, StreamsGoToTheLatest
  <2> QED BY <2>1, <2>2
<1> QED BY <1>5, <1>7, <1>8 DEF ServerInv

\* a registered Receiver is none that waits for its first packet
LEMMA StreamAttachKeeps ==
  ASSUME ServerInv, NEW r \in DOMAIN rec, StreamAttach(r)
  PROVE  ServerInv'
<1>0. /\ rec[r] \in Receiver /\ rec \in Seq(Receiver) /\ UNCHANGED registry
      /\ \A s \in DOMAIN rec : ReceiverOK(rec[s])
  BY DEF ServerInv, ReceiversOK, StreamAttach
<1> DEFINE x == [rec[r] EXCEPT !.role = "proxy"]
<1>1. x \in Receiver /\ x.id = rec[r].id /\ x.registered = rec[r].registered
      /\ x.deleted = rec[r].deleted /\ x.state = rec[r].state /\ x.role = "proxy"
  BY <1>0 DEF Receiver
<1>2. ~rec[r].registered
  BY <1>0 DEF StreamAttach, Expects, ReceiverOK
<1>3. PICK id \in Ids :
        rec' = IF registry[id] = 0 THEN [rec EXCEPT ![r] = HungUp(x)]
               ELSE [rec EXCEPT ![r] = [x EXCEPT !.socket = "closed"],
                                ![registry[id]].streams =
                                  ~rec[registry[id]].deleted /\ ~IsTerminal(rec[registry[id]])]
  BY DEF StreamAttach
<1> HIDE DEF x
<1>4. CASE registry[id] = 0
  <2> DEFINE y == HungUp(x)
  <2>1. /\ y \in Receiver /\ y.id = rec[r].id /\ y.registered = rec[r].registered
        /\ y.deleted = rec[r].deleted /\ y.state = rec[r].state /\ y.role = "proxy"
    BY <1>1, HungUpType
  <2>2. rec' = [rec EXCEPT ![r] = y] BY <1>3, <1>4
  <2> HIDE DEF y
  <2> QED BY <1>0, <1>2, <2>1, <2>2, ReceiverChanges DEF ReceiverOK, IsActive
<1>5. CASE registry[id] # 0
  <2> DEFINE t == registry[id]
             y == [x EXCEPT !.socket = "closed"]
             z == [rec[t] EXCEPT !.streams = ~rec[t].deleted /\ ~IsTerminal(rec[t])]
  <2>1. t \in DOMAIN rec /\ rec[t] \in Receiver /\ rec[t].registered
    BY <1>0, <1>5 DEF ServerInv, ReceiversOK, RegistryOK
  <2>2. t # r BY <1>2, <2>1
  <2>3. /\ y \in Receiver /\ y.id = rec[r].id /\ y.registered = rec[r].registered
        /\ y.deleted = rec[r].deleted /\ y.state = rec[r].state /\ y.role = "proxy"
    BY <1>1 DEF Receiver
  <2>4. /\ z \in Receiver /\ z.id = rec[t].id /\ z.registered = rec[t].registered
        /\ z.deleted = rec[t].deleted /\ z.state = rec[t].state /\ z.last = rec[t].last
        /\ z.role = rec[t].role /\ z.socket = rec[t].socket
    <3>1. (~rec[t].deleted /\ ~IsTerminal(rec[t])) \in BOOLEAN OBVIOUS
    <3> QED BY <2>1, <3>1 DEF Receiver
  <2>5. rec' = [rec EXCEPT ![r] = y, ![t] = z]
    <3>1. rec' = [rec EXCEPT ![r] = y,
                             ![t].streams = ~rec[t].deleted /\ ~IsTerminal(rec[t])]
      BY <1>3, <1>5
    <3> QED BY <1>0, <2>1, <2>2, <3>1
  <2> HIDE DEF t, y, z
  <2>6. /\ rec' \in Seq(Receiver) /\ Len(rec') = Len(rec) /\ rec'[r] = y /\ rec'[t] = z
        /\ \A s \in DOMAIN rec \ {r, t} : rec'[s] = rec[s]
    BY <1>0, <2>1, <2>2, <2>3, <2>4, <2>5
  <2>7. ReceiverOK(y) BY <1>2, <2>3 DEF ReceiverOK
  <2>8. ReceiverOK(z) BY <1>0, <2>1, <2>4 DEF ReceiverOK, Live, Connected
  <2>9. (IsActive(y) => IsActive(rec[r])) /\ (IsActive(z) => IsActive(rec[t]))
    BY <2>3, <2>4 DEF IsActive
  <2>10. ASSUME NEW s \in DOMAIN rec
         PROVE  /\ ReceiverOK(rec'[s]) /\ rec'[s].id = rec[s].id
                /\ rec'[s].registered = rec[s].registered /\ (rec[s].deleted => rec'[s].deleted)
                /\ IsActive(rec'[s]) => IsActive(rec[s])
    <3>1. CASE s = r BY <2>3, <2>6, <2>7, <2>9, <3>1
    <3>2. CASE s = t BY <2>4, <2>6, <2>8, <2>9, <3>2
    <3>3. CASE s \notin {r, t} BY <1>0, <2>6, <3>3
    <3> QED BY <3>1, <3>2, <3>3
  <2> QED BY <1>0, <2>6, <2>10, ReceiversChange
<1> QED BY <1>4, <1>5

\* a Receiver that fails may stay registered, whether it hangs up or not
LEMMA FailureKeeps ==
  ASSUME ServerInv, NEW r \in DOMAIN rec, ~rec[r].deleted, UNCHANGED registry,
         \/ ~IsTerminal(rec[r]) /\ rec' = [rec EXCEPT ![r] = Over(HungUp(Fail(@)))]
         \/ rec' = [rec EXCEPT ![r] = Over(Fail(@))]
  PROVE  ServerInv'
<1> DEFINE f == Fail(rec[r])
<1>0. rec[r] \in Receiver /\ ReceiverOK(rec[r]) BY DEF ServerInv, ReceiversOK
<1>1. Restated(rec[r], f) /\ ~IsActive(f) /\ (~IsTerminal(rec[r]) => f.state = "Failed")
  BY <1>0, FailRestates
<1>2. f.state = "Failed" \/ f = rec[r] BY <1>0 DEF Fail, Receiver
<1> HIDE DEF f
<1>3. CASE ~IsTerminal(rec[r]) /\ rec' = [rec EXCEPT ![r] = Over(HungUp(f))]
  <2> DEFINE y == Over(HungUp(f))
  <2>1. /\ y \in Receiver /\ y.id = rec[r].id /\ y.registered = rec[r].registered
        /\ y.role = rec[r].role /\ y.deleted = rec[r].deleted /\ y.state = "Failed"
        /\ y.socket = IF rec[r].socket = "open" THEN "closing" ELSE rec[r].socket
    <3>1. HungUp(f) \in Receiver BY <1>1, HungUpType DEF Restated
    <3> QED BY <1>1, <1>3, <3>1, HungUpType, OverType DEF Restated
  <2>2. rec' = [rec EXCEPT ![r] = y] BY <1>3
  <2> HIDE DEF y
  <2>3. ReceiverOK(y) BY <1>0, <2>1 DEF ReceiverOK, Live, Connected
  <2> QED BY <2>1, <2>2, <2>3, ReceiverChanges DEF IsActive
<1>4. CASE rec' = [rec EXCEPT ![r] = Over(f)]
  <2> DEFINE y == Over(f)
  <2>1. /\ y \in Receiver /\ y.id = rec[r].id /\ y.registered = rec[r].registered
        /\ y.role = rec[r].role /\ y.deleted = rec[r].deleted /\ y.state = f.state
        /\ y.socket = rec[r].socket /\ ~IsActive(y)
    BY <1>1, OverType DEF Restated, IsActive
  <2>2. rec' = [rec EXCEPT ![r] = y] BY <1>4
  <2> HIDE DEF y
  <2>3. ReceiverOK(y) BY <1>0, <1>1, <1>2, <2>1 DEF ReceiverOK, Live, Connected, IsActive
  <2> QED BY <2>1, <2>2, <2>3, ReceiverChanges
<1> QED BY <1>3, <1>4 DEF f

LEMMA ConnectionStepKeeps ==
  ASSUME ServerInv, NEW r \in DOMAIN rec, ConnectionSteps(r)
  PROVE  ServerInv'
<1>0. rec[r] \in Receiver /\ {"Finish", "Cancelled"} \subseteq TransferState
  BY DEF ServerInv, ReceiversOK, TransferState
<1>1. CASE HeaderAccepted(r) BY <1>1, HeaderAcceptedKeeps
<1>2. CASE StreamAttach(r) BY <1>2, StreamAttachKeeps
<1>3. CASE HeaderRefused(r)
  <2> DEFINE f == Fail(rec[r])
             o == Over(HungUp(f))
             y == [o EXCEPT !.role = "main"]
  <2>1. Restated(rec[r], f) /\ ~IsActive(f) BY <1>0, FailRestates
  <2>2. rec' = [rec EXCEPT ![r] = y] /\ UNCHANGED registry BY <1>3 DEF HeaderRefused
  <2> HIDE DEF f
  <2>3. /\ o \in Receiver /\ o.id = rec[r].id /\ o.registered = rec[r].registered
        /\ o.deleted = rec[r].deleted /\ o.state = f.state
    <3>1. HungUp(f) \in Receiver BY <2>1, HungUpType DEF Restated
    <3> QED BY <2>1, <3>1, HungUpType, OverType DEF Restated
  <2> HIDE DEF o
  <2>4. /\ y \in Receiver /\ y.id = rec[r].id /\ y.registered = rec[r].registered
        /\ y.deleted = rec[r].deleted /\ y.state = f.state /\ y.role = "main"
    BY <2>3 DEF Receiver
  <2> HIDE DEF y
  <2>5. ~rec[r].registered
    BY <1>3 DEF HeaderRefused, Expects, ServerInv, ReceiversOK, ReceiverOK
  <2> QED BY <2>1, <2>2, <2>4, <2>5, ReceiverChanges DEF ReceiverOK, IsActive
<1>4. CASE FinishPacket(r)
  BY <1>0, <1>4, NoRevival, EndsWithKeeps DEF FinishPacket
<1>5. CASE WriteFails(r)
  BY <1>0, <1>5, FailRestates, EndsWithKeeps DEF WriteFails
<1>6. CASE CancelPacket(r)
  BY <1>0, <1>6, NoRevival, EndsWithKeeps DEF CancelPacket
<1>7. CASE BadPacket(r) \/ OnIdleTimeout(r)
  BY <1>7, FailureKeeps DEF BadPacket, OnIdleTimeout, FailTransfer
<1>8. CASE OversizeStripedPacket(r)
  BY <1>8, FailureKeeps DEF OversizeStripedPacket
<1>9. CASE OnDisconnected(r)
  <2> DEFINE f == FailUnlessEnded(rec[r])
             c == [f EXCEPT !.socket = "closed"]
             y == Left(Over(c))
  <2>1. Restated(rec[r], f) /\ ~IsActive(f)
    BY <1>0, FailRestates DEF FailUnlessEnded, Restated, IsActive, IsTerminal, Terminal
  <2>2. rec' = [rec EXCEPT ![r] = y] /\ registry' = Unregister(rec[r])
    BY <1>9 DEF OnDisconnected
  <2>3. (rec[r].role = "new" => Live(f))
    BY <1>0, <2>1 DEF ServerInv, ReceiversOK, ReceiverOK, Live, FailUnlessEnded, Fail,
                      IsTerminal, Terminal, Receiver
  <2> HIDE DEF f
  <2>4. /\ c \in Receiver /\ c.deleted = rec[r].deleted /\ c.state = f.state
        /\ c.role = rec[r].role
    BY <2>1 DEF Restated, Receiver
  <2> HIDE DEF c
  <2>5. /\ y \in Receiver /\ ~y.registered /\ y.deleted = rec[r].deleted
        /\ y.state = f.state /\ y.role = rec[r].role
    BY <2>4, OverType, LeftType
  <2> HIDE DEF y
  <2>6. y.role = "new" => Live(y) BY <2>1, <2>3, <2>5 DEF Live, IsActive
  <2> QED BY <1>0, <2>1, <2>2, <2>5, <2>6, LeavingKeeps DEF IsActive
<1> QED BY <1>1, <1>2, <1>3, <1>4, <1>5, <1>6, <1>7, <1>8, <1>9 DEF ConnectionSteps

(***************************************************************************)
(* The user.                                                               *)
(***************************************************************************)
LEMMA ButtonKeeps ==
  ASSUME ServerInv, NEW r \in DOMAIN rec, NEW y, Restated(rec[r], y),
         Live(rec[r]) => Live(y), rec' = [rec EXCEPT ![r] = y], UNCHANGED registry
  PROVE  ServerInv'
<1>1. ReceiverOK(y)
  BY DEF Restated, ServerInv, ReceiversOK, ReceiverOK, Connected
<1> QED BY <1>1, ReceiverChanges DEF Restated

LEMMA NothingChanges ==
  ASSUME ServerInv, UNCHANGED <<rec, registry>>
  PROVE  ServerInv'
  BY DEF ServerInv, ReceiversOK, ReceiverOK, Live, Connected, RegistryOK,
         StreamsGoToTheLatest, CapHolds, Active, IsActive

LEMMA ButtonsKeep ==
  ASSUME ServerInv,
         OnReceiverPauseClicked \/ OnReceiverResumeClicked \/ OnReceiverCancelClicked
  PROVE  ServerInv'
<1> DEFINE r == Selected(list)
<1>1. CASE r \in DOMAIN rec
  <2>0. rec[r] \in Receiver BY <1>1 DEF ServerInv, ReceiversOK
  <2>1. CASE OnReceiverPauseClicked
    BY <1>1, <2>0, <2>1, PauseRestates, ButtonKeeps
       DEF OnReceiverPauseClicked, Change, SelectedReceiver
  <2>2. CASE OnReceiverResumeClicked
    BY <1>1, <2>0, <2>2, ResumeRestates, ButtonKeeps
       DEF OnReceiverResumeClicked, Change, SelectedReceiver
  <2>3. CASE OnReceiverCancelClicked
    <3> DEFINE c == SetState(rec[r], "Cancelled")
               y == Over(c)
    <3>1. Restated(rec[r], c) /\ Live(c) /\ c.state = "Cancelled"
      BY <2>0, <2>3, CancelRestates DEF OnReceiverCancelClicked, SelectedReceiver
    <3>2. rec' = [rec EXCEPT ![r] = y] /\ UNCHANGED registry
      BY <2>3 DEF OnReceiverCancelClicked, Change, SelectedReceiver
    <3> HIDE DEF c
    <3>3. Restated(rec[r], y) /\ Live(y)
      BY <3>1, OverType DEF Restated, Live, IsActive
    <3> HIDE DEF y
    <3> QED BY <1>1, <3>2, <3>3, ButtonKeeps
  <2> QED BY <2>1, <2>2, <2>3
<1>2. CASE r \notin DOMAIN rec
  <2>0. rec \in Seq(Receiver) BY DEF ServerInv, ReceiversOK
  <2>1. PICK y : rec' = [rec EXCEPT ![r] = y] /\ UNCHANGED registry
    BY DEF OnReceiverPauseClicked, OnReceiverResumeClicked, OnReceiverCancelClicked, Change
  <2>2. rec' = rec BY <1>2, <2>0, <2>1
  <2> QED BY <2>1, <2>2, NothingChanges
<1> QED BY <1>1, <1>2

LEMMA DeleteKeeps ==
  ASSUME ServerInv, NEW gone, DeleteReceivers(gone), UNCHANGED registry
  PROVE  ServerInv'
<1>0. rec \in Seq(Receiver) /\ DOMAIN rec = 1 .. Len(rec) /\ Len(rec) \in Nat
      /\ \A r \in DOMAIN rec : rec[r] \in Receiver
  BY DEF ServerInv, ReceiversOK
<1>1. ASSUME NEW r \in DOMAIN rec
      PROVE  /\ rec'[r] \in Receiver /\ rec'[r].state = rec[r].state /\ rec'[r].last = rec[r].last
             /\ rec'[r].role = rec[r].role
             /\ rec'[r].id = rec[r].id /\ rec'[r].registered = rec[r].registered
             /\ rec[r].deleted => rec'[r].deleted
             /\ rec'[r].deleted \/ rec'[r].socket = rec[r].socket
  <2>1. CASE r \in gone
    BY <1>0, <2>1 DEF DeleteReceivers, Receiver
  <2>2. CASE r \notin gone
    BY <1>0, <2>2 DEF DeleteReceivers
  <2> QED BY <2>1, <2>2
<1>2. DOMAIN rec' = DOMAIN rec BY DEF DeleteReceivers
<1>3. rec' \in Seq(Receiver) /\ Len(rec') = Len(rec)
  <2>1. rec' = [r \in 1 .. Len(rec) |-> rec'[r]] BY <1>0 DEF DeleteReceivers
  <2>2. rec' \in [1 .. Len(rec) -> Receiver] BY <1>0, <1>1, <2>1
  <2> QED BY <1>0, <2>2
<1>4. \A r \in DOMAIN rec : ReceiverOK(rec'[r]) /\ (IsActive(rec'[r]) => IsActive(rec[r]))
  BY <1>1 DEF ServerInv, ReceiversOK, ReceiverOK, Live, Connected, IsActive
<1> QED BY <1>1, <1>3, <1>4, ReceiversChange

LEMMA InitServer == Init => ServerInv
<1> SUFFICES ASSUME Init PROVE ServerInv OBVIOUS
<1>1. rec = <<>> /\ \A id \in Ids : registry[id] = 0
  BY DEF Init
<1>2. Active = {} BY <1>1 DEF Active
<1>3. CapHolds
  BY <1>2, FS_EmptySet, TransferServerAssumption DEF CapHolds, TransferServerAssumption
<1>4. ReceiversOK BY <1>1 DEF ReceiversOK
<1>5. RegistryOK BY <1>1 DEF Init, RegistryOK
<1>6. StreamsGoToTheLatest BY <1>1 DEF StreamsGoToTheLatest
<1> QED BY <1>3, <1>4, <1>5, <1>6 DEF ServerInv

LEMMA NextServer == ASSUME ServerInv, [Next]_vars PROVE ServerInv'
<1>1. CASE OnNewConnection BY <1>1, OnNewConnectionKeeps
<1>2. ASSUME NEW r \in DOMAIN rec, ConnectionSteps(r) PROVE ServerInv'
  BY <1>2, ConnectionStepKeeps
<1>3. CASE OnReceiverPauseClicked \/ OnReceiverResumeClicked \/ OnReceiverCancelClicked
  BY <1>3, ButtonsKeep
<1>4. CASE OnReceiverClearClicked \/ RemoveReceiverItem \/ AnswerYes
  BY <1>4, DeleteKeeps DEF OnReceiverClearClicked, RemoveReceiverItem, AnswerYes
<1>5. CASE OnCardClicked \/ AskToDelete \/ AnswerNo
  BY <1>5, NothingChanges DEF OnCardClicked, AskToDelete, AnswerNo
<1>6. CASE OnNewConnectionBusy \/ UNCHANGED vars
  BY <1>6, NothingChanges DEF OnNewConnectionBusy, vars
<1> QED BY <1>1, <1>2, <1>3, <1>4, <1>5, <1>6 DEF Next

THEOREM ServerIsSound == Spec => []ServerInv
  BY InitServer, NextServer, PTL DEF Spec

(***************************************************************************)
(* Admission (transferserver.cpp:56): never more than                      *)
(* MaxConcurrentDownloads at a time, whatever the deleted Receivers that   *)
(* the server still counts look like.                                      *)
(***************************************************************************)
THEOREM TheCapHolds == Spec => []CapHolds
<1>1. ServerInv => CapHolds BY DEF ServerInv
<1> QED BY <1>1, ServerIsSound, PTL

(***************************************************************************)
(* The registry follows retries (receiver.cpp:484): no stream goes to an   *)
(* older Receiver than the one that registered its id last.                *)
(***************************************************************************)
THEOREM StreamsFollowRetries == Spec => []StreamsGoToTheLatest
<1>1. ServerInv => StreamsGoToTheLatest BY DEF ServerInv
<1> QED BY <1>1, ServerIsSound, PTL

(***************************************************************************)
(* Downloads that are over take no more streams (receiver.cpp:264, 513,    *)
(* 737, 129): what is registered has not finished, and its connection is   *)
(* not over.  Only a download that failed is found there while it is being *)
(* closed, and only one that was deleted after that.                       *)
(***************************************************************************)
THEOREM TheEndedTakeNoStreams == Spec => []EndedDownloadsTakeNoStreams
<1>1. ServerInv => EndedDownloadsTakeNoStreams
  BY DEF ServerInv, ReceiversOK, ReceiverOK, Live, Connected, RegistryOK,
         EndedDownloadsTakeNoStreams
<1> QED BY <1>1, ServerIsSound, PTL
-----------------------------------------------------------------------------
(***************************************************************************)
(* The list of downloads.                                                  *)
(***************************************************************************)

\* a table that shows members of S, none of them twice
TablesOf(S) ==
  {t \in [rows : Seq(S), current : Nat] : t.current <= Len(t.rows) /\ IsInjective(t.rows)}

\* the selection of t is still that of y, unless it left together with its row
Kept(t, y) ==
  \/ Selected(y) = Selected(t)
  \/ Selected(y) = 0 /\ Selected(t) \notin ToSet(y.rows)

\* y is what is left of t
Follows(t, y) == ToSet(y.rows) \subseteq ToSet(t.rows) /\ Kept(t, y)

LEMMA FollowsOn ==
  ASSUME NEW a, NEW b, NEW c, Follows(a, b), Follows(b, c)
  PROVE  Follows(a, c)
  BY DEF Follows, Kept

LEMMA Removed ==
  ASSUME NEW S, NEW rows \in Seq(S), IsInjective(rows), NEW i \in 1 .. Len(rows)
  PROVE  /\ RemoveAt(rows, i) \in Seq(S) /\ Len(RemoveAt(rows, i)) = Len(rows) - 1
         /\ \A j \in 1 .. Len(rows) - 1 :
              RemoveAt(rows, i)[j] = IF j < i THEN rows[j] ELSE rows[j + 1]
         /\ IsInjective(RemoveAt(rows, i))
         /\ ToSet(RemoveAt(rows, i)) \subseteq ToSet(rows) \ {rows[i]}
<1> DEFINE n == Len(rows)
           a == SubSeq(rows, 1, i - 1)
           b == SubSeq(rows, i + 1, n)
           r == RemoveAt(rows, i)
<1>0. n \in Nat /\ DOMAIN rows = 1 .. n /\ i \in 1 .. n
  OBVIOUS
<1>1. a \in Seq(S) /\ Len(a) = i - 1 /\ \A j \in 1 .. i - 1 : a[j] = rows[j]
  <2>1. i - 1 <= n /\ 1 <= (i - 1) + 1 /\ 1 .. i - 1 \subseteq 1 .. n BY <1>0
  <2> QED BY <1>0, <2>1, SubSeqProperties
<1>2. b \in Seq(S) /\ Len(b) = n - i /\ \A j \in 1 .. n - i : b[j] = rows[i + j]
  <2> HIDE DEF n
  <2>1. i + 1 \in Int /\ n \in Int /\ \A k \in i + 1 .. n : rows[k] \in S BY <1>0
  <2>2. /\ b \in Seq(S) /\ Len(b) = IF i + 1 <= n THEN n - (i + 1) + 1 ELSE 0
        /\ \A j \in 1 .. n - (i + 1) + 1 : b[j] = rows[(i + 1) + j - 1]
    BY <2>1, SubSeqProperties
  <2> HIDE DEF b
  <2>3. n - (i + 1) + 1 = n - i /\ \A j \in 1 .. n - i : (i + 1) + j - 1 = i + j BY <1>0
  <2>4. Len(b) = n - i BY <1>0, <2>2
  <2> QED BY <2>2, <2>3, <2>4
<1>3. r = a \o b
  BY DEF RemoveAt
<1> HIDE DEF a, b, r
<1>4. /\ r \in Seq(S) /\ Len(r) = n - 1
      /\ \A j \in 1 .. n - 1 : r[j] = IF j < i THEN rows[j] ELSE rows[j + 1]
  <2>1. /\ r \in Seq(S) /\ Len(r) = Len(a) + Len(b)
        /\ \A j \in 1 .. Len(a) + Len(b) : r[j] = IF j <= Len(a) THEN a[j] ELSE b[j - Len(a)]
    BY <1>1, <1>2, <1>3, ConcatProperties
  <2> HIDE DEF n
  <2>2. ASSUME NEW j \in 1 .. n - 1 PROVE r[j] = IF j < i THEN rows[j] ELSE rows[j + 1]
    <3>1. CASE j < i
      <4>1. r[j] = a[j] /\ j \in 1 .. i - 1 BY <1>0, <1>1, <1>2, <2>1, <3>1
      <4> QED BY <1>1, <3>1, <4>1
    <3>2. CASE ~(j < i)
      <4>1. r[j] = b[j - (i - 1)] /\ j - (i - 1) \in 1 .. n - i
        BY <1>0, <1>1, <1>2, <2>1, <3>2
      <4>2. b[j - (i - 1)] = rows[i + (j - (i - 1))] BY <1>2, <4>1
      <4>3. i + (j - (i - 1)) = j + 1 BY <1>0
      <4> QED BY <3>2, <4>1, <4>2, <4>3
    <3> QED BY <3>1, <3>2
  <2> QED BY <1>0, <1>1, <1>2, <2>1, <2>2
<1> HIDE DEF n
<1> DEFINE At(j) == IF j < i THEN j ELSE j + 1
<1>5. DOMAIN r = 1 .. n - 1 /\ \A j \in 1 .. n - 1 :
        At(j) \in 1 .. n /\ At(j) # i /\ r[j] = rows[At(j)]
  BY <1>0, <1>4
<1>6. IsInjective(r)
  <2> SUFFICES ASSUME NEW j \in 1 .. n - 1, NEW k \in 1 .. n - 1, r[j] = r[k] PROVE j = k
    BY <1>5 DEF IsInjective
  <2>1. At(j) = At(k) BY <1>0, <1>5 DEF IsInjective
  <2> QED BY <1>0, <2>1
<1>7. ToSet(r) \subseteq ToSet(rows) \ {rows[i]}
  <2> SUFFICES ASSUME NEW j \in 1 .. n - 1 PROVE r[j] \in ToSet(rows) \ {rows[i]}
    BY <1>5 DEF ToSet
  <2>1. r[j] = rows[At(j)] /\ At(j) \in DOMAIN rows /\ At(j) # i BY <1>0, <1>5
  <2> HIDE DEF At
  <2>2. rows[At(j)] # rows[i] BY <1>0, <2>1 DEF IsInjective
  <2> QED BY <2>1, <2>2 DEF ToSet
<1> QED BY <1>4, <1>6, <1>7 DEF n, r

LEMMA RemoveFollows ==
  ASSUME NEW S, 0 \notin S, NEW t \in TablesOf(S), NEW i
  PROVE  RemoveTransfer(t, i) \in TablesOf(S) /\ Follows(t, RemoveTransfer(t, i))
<1>1. /\ t.rows \in Seq(S) /\ t.current \in Nat /\ t.current <= Len(t.rows)
      /\ IsInjective(t.rows) /\ t \in [rows : Seq(S), current : Nat]
  BY DEF TablesOf
<1>2. CASE i \notin 1 .. Len(t.rows)
  BY <1>2 DEF RemoveTransfer, Follows, Kept
<1>3. CASE i \in 1 .. Len(t.rows)
  <2> DEFINE y == RemoveTransfer(t, i)
             n == Len(t.rows)
             r == RemoveAt(t.rows, i)
             c == t.current
             d == CASE c = i -> 0 [] c > i -> c - 1 [] OTHER -> c
  <2>1. y = [t EXCEPT !.rows = r, !.current = d]
    BY <1>1, <1>3 DEF RemoveTransfer
  <2>2. /\ r \in Seq(S) /\ Len(r) = n - 1 /\ IsInjective(r)
        /\ \A j \in 1 .. n - 1 : r[j] = IF j < i THEN t.rows[j] ELSE t.rows[j + 1]
        /\ ToSet(r) \subseteq ToSet(t.rows) \ {t.rows[i]}
    BY <1>1, <1>3, Removed
  <2>3. n \in Nat /\ c \in Nat /\ c <= n /\ i \in 1 .. n BY <1>1, <1>3
  <2>4. y \in [rows : Seq(S), current : Nat] /\ y.rows = r /\ y.current = d /\ d \in 0 .. n - 1
    <3>1. d \in 0 .. n - 1
      <4> HIDE DEF n, c
      <4> QED BY <2>3
    <3>2. d \in Nat BY <2>3, <3>1
    <3> HIDE DEF d, r, y, n
    <3> QED BY <1>1, <2>1, <2>2, <3>1, <3>2
  <2> HIDE DEF y, r
  <2>5. y \in TablesOf(S)
    <3> HIDE DEF d
    <3> QED BY <2>2, <2>3, <2>4 DEF TablesOf
  <2>6. Kept(t, y)
    <3>1. CASE c = 0
      <4>1. d = 0 BY <2>3, <3>1
      <4> QED BY <2>4, <3>1, <4>1 DEF Kept, Selected
    <3>2. CASE c # 0 /\ c = i
      <4>1. d = 0
        <5> HIDE DEF n, c
        <5> QED BY <2>3, <3>2
      <4> QED BY <2>2, <2>4, <3>2, <4>1 DEF Kept, Selected
    <3>3. CASE c # 0 /\ c > i
      <4>1. d = c - 1 /\ d # 0 /\ d \in 1 .. n - 1 /\ ~(d < i) /\ d + 1 = c
        <5> HIDE DEF n, c
        <5> QED BY <2>3, <3>3
      <4> HIDE DEF d
      <4>2. r[d] = t.rows[c] BY <2>2, <4>1
      <4> QED BY <2>4, <3>3, <4>1, <4>2 DEF Kept, Selected
    <3>4. CASE c # 0 /\ c < i
      <4>1. d = c /\ d # 0 /\ d \in 1 .. n - 1 /\ d < i
        <5> HIDE DEF n, c
        <5> QED BY <2>3, <3>4
      <4> HIDE DEF d
      <4>2. r[d] = t.rows[c] BY <2>2, <4>1
      <4> QED BY <2>4, <3>4, <4>1, <4>2 DEF Kept, Selected
    <3> HIDE DEF c
    <3> QED BY <2>3, <3>1, <3>2, <3>3, <3>4
  <2> QED BY <2>2, <2>4, <2>5, <2>6 DEF Follows, y
<1> QED BY <1>2, <1>3

LEMMA InsertFollows ==
  ASSUME NEW S, 0 \notin S, NEW t \in TablesOf(S), NEW x \in S, x \notin ToSet(t.rows)
  PROVE  /\ InsertTransfer(t, x) \in TablesOf(S)
         /\ Selected(InsertTransfer(t, x)) = Selected(t)
         /\ ToSet(InsertTransfer(t, x).rows) \subseteq ToSet(t.rows) \cup {x}
         /\ Len(InsertTransfer(t, x).rows) = Len(t.rows) + 1
<1> DEFINE y == InsertTransfer(t, x)
           r == <<x>> \o t.rows
           n == Len(t.rows)
           c == t.current
           d == IF c = 0 THEN 0 ELSE c + 1
<1>1. /\ t.rows \in Seq(S) /\ c \in Nat /\ c <= n /\ n \in Nat
      /\ IsInjective(t.rows) /\ t \in [rows : Seq(S), current : Nat]
  BY DEF TablesOf
<1>2. /\ r \in Seq(S) /\ Len(r) = n + 1 /\ r[1] = x
      /\ \A j \in 2 .. n + 1 : r[j] = t.rows[j - 1]
  <2>1. <<x>> \in Seq(S) /\ Len(<<x>>) = 1 OBVIOUS
  <2>2. /\ r \in Seq(S) /\ Len(r) = 1 + n
        /\ \A j \in 1 .. 1 + n : r[j] = IF j <= 1 THEN <<x>>[j] ELSE t.rows[j - 1]
    BY <1>1, <2>1, ConcatProperties
  <2> HIDE DEF r, n
  <2> QED BY <1>1, <2>2
<1>3. y = [t EXCEPT !.rows = r, !.current = d]
  BY DEF InsertTransfer
<1>4. d \in 0 .. n + 1
  <2> HIDE DEF n, c
  <2> QED BY <1>1
<1>5. y \in [rows : Seq(S), current : Nat] /\ y.rows = r /\ y.current = d
  <2>1. d \in Nat BY <1>1, <1>4
  <2> HIDE DEF d, r, y, n
  <2> QED BY <1>1, <1>2, <1>3, <2>1
<1> HIDE DEF y, r
<1>6. DOMAIN r = 1 .. n + 1 /\ DOMAIN t.rows = 1 .. n
  BY <1>1, <1>2
<1>7. IsInjective(r)
  <2> SUFFICES ASSUME NEW j \in 1 .. n + 1, NEW k \in 1 .. n + 1, r[j] = r[k] PROVE j = k
    BY <1>6 DEF IsInjective
  <2> HIDE DEF n
  <2>1. ASSUME NEW l \in 2 .. n + 1
        PROVE  l - 1 \in DOMAIN t.rows /\ r[l] # x
    <3>1. l - 1 \in DOMAIN t.rows /\ r[l] = t.rows[l - 1] BY <1>1, <1>2, <1>6
    <3> QED BY <3>1 DEF ToSet
  <2>2. CASE j = 1 \/ k = 1 BY <1>1, <1>2, <2>1, <2>2
  <2>3. CASE j # 1 /\ k # 1
    <3>1. t.rows[j - 1] = t.rows[k - 1] /\ j - 1 \in DOMAIN t.rows /\ k - 1 \in DOMAIN t.rows
      BY <1>1, <1>2, <2>1, <2>3
    <3>2. j - 1 = k - 1 BY <1>1, <3>1 DEF IsInjective
    <3> QED BY <1>1, <3>2
  <2> QED BY <2>2, <2>3
<1>8. y \in TablesOf(S)
  <2> HIDE DEF d, n
  <2> QED BY <1>1, <1>2, <1>4, <1>5, <1>7 DEF TablesOf
<1>9. Selected(y) = Selected(t)
  <2>1. CASE c = 0 BY <1>5, <2>1 DEF Selected
  <2>2. CASE c # 0
    <3>1. d = c + 1 /\ d # 0 /\ d \in 2 .. n + 1 /\ d - 1 = c
      <4> HIDE DEF n, c
      <4> QED BY <1>1, <2>2
    <3> HIDE DEF d
    <3>2. r[d] = t.rows[c] BY <1>2, <3>1
    <3> QED BY <1>5, <2>2, <3>1, <3>2 DEF Selected
  <2> QED BY <2>1, <2>2
<1>10. ToSet(r) \subseteq ToSet(t.rows) \cup {x}
  <2> SUFFICES ASSUME NEW j \in 1 .. n + 1 PROVE r[j] \in ToSet(t.rows) \cup {x}
    BY <1>6 DEF ToSet
  <2> HIDE DEF n
  <2>1. j = 1 \/ (j \in 2 .. n + 1 /\ j - 1 \in DOMAIN t.rows) BY <1>1, <1>6
  <2> QED BY <1>2, <2>1 DEF ToSet
<1> QED BY <1>2, <1>5, <1>8, <1>9, <1>10 DEF y

(***************************************************************************)
(* clearCompleted(), turn by turn: the recursion of ClearCompleted has a   *)
(* solution, and in every turn what is left follows from the whole table.  *)
(***************************************************************************)
Below == {ss \in Nat \X Nat : ss[1] < ss[2]}

\* a set of naturals has a least member
LEMMA Least ==
  ASSUME NEW T, T \subseteq Nat, T # {}
  PROVE  \E x \in T : \A y \in T : x <= y
<1>1. IsWellFoundedOn(Below, Nat)
  BY NatLessThanWellFounded DEF OpToRel, Below
<1>2. PICK x \in T : \A y \in T : ~(<<y, x>> \in Below)
  BY <1>1, WFMin
<1>3. ASSUME NEW y \in T PROVE x <= y
  <2>1. x \in Nat /\ y \in Nat BY <1>2
  <2>2. ~(y < x) BY <1>2, <2>1 DEF Below
  <2> QED BY <2>1, <2>2
<1> QED BY <1>3

\* the tables after each of the first m turns
Turns(t, ended, m, g) ==
  g = [n \in 0 .. m |-> IF n = 0 THEN t ELSE ClearTurn(t, ended, g[n - 1], n)]

LEMMA TurnFollows ==
  ASSUME NEW S, 0 \notin S, NEW t \in TablesOf(S), NEW ended, NEW x \in TablesOf(S),
         Follows(t, x), NEW n
  PROVE  LET y == ClearTurn(t, ended, x, n) IN y \in TablesOf(S) /\ Follows(t, y)
<1>1. ClearTurn(t, ended, x, n) = x
      \/ \E i : ClearTurn(t, ended, x, n) = RemoveTransfer(x, i)
  BY DEF ClearTurn
<1>2. ASSUME NEW i PROVE RemoveTransfer(x, i) \in TablesOf(S) /\ Follows(t, RemoveTransfer(x, i))
  BY RemoveFollows, FollowsOn
<1> QED BY <1>1, <1>2

LEMMA TurnsFollow ==
  ASSUME NEW S, 0 \notin S, NEW t \in TablesOf(S), NEW ended, NEW m \in Nat
  PROVE  \E g : Turns(t, ended, m, g) /\ g[m] \in TablesOf(S) /\ Follows(t, g[m])
<1> DEFINE Good(n) == \E g : Turns(t, ended, n, g) /\ g[n] \in TablesOf(S) /\ Follows(t, g[n])
           Bad == {n \in Nat : ~Good(n)}
<1>1. Good(0)
  <2> DEFINE g == [n \in 0 .. 0 |-> t]
  <2>1. g[0] = t OBVIOUS
  <2>2. g = [n \in 0 .. 0 |-> IF n = 0 THEN t ELSE ClearTurn(t, ended, g[n - 1], n)]
    <3>1. \A n \in 0 .. 0 : n = 0 OBVIOUS
    <3> QED BY <3>1, Zenon
  <2>3. Follows(t, t) BY DEF Follows, Kept
  <2>4. Turns(t, ended, 0, g) BY <2>2 DEF Turns
  <2> HIDE DEF g
  <2> QED BY <2>1, <2>3, <2>4
<1>2. ASSUME NEW n \in Nat, Good(n) PROVE Good(n + 1)
  <2>1. PICK g : Turns(t, ended, n, g) /\ g[n] \in TablesOf(S) /\ Follows(t, g[n])
    BY <1>2
  <2> DEFINE h == [k \in 0 .. n + 1 |->
                     IF k = n + 1 THEN ClearTurn(t, ended, g[n], k) ELSE g[k]]
  <2>2. h[n + 1] = ClearTurn(t, ended, g[n], n + 1)
    OBVIOUS
  <2>3. \A k \in 0 .. n : h[k] = g[k]
    OBVIOUS
  <2>4. ASSUME NEW k \in 0 .. n + 1
        PROVE  h[k] = IF k = 0 THEN t ELSE ClearTurn(t, ended, h[k - 1], k)
    <3>1. CASE k = n + 1
      <4>1. k # 0 /\ k - 1 = n /\ n \in 0 .. n BY <3>1
      <4>2. h[k - 1] = g[n] BY <2>3, <4>1
      <4> HIDE DEF h
      <4> QED BY <2>2, <3>1, <4>1, <4>2
    <3>2. CASE k # n + 1
      <4>1. k \in 0 .. n /\ (k # 0 => k - 1 \in 0 .. n) BY <3>2
      <4>2. g[k] = IF k = 0 THEN t ELSE ClearTurn(t, ended, g[k - 1], k)
        BY <2>1, <4>1 DEF Turns
      <4> HIDE DEF h
      <4> QED BY <2>3, <4>1, <4>2
    <3> QED BY <3>1, <3>2
  <2>5. DOMAIN h = 0 .. n + 1 /\ h = [k \in 0 .. n + 1 |-> h[k]]
    OBVIOUS
  <2> HIDE DEF h
  <2>6. Turns(t, ended, n + 1, h)
    BY <2>4, <2>5 DEF Turns
  <2>7. h[n + 1] \in TablesOf(S) /\ Follows(t, h[n + 1])
    BY <2>1, <2>2, TurnFollows
  <2> QED BY <2>6, <2>7
<1> HIDE DEF Good
<1>3. ASSUME Bad # {} PROVE FALSE
  <2>1. PICK n \in Bad : \A k \in Bad : n <= k BY <1>3, Least
  <2>2. n \in Nat /\ n # 0 BY <1>1, <2>1
  <2>3. n - 1 \in Nat /\ (n - 1) + 1 = n BY <2>2
  <2>4. n - 1 \notin Bad BY <2>1, <2>2
  <2>5. Good((n - 1) + 1) BY <1>2, <2>3, <2>4
  <2> QED BY <2>1, <2>3, <2>5
<1> QED BY <1>3 DEF Good

\* the solution is the one that ClearCompleted takes
LEMMA ClearIsTheLastTurn ==
  ASSUME NEW t, NEW ended, NEW g, Turns(t, ended, Len(t.rows), g)
  PROVE  \E f : Turns(t, ended, Len(t.rows), f) /\ ClearCompleted(t, ended) = f[Len(t.rows)]
  BY Zenon DEF Turns, ClearCompleted

\* two solutions are the same
LEMMA OneSolution ==
  ASSUME NEW t, NEW ended, NEW m \in Nat, NEW f, NEW g,
         Turns(t, ended, m, f), Turns(t, ended, m, g)
  PROVE  f[m] = g[m]
<1> DEFINE Bad == {n \in Nat : n <= m /\ f[n] # g[n]}
<1>1. \A n \in 0 .. m : /\ f[n] = (IF n = 0 THEN t ELSE ClearTurn(t, ended, f[n - 1], n))
                         /\ g[n] = (IF n = 0 THEN t ELSE ClearTurn(t, ended, g[n - 1], n))
  BY DEF Turns
<1>2. ASSUME Bad # {} PROVE FALSE
  <2>1. PICK n \in Bad : \A k \in Bad : n <= k BY <1>2, Least
  <2>2. n \in 0 .. m BY <2>1
  <2>3. n # 0 BY <1>1, <2>1, <2>2
  <2>4. n - 1 \in Nat /\ n - 1 <= m /\ ~(n <= n - 1) BY <2>2, <2>3
  <2>5. f[n - 1] = g[n - 1] BY <2>1, <2>4
  <2> QED BY <1>1, <2>1, <2>2, <2>3, <2>5
<1> QED BY <1>2

LEMMA ClearFollows ==
  ASSUME NEW S, 0 \notin S, NEW t \in TablesOf(S), NEW ended
  PROVE  ClearCompleted(t, ended) \in TablesOf(S) /\ Follows(t, ClearCompleted(t, ended))
<1>1. Len(t.rows) \in Nat
  BY DEF TablesOf
<1>2. PICK g : /\ Turns(t, ended, Len(t.rows), g)
               /\ g[Len(t.rows)] \in TablesOf(S) /\ Follows(t, g[Len(t.rows)])
  BY <1>1, TurnsFollow
<1>3. PICK f : /\ Turns(t, ended, Len(t.rows), f)
               /\ ClearCompleted(t, ended) = f[Len(t.rows)]
  BY <1>2, ClearIsTheLastTurn
<1>4. f[Len(t.rows)] = g[Len(t.rows)]
  BY <1>1, <1>2, <1>3, OneSolution
<1> QED BY <1>2, <1>3, <1>4

(***************************************************************************)
(* What the list shows, and the row that an open dialog is about.  A       *)
(* Receiver is listed when its header has been read, so never again.       *)
(***************************************************************************)
ListInv ==
  /\ Len(rec) <= MaxConnections
  /\ list \in TablesOf(DOMAIN rec)
  /\ \A r \in ToSet(list.rows) : rec[r].role # "new"
  /\ dialog \in 0 .. Len(list.rows)

\* no Receiver goes from mReceivers, and what its header made of it stays
RolesStay ==
  /\ \A r \in DOMAIN rec : r \in DOMAIN rec' /\ (rec[r].role # "new" => rec'[r].role # "new")
  /\ Len(rec') <= MaxConnections

LEMMA OneRole ==
  ASSUME ServerInv, ListInv, NEW r \in DOMAIN rec, NEW y, rec' = [rec EXCEPT ![r] = y],
         rec[r].role # "new" => y.role # "new"
  PROVE  RolesStay
  BY DEF RolesStay, ServerInv, ReceiversOK, ListInv

LEMMA FailedRoles ==
  ASSUME NEW x \in Receiver
  PROVE  /\ Over(Fail(x)) \in Receiver /\ Over(Fail(x)).role = x.role
         /\ Over(HungUp(Fail(x))) \in Receiver /\ Over(HungUp(Fail(x))).role = x.role
<1> DEFINE f == Fail(x)
<1>1. f \in Receiver /\ f.role = x.role BY FailRestates DEF Restated
<1> HIDE DEF f
<1>2. /\ HungUp(f) \in Receiver /\ HungUp(f).role = x.role
      /\ Over(f) \in Receiver /\ Over(f).role = x.role
  BY <1>1, HungUpType, OverType
<1>3. Over(HungUp(f)) \in Receiver /\ Over(HungUp(f)).role = x.role BY <1>2, OverType
<1> QED BY <1>2, <1>3 DEF f

LEMMA EndsWithRole ==
  ASSUME ServerInv, ListInv, NEW r \in DOMAIN rec, NEW x \in Receiver, x.role = rec[r].role,
         EndsWith(r, x)
  PROVE  RolesStay
<1> DEFINE c == [x EXCEPT !.streams = FALSE]
           y == Left(HungUp(c))
<1>1. rec' = [rec EXCEPT ![r] = y] BY DEF EndsWith
<1>2. c \in Receiver /\ c.role = x.role BY DEF Receiver
<1> HIDE DEF c
<1>3. y.role = x.role BY <1>2, HungUpType, LeftType
<1> HIDE DEF y
<1> QED BY <1>1, <1>3, OneRole

LEMMA ConnectionRoles ==
  ASSUME ServerInv, ListInv, NEW r \in DOMAIN rec, ConnectionSteps(r)
  PROVE  RolesStay
<1>0. /\ rec[r] \in Receiver /\ {"Finish", "Cancelled", "Transfering"} \subseteq TransferState
      /\ rec \in Seq(Receiver) /\ Len(rec) <= MaxConnections
  BY DEF ServerInv, ReceiversOK, TransferState, ListInv
<1>1. Fail(rec[r]) \in Receiver /\ Fail(rec[r]).role = rec[r].role
  BY <1>0, FailRestates DEF Restated
<1>2. CASE HeaderRefused(r)
  <2> DEFINE o == Over(HungUp(Fail(rec[r])))
  <2>1. o \in Receiver BY <1>0, FailedRoles
  <2>2. rec' = [rec EXCEPT ![r] = [o EXCEPT !.role = "main"]] BY <1>2 DEF HeaderRefused
  <2> HIDE DEF o
  <2>3. [o EXCEPT !.role = "main"].role = "main" BY <2>1 DEF Receiver
  <2> QED BY <2>2, <2>3, OneRole
<1>3. CASE HeaderAccepted(r)
  <2> DEFINE t == SetState(rec[r], "Transfering")
  <2>1. t \in Receiver BY <1>0, SetStateType
  <2>2. PICK id \in Ids :
          rec' = [rec EXCEPT ![r] = [t EXCEPT !.role = "main", !.id = id, !.registered = TRUE]]
    BY <1>3 DEF HeaderAccepted
  <2> HIDE DEF t
  <2>3. [t EXCEPT !.role = "main", !.id = id, !.registered = TRUE].role = "main"
    BY <2>1 DEF Receiver
  <2> QED BY <2>2, <2>3, OneRole
<1>4. CASE StreamAttach(r)
  <2> DEFINE x == [rec[r] EXCEPT !.role = "proxy"]
  <2>1. x \in Receiver /\ x.role = "proxy" /\ [x EXCEPT !.socket = "closed"].role = "proxy"
    BY <1>0 DEF Receiver
  <2>2. PICK id \in Ids :
          rec' = IF registry[id] = 0 THEN [rec EXCEPT ![r] = HungUp(x)]
                 ELSE [rec EXCEPT ![r] = [x EXCEPT !.socket = "closed"],
                                  ![registry[id]].streams =
                                    ~rec[registry[id]].deleted /\ ~IsTerminal(rec[registry[id]])]
    BY <1>4 DEF StreamAttach
  <2> HIDE DEF x
  <2>3. HungUp(x).role = "proxy" BY <2>1, HungUpType
  <2>4. CASE registry[id] = 0
    <3>1. rec' = [rec EXCEPT ![r] = HungUp(x)] BY <2>2, <2>4
    <3> QED BY <2>3, <3>1, OneRole
  <2>5. CASE registry[id] # 0
    <3> DEFINE t == registry[id]
               b == ~rec[t].deleted /\ ~IsTerminal(rec[t])
               y == [x EXCEPT !.socket = "closed"]
    <3>1. rec' = [rec EXCEPT ![r] = y, ![t].streams = b] BY <2>2, <2>5
    <3>2. t \in DOMAIN rec BY <2>5 DEF ServerInv, RegistryOK, ReceiversOK
    <3>3. rec[t] \in Receiver /\ y \in Receiver /\ y.role = "proxy"
      <4>1. rec[t] \in Receiver BY <3>2 DEF ServerInv, ReceiversOK
      <4> QED BY <2>1, <4>1 DEF Receiver
    <3> HIDE DEF t, b, y
    <3>4. DOMAIN rec' = DOMAIN rec /\ Len(rec') = Len(rec) BY <1>0, <3>1
    <3>5. ASSUME NEW s \in DOMAIN rec, rec[s].role # "new" PROVE rec'[s].role # "new"
      <4>1. CASE s # r /\ s # t
        <5>1. rec'[s] = rec[s] BY <1>0, <3>1, <4>1
        <5> QED BY <3>5, <5>1
      <4>2. CASE s = t /\ s # r
        <5>1. rec'[t] = [rec[t] EXCEPT !.streams = b] BY <1>0, <3>1, <3>2, <4>2
        <5>2. rec'[t].role = rec[t].role BY <3>3, <5>1 DEF Receiver
        <5> QED BY <3>5, <4>2, <5>2
      <4>3. CASE s = r /\ s # t BY <1>0, <3>1, <3>3, <4>3
      <4>4. CASE s = r /\ s = t
        <5>1. rec'[r] = [y EXCEPT !.streams = b] BY <1>0, <3>1, <4>4
        <5>2. rec'[r].role = y.role BY <3>3, <5>1 DEF Receiver
        <5> QED BY <3>3, <4>4, <5>2
      <4> QED BY <4>1, <4>2, <4>3, <4>4
    <3> QED BY <1>0, <3>4, <3>5 DEF RolesStay
  <2> QED BY <2>4, <2>5
<1>5. CASE FinishPacket(r)
  BY <1>0, <1>5, SetStateType, EndsWithRole DEF FinishPacket
<1>6. CASE WriteFails(r)
  BY <1>1, <1>6, EndsWithRole DEF WriteFails
<1>7. CASE CancelPacket(r)
  BY <1>0, <1>7, SetStateType, EndsWithRole DEF CancelPacket
<1>8. CASE BadPacket(r) \/ OnIdleTimeout(r)
  <2>1. rec' = [rec EXCEPT ![r] = Over(HungUp(Fail(rec[r])))]
    BY <1>8 DEF BadPacket, OnIdleTimeout, FailTransfer
  <2>2. Over(HungUp(Fail(rec[r]))).role = rec[r].role BY <1>0, FailedRoles
  <2> QED BY <2>1, <2>2, OneRole
<1>9. CASE OversizeStripedPacket(r)
  <2>1. rec' = [rec EXCEPT ![r] = Over(Fail(rec[r]))] BY <1>9 DEF OversizeStripedPacket
  <2>2. Over(Fail(rec[r])).role = rec[r].role BY <1>0, FailedRoles
  <2> QED BY <2>1, <2>2, OneRole
<1>10. CASE OnDisconnected(r)
  <2> DEFINE f == FailUnlessEnded(rec[r])
             c == [f EXCEPT !.socket = "closed"]
             y == Left(Over(c))
  <2>1. f \in Receiver /\ f.role = rec[r].role BY <1>0, <1>1 DEF FailUnlessEnded
  <2>2. rec' = [rec EXCEPT ![r] = y] BY <1>10 DEF OnDisconnected
  <2> HIDE DEF f
  <2>3. c \in Receiver /\ c.role = rec[r].role BY <2>1 DEF Receiver
  <2> HIDE DEF c
  <2>4. y.role = rec[r].role BY <2>3, OverType, LeftType
  <2> HIDE DEF y
  <2> QED BY <2>2, <2>4, OneRole
<1> QED BY <1>2, <1>3, <1>4, <1>5, <1>6, <1>7, <1>8, <1>9, <1>10 DEF ConnectionSteps

\* the card that is selected is that of a Receiver
LEMMA SelectedIsListed ==
  ASSUME ListInv, list.current # 0
  PROVE  Selected(list) \in DOMAIN rec /\ Selected(list) \in ToSet(list.rows)
<1>1. list.rows \in Seq(DOMAIN rec) /\ list.current \in DOMAIN list.rows
  BY DEF ListInv, TablesOf
<1> QED BY <1>1 DEF Selected, ToSet

LEMMA AllRoles ==
  ASSUME ServerInv, ListInv, [Next]_vars
  PROVE  RolesStay
<1>0. rec \in Seq(Receiver) /\ DOMAIN rec = 1 .. Len(rec) /\ Len(rec) \in Nat /\ MaxConnections \in Nat
      /\ \A r \in DOMAIN rec : rec[r] \in Receiver
  BY TransferServerAssumption DEF ServerInv, ReceiversOK, TransferServerAssumption
<1>1. CASE OnNewConnection
  <2>1. PICK x : rec' = Append(rec, x) BY <1>1 DEF OnNewConnection
  <2>2. Len(rec) < MaxConnections BY <1>1 DEF OnNewConnection
  <2>3. Len(rec') = Len(rec) + 1 /\ \A r \in DOMAIN rec : r \in DOMAIN rec' /\ rec'[r] = rec[r]
    BY <1>0, <2>1
  <2> QED BY <1>0, <2>2, <2>3 DEF RolesStay
<1>2. ASSUME NEW r \in DOMAIN rec, ConnectionSteps(r) PROVE RolesStay
  BY <1>2, ConnectionRoles
<1>3. CASE OnReceiverPauseClicked \/ OnReceiverResumeClicked \/ OnReceiverCancelClicked
  <2> DEFINE x == rec[Selected(list)]
  <2>1. list.current # 0
    BY <1>3 DEF OnReceiverPauseClicked, OnReceiverResumeClicked, OnReceiverCancelClicked
  <2>2. Selected(list) \in DOMAIN rec /\ x \in Receiver
    BY <1>0, <2>1, SelectedIsListed
  <2>3. x.last \in TransferState /\ {"Paused", "Cancelled"} \subseteq TransferState
    BY <2>2 DEF Receiver, TransferState
  <2>4. PICK new \in TransferState :
          rec' \in {[rec EXCEPT ![Selected(list)] = SetState(x, new)],
                   [rec EXCEPT ![Selected(list)] = Over(SetState(x, new))]}
    BY <1>3, <2>3 DEF OnReceiverPauseClicked, OnReceiverResumeClicked,
                      OnReceiverCancelClicked, Change, SelectedReceiver
  <2> HIDE DEF x
  <2>5. SetState(x, new) \in Receiver /\ SetState(x, new).role = x.role BY <2>2, SetStateType
  <2>6. Over(SetState(x, new)).role = x.role BY <2>5, OverType
  <2>7. CASE rec' = [rec EXCEPT ![Selected(list)] = SetState(x, new)]
    BY <2>2, <2>5, <2>7, OneRole DEF x
  <2>8. CASE rec' = [rec EXCEPT ![Selected(list)] = Over(SetState(x, new))]
    BY <2>2, <2>6, <2>8, OneRole DEF x
  <2> QED BY <2>4, <2>7, <2>8
<1>4. CASE OnReceiverClearClicked \/ RemoveReceiverItem \/ AnswerYes
  <2>1. PICK gone : DeleteReceivers(gone)
    BY <1>4 DEF OnReceiverClearClicked, RemoveReceiverItem, AnswerYes
  <2>2. ASSUME NEW r \in DOMAIN rec PROVE r \in DOMAIN rec' /\ rec'[r].role = rec[r].role
    BY <1>0, <2>1 DEF DeleteReceivers, Receiver
  <2>3. rec' \in Seq(Receiver) /\ DOMAIN rec' = DOMAIN rec /\ DOMAIN rec' = 1 .. Len(rec')
        /\ Len(rec') \in Nat
    <3>1. ServerInv' BY NextServer
    <3>2. DOMAIN rec' = DOMAIN rec BY <2>1 DEF DeleteReceivers
    <3> QED BY <3>1, <3>2 DEF ServerInv, ReceiversOK
  <2>4. Len(rec') = Len(rec) BY <1>0, <2>3
  <2> QED BY <2>2, <2>4 DEF RolesStay, ListInv
<1>5. CASE UNCHANGED rec
  BY <1>5 DEF RolesStay, ListInv
<1> QED BY <1>1, <1>2, <1>3, <1>4, <1>5
     DEF Next, OnCardClicked, AskToDelete, AnswerNo, OnNewConnectionBusy, vars

(***************************************************************************)
(* A step and the list: a download comes to the top, downloads go, a card  *)
(* is clicked; the selection stays with its card.                          *)
(***************************************************************************)
ListStep ==
  /\ list' \in TablesOf(DOMAIN rec)
  /\ \A r \in ToSet(list'.rows) : r \in ToSet(list.rows) \/ rec'[r].role # "new"
  /\ dialog' \in 0 .. Len(list'.rows)
  /\ Kept(list, list') \/ OnCardClicked

LEMMA RowComes ==
  ASSUME ServerInv, ListInv, NEW r \in DOMAIN rec, Expects(r), rec'[r].role = "main",
         list' = InsertTransfer(list, r), UNCHANGED dialog
  PROVE  ListStep
<1>1. r \notin ToSet(list.rows) BY DEF ListInv, Expects
<1>2. 0 \notin DOMAIN rec /\ list \in TablesOf(DOMAIN rec) BY DEF ServerInv, ReceiversOK, ListInv
<1>3. /\ list' \in TablesOf(DOMAIN rec) /\ Selected(list') = Selected(list)
      /\ ToSet(list'.rows) \subseteq ToSet(list.rows) \cup {r}
      /\ Len(list'.rows) = Len(list.rows) + 1
  <2> DEFINE y == InsertTransfer(list, r)
  <2>1. /\ y \in TablesOf(DOMAIN rec) /\ Selected(y) = Selected(list)
        /\ ToSet(y.rows) \subseteq ToSet(list.rows) \cup {r} /\ Len(y.rows) = Len(list.rows) + 1
    BY <1>1, <1>2, InsertFollows
  <2>2. list' = y OBVIOUS
  <2> HIDE DEF y
  <2> QED BY <2>1, <2>2
<1>4. Len(list.rows) \in Nat BY <1>2 DEF TablesOf
<1>5. dialog' \in 0 .. Len(list'.rows) BY <1>3, <1>4 DEF ListInv
<1> QED BY <1>3, <1>5 DEF ListStep, Kept

LEMMA RowsGo ==
  ASSUME ServerInv, ListInv, list' \in TablesOf(DOMAIN rec), Follows(list, list'), dialog' = 0
  PROVE  ListStep
<1>1. Len(list'.rows) \in Nat BY DEF TablesOf
<1> QED BY <1>1 DEF ListStep, Follows

LEMMA EveryListStep ==
  ASSUME ServerInv, ListInv, [Next]_vars
  PROVE  ListStep
<1>0. /\ 0 \notin DOMAIN rec /\ list \in TablesOf(DOMAIN rec)
      /\ rec \in Seq(Receiver) /\ \A r \in DOMAIN rec : rec[r] \in Receiver
  BY DEF ServerInv, ReceiversOK, ListInv
<1>1. CASE UNCHANGED <<list, dialog>>
  BY <1>1 DEF ListStep, ListInv, Kept
<1>2. ASSUME NEW r \in DOMAIN rec, HeaderRefused(r) PROVE ListStep
  <2> DEFINE o == Over(HungUp(Fail(rec[r])))
             y == [o EXCEPT !.role = "main"]
  <2>1. o \in Receiver BY <1>0, FailedRoles
  <2>2. rec' = [rec EXCEPT ![r] = y] BY <1>2 DEF HeaderRefused
  <2> HIDE DEF o
  <2>3. y.role = "main" BY <2>1 DEF Receiver
  <2> HIDE DEF y
  <2>4. rec'[r].role = "main" BY <2>2, <2>3
  <2>5. Expects(r) /\ UNCHANGED dialog
        /\ (UNCHANGED list \/ list' = InsertTransfer(list, r))
    BY <1>2 DEF HeaderRefused
  <2> QED BY <1>1, <2>4, <2>5, RowComes
<1>3. ASSUME NEW r \in DOMAIN rec, HeaderAccepted(r) PROVE ListStep
  <2> DEFINE t == SetState(rec[r], "Transfering")
  <2>1. t \in Receiver
    <3>1. "Transfering" \in TransferState BY DEF TransferState
    <3> QED BY <1>0, <3>1, SetStateType
  <2>2. PICK id \in Ids :
          rec' = [rec EXCEPT ![r] = [t EXCEPT !.role = "main", !.id = id, !.registered = TRUE]]
    BY <1>3 DEF HeaderAccepted
  <2> HIDE DEF t
  <2>3. [t EXCEPT !.role = "main", !.id = id, !.registered = TRUE].role = "main"
    BY <2>1 DEF Receiver
  <2>4. rec'[r].role = "main" BY <2>2, <2>3
  <2>5. Expects(r) /\ UNCHANGED dialog /\ list' = InsertTransfer(list, r)
    BY <1>3 DEF HeaderAccepted
  <2> QED BY <2>4, <2>5, RowComes
<1>4. CASE OnReceiverClearClicked
  <2>1. PICK ended : list' = ClearCompleted(list, ended) BY <1>4 DEF OnReceiverClearClicked
  <2>2. dialog' = 0 BY <1>4 DEF OnReceiverClearClicked, May
  <2>3. list' \in TablesOf(DOMAIN rec) /\ Follows(list, list') BY <1>0, <2>1, ClearFollows
  <2> QED BY <2>2, <2>3, RowsGo
<1>5. CASE RemoveReceiverItem \/ AnswerYes
  <2>1. PICK i : list' = RemoveTransfer(list, i) BY <1>5 DEF RemoveReceiverItem, AnswerYes
  <2>2. dialog' = 0 BY <1>5 DEF RemoveReceiverItem, AnswerYes, May
  <2>3. list' \in TablesOf(DOMAIN rec) /\ Follows(list, list') BY <1>0, <2>1, RemoveFollows
  <2> QED BY <2>2, <2>3, RowsGo
<1>6. CASE OnCardClicked
  <2>1. PICK i \in DOMAIN list.rows : list' = SetCurrentRow(list, i)
    BY <1>6 DEF OnCardClicked
  <2>2. /\ list.rows \in Seq(DOMAIN rec) /\ i \in Nat /\ i <= Len(list.rows)
        /\ list \in [rows : Seq(DOMAIN rec), current : Nat] /\ IsInjective(list.rows)
    BY <1>0 DEF TablesOf
  <2>3. list' \in [rows : Seq(DOMAIN rec), current : Nat] /\ list'.rows = list.rows
        /\ list'.current = i
    BY <2>1, <2>2 DEF SetCurrentRow
  <2>4. list' \in TablesOf(DOMAIN rec) BY <2>2, <2>3 DEF TablesOf
  <2>5. UNCHANGED dialog BY <1>6 DEF OnCardClicked
  <2> QED BY <1>6, <2>3, <2>4, <2>5 DEF ListStep, ListInv
<1>7. CASE AskToDelete
  <2>1. list' = list /\ dialog' = list.current BY <1>7 DEF AskToDelete
  <2>2. dialog' \in 0 .. Len(list.rows) BY <1>0, <2>1 DEF TablesOf
  <2> QED BY <1>0, <2>1, <2>2 DEF ListStep, Kept
<1>8. CASE AnswerNo
  <2>1. list' = list /\ dialog' = 0 BY <1>8 DEF AnswerNo
  <2>2. dialog' \in 0 .. Len(list.rows) BY <1>0, <2>1 DEF TablesOf
  <2> QED BY <1>0, <2>1, <2>2 DEF ListStep, Kept
<1> QED
  BY <1>1, <1>2, <1>3, <1>4, <1>5, <1>6, <1>7, <1>8
  DEF Next, ConnectionSteps, OnNewConnection, OnNewConnectionBusy, StreamAttach, FinishPacket,
      WriteFails, CancelPacket, BadPacket, OversizeStripedPacket, OnDisconnected,
      OnIdleTimeout, EndsWith, FailTransfer, OnReceiverPauseClicked, OnReceiverResumeClicked,
      OnReceiverCancelClicked, Change, vars

LEMMA InitList == Init => ListInv
<1> SUFFICES ASSUME Init PROVE ListInv OBVIOUS
<1>1. rec = <<>> /\ list = EmptyTable /\ dialog = 0 BY DEF Init
<1>2. list.rows = <<>> /\ list.current = 0 /\ list \in [rows : Seq(DOMAIN rec), current : Nat]
  BY <1>1 DEF EmptyTable
<1>3. list \in TablesOf(DOMAIN rec) /\ ToSet(list.rows) = {}
  BY <1>2 DEF TablesOf, IsInjective, ToSet
<1> QED BY <1>1, <1>2, <1>3, TransferServerAssumption DEF ListInv, TransferServerAssumption

LEMMA NextList ==
  ASSUME ServerInv, ListInv, [Next]_vars
  PROVE  ListInv' /\ (Kept(list, list') \/ OnCardClicked)
<1>1. RolesStay /\ ListStep BY AllRoles, EveryListStep
<1>2. DOMAIN rec \subseteq DOMAIN rec' BY <1>1 DEF RolesStay
<1>3. list' \in TablesOf(DOMAIN rec')
  <2>1. Seq(DOMAIN rec) \subseteq Seq(DOMAIN rec') BY <1>2, SeqMonotonic
  <2> QED BY <1>1, <2>1 DEF ListStep, TablesOf
<1>4. ASSUME NEW r \in ToSet(list'.rows) PROVE rec'[r].role # "new"
  <2>1. CASE r \in ToSet(list.rows)
    <3>1. rec[r].role # "new" /\ r \in DOMAIN rec
      BY <2>1 DEF ListInv, TablesOf, ToSet
    <3> QED BY <1>1, <3>1 DEF RolesStay
  <2> QED BY <1>1, <2>1 DEF ListStep
<1> QED BY <1>1, <1>3, <1>4 DEF ListInv, ListStep, RolesStay

THEOREM ListIsSound == Spec => []ListInv
<1>1. Spec => []ServerInv BY ServerIsSound
<1>2. ServerInv /\ ListInv /\ [Next]_vars => ListInv' BY NextList
<1> QED BY <1>1, <1>2, InitList, PTL DEF Spec

(***************************************************************************)
(* The variables keep their types: the list, the selected card and the row *)
(* of an open dialog name downloads that exist, none of them listed twice  *)
(* (transfertablemodel.cpp:95, 123, 157).                                  *)
(***************************************************************************)
THEOREM ServerTypes == Spec => []TypeOK
<1>1. ASSUME ServerInv, ListInv PROVE TypeOK
  <2>1. list \in [rows : Seq(DOMAIN rec), current : Nat] /\ list.current <= Len(list.rows)
        /\ IsInjective(list.rows)
    BY <1>1 DEF ListInv, TablesOf
  <2>2. list \in [rows : Seq(DOMAIN rec), current : 0 .. Len(list.rows)] BY <2>1
  <2> QED BY <1>1, <2>1, <2>2 DEF ServerInv, ReceiversOK, RegistryOK, ListInv, TypeOK
<1> QED BY <1>1, ServerIsSound, ListIsSound, PTL

(***************************************************************************)
(* The selection stays with its card (transferlistpanel.cpp:104, 117): no  *)
(* step but a click makes a button act on another download.                *)
(***************************************************************************)
THEOREM TheSelectionStays == Spec => SelectionStays
<1>1. ASSUME ServerInv, ListInv, [Next]_vars
      PROVE  [\/ Selected(list') = Selected(list)
              \/ Selected(list') = 0 /\ Selected(list) \notin ToSet(list'.rows)
              \/ OnCardClicked]_vars
  BY <1>1, NextList DEF Kept
<1> QED BY <1>1, ServerIsSound, ListIsSound, PTL DEF Spec, SelectionStays
=============================================================================
