-------------------------- MODULE SendQueueProofs --------------------------
(***************************************************************************)
(* The upload queue, for every number of uploads, every limit and every    *)
(* folder: the list and the selection stay sound, no step brings the       *)
(* running uploads above the limit, the queue is first come, first served, *)
(* and cancelling everything stops everything.                             *)
(*                                                                         *)
(* QueueInv is the inductive invariant: the type invariant, and room for   *)
(* every file that the folder send has not taken yet.                      *)
(***************************************************************************)
EXTENDS SendQueue, FiniteSetTheorems, SequenceTheorems, WellFoundedInduction, TLAPS

-----------------------------------------------------------------------------
(* Loops *)

Below == {ss \in Nat \X Nat : ss[1] < ss[2]}

\* a set of naturals has a least member
LEMMA Least ==
  ASSUME NEW T, T \subseteq Nat, T # {}
  PROVE  \E x \in T : \A y \in T : x <= y
<1>1. IsWellFoundedOn(Below, Nat)
  BY NatLessThanWellFounded DEF OpToRel, Below
<1>2. PICK x \in T : \A y \in T : ~(<<y, x>> \in Below)
  BY <1>1, WFMin
<1>3. ASSUME NEW y \in T PROVE x <= y
  <2>1. x \in Nat /\ y \in Nat BY <1>2
  <2>2. ~(y < x) BY <1>2, <2>1 DEF Below
  <2> QED BY <2>1, <2>2
<1> QED BY <1>3

\* a set that holds 0 and with each of the turns before m the next one holds them all
LEMMA EveryTurn ==
  ASSUME NEW m \in Nat, NEW B, 0 \in B,
         \A n \in Nat : n < m /\ n \in B => n + 1 \in B
  PROVE  \A n \in 0 .. m : n \in B
<1> DEFINE Bad == {n \in Nat : n <= m /\ n \notin B}
<1>1. ASSUME Bad # {} PROVE FALSE
  <2>1. PICK n \in Bad : \A k \in Bad : n <= k BY <1>1, Least
  <2>2. n \in Nat /\ n # 0 BY <2>1
  <2>3. n - 1 \in Nat /\ (n - 1) + 1 = n /\ n - 1 < m /\ ~(n <= n - 1) BY <2>1, <2>2
  <2>4. n - 1 \in B BY <2>1, <2>3
  <2> QED BY <2>1, <2>3, <2>4
<1> QED BY <1>1

\* what a loop of m turns with the body step computes, turn by turn
Computes(g, a, m, step) ==
  g[0] = a /\ \A n \in 1 .. m : g[n] = step[<<g[n - 1], n>>]

LEMMA LoopExists ==
  ASSUME NEW S, NEW a \in S, NEW m \in Nat, NEW step \in [S \X (1 .. m) -> S]
  PROVE  \E g \in [0 .. m -> S] : Computes(g, a, m, step)
<1> DEFINE B == {n \in 0 .. m : \E g \in [0 .. n -> S] : Computes(g, a, n, step)}
<1>1. 0 \in B
  <2> DEFINE g == [n \in 0 .. 0 |-> a]
  <2>1. g \in [0 .. 0 -> S] /\ g[0] = a /\ 1 .. 0 = {} OBVIOUS
  <2> HIDE DEF g
  <2> QED BY <2>1 DEF Computes
<1>2. ASSUME NEW n \in Nat, n < m, n \in B PROVE n + 1 \in B
  <2>1. PICK g \in [0 .. n -> S] : Computes(g, a, n, step)
    BY <1>2
  <2> DEFINE h == [k \in 0 .. n + 1 |-> IF k = n + 1 THEN step[<<g[n], n + 1>>] ELSE g[k]]
  <2>2. n + 1 \in 1 .. m /\ n + 1 \in 0 .. m /\ n \in 0 .. n /\ 0 \in 0 .. n BY <1>2
  <2>3. <<g[n], n + 1>> \in S \X (1 .. m) BY <2>1, <2>2
  <2>4. step[<<g[n], n + 1>>] \in S BY <2>3
  <2>5. \A k \in 0 .. n + 1 : k # n + 1 => k \in 0 .. n BY <1>2
  <2>6. h \in [0 .. n + 1 -> S] BY <2>4, <2>5
  <2>7. h[n + 1] = step[<<g[n], n + 1>>] /\ \A k \in 0 .. n : h[k] = g[k] BY <1>2
  <2> HIDE DEF h
  <2>8. ASSUME NEW k \in 1 .. n + 1 PROVE h[k] = step[<<h[k - 1], k>>]
    <3>1. CASE k = n + 1
      <4>1. k - 1 = n BY <1>2, <3>1
      <4> QED BY <2>2, <2>7, <3>1, <4>1
    <3>2. CASE k # n + 1
      <4>1. k \in 1 .. n /\ k \in 0 .. n /\ k - 1 \in 0 .. n BY <1>2, <3>2
      <4> QED BY <2>1, <2>7, <4>1 DEF Computes
    <3> QED BY <3>1, <3>2
  <2>9. h[0] = a BY <2>1, <2>2, <2>7 DEF Computes
  <2>10. Computes(h, a, n + 1, step) BY <2>8, <2>9 DEF Computes
  <2> QED BY <2>2, <2>6, <2>10
<1> HIDE DEF B
<1>3. \A n \in 0 .. m : n \in B BY <1>1, <1>2, EveryTurn
<1> QED BY <1>3 DEF B

-----------------------------------------------------------------------------
(* Counting *)

\* of the members of a set at most k have fewer than k smaller ones
LEMMA FewHaveFewBelow ==
  ASSUME NEW n \in Nat, NEW S, S \subseteq 1 .. n, NEW k \in Int,
         NEW F, F = {u \in S : Cardinality({v \in S : v < u}) < k}
  PROVE  IsFiniteSet(F) /\ Cardinality(F) \in Nat /\ (F # {} => Cardinality(F) <= k)
<1>1. IsFiniteSet(1 .. n) BY FS_Interval
<1>2. IsFiniteSet(S) BY <1>1, FS_Subset
<1>3. IsFiniteSet(F) /\ Cardinality(F) \in Nat BY <1>2, FS_Subset, FS_CardinalityType
<1>4. ASSUME F # {} PROVE Cardinality(F) <= k
  <2> DEFINE U == {x \in Nat : \A u \in F : u <= x}
  <2>1. n \in U OBVIOUS
  <2>2. PICK t \in U : \A x \in U : t <= x
    <3> HIDE DEF U
    <3> QED BY <2>1, Least DEF U
  <2>3. t \in F
    <3>1. SUFFICES ASSUME t \notin F PROVE FALSE OBVIOUS
    <3>2. \A u \in F : u \in Nat /\ u <= t /\ u # t /\ 1 <= u BY <3>1
    <3>3. t \in Nat BY <2>2
    <3>4. PICK u \in F : TRUE BY <1>4
    <3>5. u \in Nat /\ u <= t /\ 1 <= u BY <3>2
    <3>6. t # 0 BY <3>3, <3>5
    <3>7. t - 1 \in Nat /\ \A w \in F : w <= t - 1 BY <3>2, <3>3, <3>6
    <3>8. t <= t - 1 BY <2>2, <3>7
    <3> QED BY <3>3, <3>8
  <2> DEFINE L == {v \in S : v < t}
  <2>4. IsFiniteSet(L) /\ Cardinality(L) \in Nat /\ Cardinality(L) < k
    BY <1>2, <2>3, FS_Subset, FS_CardinalityType
  <2>5. t \in Nat /\ t \in S /\ \A u \in F : u \in Nat /\ u \in S /\ u <= t
    BY <2>2, <2>3
  <2>6. F \subseteq L \cup {t}
    <3>1. \A u \in F : u < t \/ u = t BY <2>5
    <3> QED BY <2>5, <3>1
  <2>7. t \notin L BY <2>5
  <2> HIDE DEF L
  <2>8. IsFiniteSet(L \cup {t}) /\ Cardinality(L \cup {t}) = Cardinality(L) + 1
    BY <2>4, <2>7, FS_AddElement
  <2>9. F \in SUBSET (L \cup {t}) BY <2>6
  <2>10. Cardinality(F) <= Cardinality(L \cup {t}) BY <2>8, <2>9, FS_Subset
  <2> QED BY <1>3, <2>4, <2>8, <2>10
<1> QED BY <1>3, <1>4

\* fewer are below the smaller of two
LEMMA FewerBelow ==
  ASSUME NEW n \in Nat, NEW S, S \subseteq 1 .. n, NEW u \in S, NEW v \in S, v < u
  PROVE  Cardinality({w \in S : w < v}) <= Cardinality({w \in S : w < u})
<1>1. IsFiniteSet(S)
  <2>1. IsFiniteSet(1 .. n) BY FS_Interval
  <2> QED BY <2>1, FS_Subset
<1>2. IsFiniteSet({w \in S : w < u}) BY <1>1, FS_Subset
<1>3. {w \in S : w < v} \subseteq {w \in S : w < u}
  <2>1. u \in Nat /\ v \in Nat /\ \A w \in S : w \in Nat OBVIOUS
  <2>2. \A w \in S : w < v => w < u BY <2>1
  <2> QED BY <2>2
<1> QED BY <1>2, <1>3, FS_Subset

(***************************************************************************)
(* The uploads that hold a slot, and how their number changes.             *)
(***************************************************************************)
Holders(up) == {u \in DOMAIN up : HoldsSlot(up[u])}

LEMMA ActiveCountType ==
  ASSUME NEW up, NEW n \in Nat, DOMAIN up = 1 .. n
  PROVE  /\ IsFiniteSet(Holders(up)) /\ ActiveCount(up) = Cardinality(Holders(up))
         /\ ActiveCount(up) \in Nat
<1>1. IsFiniteSet(1 .. n) BY FS_Interval
<1>2. IsFiniteSet(Holders(up)) BY <1>1, FS_Subset DEF Holders
<1> QED BY <1>2, FS_CardinalityType DEF ActiveCount, Holders

\* no new holder, no higher count
LEMMA NoMoreHolders ==
  ASSUME NEW a, NEW m \in Nat, DOMAIN a = 1 .. m,
         NEW b, NEW n \in Nat, DOMAIN b = 1 .. n,
         Holders(b) \subseteq Holders(a)
  PROVE  ActiveCount(b) <= ActiveCount(a)
  BY ActiveCountType, FS_Subset

\* one new holder raises it by one at most
LEMMA OneMoreHolder ==
  ASSUME NEW a, NEW m \in Nat, DOMAIN a = 1 .. m,
         NEW b, NEW n \in Nat, DOMAIN b = 1 .. n,
         NEW x, Holders(b) \subseteq Holders(a) \cup {x}
  PROVE  ActiveCount(b) <= ActiveCount(a) + 1
<1>1. IsFiniteSet(Holders(a)) /\ ActiveCount(a) = Cardinality(Holders(a)) /\ ActiveCount(a) \in Nat
  BY ActiveCountType
<1>2. ActiveCount(b) = Cardinality(Holders(b)) /\ ActiveCount(b) \in Nat
  BY ActiveCountType
<1>3. /\ IsFiniteSet(Holders(a) \cup {x})
      /\ Cardinality(Holders(a) \cup {x}) \in {ActiveCount(a), ActiveCount(a) + 1}
  BY <1>1, FS_AddElement
<1>4. Cardinality(Holders(b)) <= Cardinality(Holders(a) \cup {x})
  BY <1>3, FS_Subset
<1> QED BY <1>1, <1>2, <1>3, <1>4

\* what the walk starts fits into the slots that are left
LEMMA WalkFits ==
  ASSUME NEW a, NEW m \in Nat, DOMAIN a = 1 .. m,
         NEW b, DOMAIN b = 1 .. m, NEW limit \in Nat, NEW F,
         F = {u \in Startable(a) :
                Cardinality({v \in Startable(a) : v < u}) < limit - ActiveCount(a)},
         Holders(b) \subseteq Holders(a) \cup F
  PROVE  ActiveCount(b) <= ActiveCount(a) \/ ActiveCount(b) <= limit
<1>1. IsFiniteSet(Holders(a)) /\ ActiveCount(a) = Cardinality(Holders(a)) /\ ActiveCount(a) \in Nat
  BY ActiveCountType
<1>2. ActiveCount(b) = Cardinality(Holders(b)) /\ ActiveCount(b) \in Nat
  BY ActiveCountType
<1>3. Startable(a) \subseteq 1 .. m /\ limit - ActiveCount(a) \in Int
  BY <1>1 DEF Startable
<1>4. /\ IsFiniteSet(F) /\ Cardinality(F) \in Nat
      /\ F # {} => Cardinality(F) <= limit - ActiveCount(a)
  BY <1>3, FewHaveFewBelow
<1>5. CASE F = {} BY <1>5, NoMoreHolders
<1>6. CASE F # {}
  <2>1. /\ IsFiniteSet(Holders(a) \cup F)
        /\ Cardinality(Holders(a) \cup F) =
             ActiveCount(a) + Cardinality(F) - Cardinality(Holders(a) \cap F)
    BY <1>1, <1>4, FS_Union
  <2>2. Cardinality(Holders(a) \cap F) \in Nat
    BY <1>4, FS_Subset, FS_CardinalityType
  <2>3. Cardinality(Holders(b)) <= Cardinality(Holders(a) \cup F)
    BY <2>1, FS_Subset
  <2>4. Cardinality(F) <= limit - ActiveCount(a) BY <1>4, <1>6
  <2> QED BY <1>1, <1>2, <1>4, <2>1, <2>2, <2>3, <2>4
<1> QED BY <1>5, <1>6

-----------------------------------------------------------------------------
(* One upload *)

LEMMA TransitionsAreTyped ==
  ASSUME NEW x \in Upload, NEW new \in TransferState
  PROVE  SetState(x, new) \in Upload /\ SetState(x, new).file = x.file
         /\ SetState(x, new).link = x.link
<1>1. NextState(x, new) \in TransferState BY DEF NextState, Upload
<1> QED BY <1>1 DEF SetState, Upload

LEMMA StatesAreAccepted ==
  /\ Accepted["Idle"] = {"Waiting", "Queued"}
  /\ Accepted["Queued"] = {"Waiting", "Cancelled"}
  /\ \A s \in {"Waiting", "Transfering", "Paused"} : "Cancelled" \in Accepted[s]
  BY DEF Accepted, TransferState

\* a good file that was never started, or queued, waits for its connection then
LEMMA StartIsTyped ==
  ASSUME NEW x \in Upload
  PROVE  /\ Start(x) \in Upload
         /\ x.file = "good" /\ x.state \in {"Idle", "Queued"} =>
              Start(x).state = "Waiting"
<1>1. "Waiting" \in TransferState BY DEF TransferState
<1>2. SetState(x, "Waiting") \in Upload BY <1>1, TransitionsAreTyped
<1>3. Start(x) \in Upload BY <1>2 DEF Start, Upload
<1>4. ASSUME x.file = "good", x.state \in {"Idle", "Queued"}
      PROVE  Start(x).state = "Waiting"
  <2>1. NextState(x, "Waiting") = "Waiting"
    BY <1>4, StatesAreAccepted DEF NextState
  <2>2. SetState(x, "Waiting").state = "Waiting" BY <1>4, <2>1 DEF SetState, Upload
  <2> QED BY <1>2, <1>4, <2>2 DEF Start, Upload
<1> QED BY <1>3, <1>4

LEMMA NewUploadIsTyped ==
  ASSUME NEW file \in {"good", "bad"}
  PROVE  /\ NewUpload(file) \in Upload /\ Start(NewUpload(file)) \in Upload
         /\ SetState(NewUpload(file), "Queued") \in Upload
         /\ ~HoldsSlot(SetState(NewUpload(file), "Queued"))
<1>1. NewUpload(file) \in Upload /\ NewUpload(file).state = "Idle"
  BY DEF NewUpload, Upload, TransferState
<1>2. "Queued" \in TransferState BY DEF TransferState
<1>3. NextState(NewUpload(file), "Queued") = "Queued"
  BY <1>1, StatesAreAccepted DEF NextState
<1>4. SetState(NewUpload(file), "Queued").state = "Queued"
  BY <1>1, <1>3 DEF SetState, Upload
<1> QED BY <1>1, <1>2, <1>4, StartIsTyped, TransitionsAreTyped DEF HoldsSlot

\* what cancel() makes of any upload neither runs nor waits in the queue
LEMMA CancelledIsTyped ==
  ASSUME NEW x \in Upload
  PROVE  /\ Cancelled(x) \in Upload
         /\ ~HoldsSlot(Cancelled(x)) /\ Cancelled(x).state # "Queued"
         /\ x.link = "none" => Cancelled(x).link = "none"
<1> DEFINE y == SetState(x, "Cancelled")
<1>1. CASE ~CanCancel(x) BY <1>1 DEF Cancelled, CanCancel, HoldsSlot
<1>2. CASE CanCancel(x)
  <2>1. y \in Upload /\ y.link = x.link
    BY TransitionsAreTyped DEF TransferState
  <2>2. NextState(x, "Cancelled") = "Cancelled"
    BY <1>2, StatesAreAccepted DEF NextState, CanCancel
  <2>3. y.state = "Cancelled" BY <1>2, <2>2 DEF SetState, Upload
  <2> HIDE DEF y
  <2>4. Settled(y) \in Upload /\ Settled(y).state = "Cancelled" /\ Settled(y).link = x.link
    BY <2>1, <2>3 DEF Settled, Upload
  <2>5. Cancelled(x) = [Settled(y) EXCEPT !.link = IF @ = "none" THEN @ ELSE "over"]
    BY <1>2 DEF Cancelled, y
  <2> QED BY <2>4, <2>5 DEF Upload, HoldsSlot
<1> QED BY <1>1, <1>2

-----------------------------------------------------------------------------
(* The list of uploads and its selection *)

Lists == [rows : Seq(Nat), current : Nat, up : Seq(Upload)]

SoundLists ==
  {l \in Lists :
     /\ l.rows \in Seq(DOMAIN l.up) /\ l.current \in 0 .. Len(l.rows)
     /\ \A i, j \in DOMAIN l.rows : i < j => l.rows[i] > l.rows[j]}

LEMMA SoundListHas ==
  ASSUME NEW l \in SoundLists
  PROVE  /\ l \in Lists /\ l.up \in Seq(Upload) /\ Len(l.up) \in Nat
         /\ DOMAIN l.up = 1 .. Len(l.up) /\ \A u \in DOMAIN l.up : l.up[u] \in Upload
         /\ l.rows \in Seq(Nat) /\ Len(l.rows) \in Nat /\ DOMAIN l.rows = 1 .. Len(l.rows)
         /\ \A i \in DOMAIN l.rows : l.rows[i] \in DOMAIN l.up
         /\ l.current \in 0 .. Len(l.rows)
         /\ l.current # 0 => Selected(l) \in DOMAIN l.up
         /\ ActiveCount(l.up) \in Nat
<1>1. /\ l \in Lists /\ l.up \in Seq(Upload) /\ Len(l.up) \in Nat
      /\ DOMAIN l.up = 1 .. Len(l.up) /\ \A u \in DOMAIN l.up : l.up[u] \in Upload
      /\ l.rows \in Seq(Nat) /\ Len(l.rows) \in Nat /\ DOMAIN l.rows = 1 .. Len(l.rows)
      /\ l.current \in 0 .. Len(l.rows)
  BY DEF SoundLists, Lists
<1>2. \A i \in DOMAIN l.rows : l.rows[i] \in DOMAIN l.up
  BY DEF SoundLists
<1>3. l.current # 0 => Selected(l) \in DOMAIN l.up
  BY <1>1, <1>2 DEF Selected
<1>4. ActiveCount(l.up) \in Nat
  BY <1>1, ActiveCountType
<1> QED BY <1>1, <1>2, <1>3, <1>4

\* other uploads in the same rows
LEMMA UploadsChange ==
  ASSUME NEW l \in SoundLists, NEW up \in Seq(Upload), Len(up) = Len(l.up)
  PROVE  [l EXCEPT !.up = up] \in SoundLists /\ [l EXCEPT !.up = up].up = up
<1> DEFINE y == [l EXCEPT !.up = up]
<1>1. y \in Lists /\ y.up = up /\ y.rows = l.rows /\ y.current = l.current
  BY SoundListHas DEF Lists
<1>2. DOMAIN up = DOMAIN l.up BY SoundListHas
<1> HIDE DEF y
<1>3. y \in SoundLists BY <1>1, <1>2 DEF SoundLists
<1> QED BY <1>1, <1>3 DEF y

\* the next upload comes in at the top
LEMMA InsertIsSound ==
  ASSUME NEW l \in SoundLists, NEW x \in Upload,
         NEW y, y = [InsertTransfer(l, Len(l.up) + 1) EXCEPT !.up = Append(@, x)]
  PROVE  y \in SoundLists /\ y.up = Append(l.up, x)
<1> DEFINE n == Len(l.up)
           m == Len(l.rows)
           r == <<n + 1>> \o l.rows
           d == IF l.current = 0 THEN 0 ELSE l.current + 1
<1>1. /\ l \in Lists /\ l.up \in Seq(Upload) /\ n \in Nat /\ m \in Nat
      /\ DOMAIN l.up = 1 .. n /\ l.rows \in Seq(Nat) /\ DOMAIN l.rows = 1 .. m
      /\ \A i \in 1 .. m : l.rows[i] \in 1 .. n
      /\ l.current \in 0 .. m
  BY SoundListHas
<1>2. y = [l EXCEPT !.rows = r, !.current = d, !.up = Append(l.up, x)]
  BY <1>1 DEF InsertTransfer, Lists
<1>3. Append(l.up, x) \in Seq(Upload) /\ DOMAIN Append(l.up, x) = 1 .. n + 1
  BY <1>1
<1>4. /\ r \in Seq(Nat) /\ Len(r) = 1 + m
      /\ \A i \in 1 .. 1 + m : r[i] = IF i <= 1 THEN n + 1 ELSE l.rows[i - 1]
  <2>1. <<n + 1>> \in Seq(Nat) /\ Len(<<n + 1>>) = 1 /\ <<n + 1>>[1] = n + 1 BY <1>1
  <2>2. /\ r \in Seq(Nat) /\ Len(r) = 1 + m
        /\ \A i \in 1 .. 1 + m : r[i] = IF i <= 1 THEN <<n + 1>>[i] ELSE l.rows[i - 1]
    BY <1>1, <2>1, ConcatProperties
  <2> HIDE DEF r, n, m
  <2> QED BY <1>1, <2>1, <2>2
<1>5. d \in 0 .. 1 + m
  <2> HIDE DEF n, m
  <2> QED BY <1>1
<1>6. DOMAIN r = 1 .. 1 + m BY <1>4
<1> HIDE DEF r, n, m
<1>7. d \in Nat BY <1>1, <1>5
<1> HIDE DEF d
<1>8. y \in Lists /\ y.rows = r /\ y.current = d /\ y.up = Append(l.up, x)
  BY <1>1, <1>2, <1>3, <1>4, <1>7 DEF Lists
<1>9. r[1] = n + 1
  <2>1. 1 \in 1 .. 1 + m BY <1>1
  <2> QED BY <1>4, <2>1
<1>10. \A i \in 1 .. 1 + m : i # 1 => i - 1 \in 1 .. m /\ r[i] = l.rows[i - 1]
  <2> SUFFICES ASSUME NEW i \in 1 .. 1 + m, i # 1
               PROVE  i - 1 \in 1 .. m /\ r[i] = l.rows[i - 1]
    OBVIOUS
  <2>1. i \in Int /\ ~(i <= 1) /\ i - 1 \in 1 .. m BY <1>1
  <2>2. r[i] = IF i <= 1 THEN n + 1 ELSE l.rows[i - 1] BY <1>4
  <2> QED BY <2>1, <2>2
<1>11. \A i \in 1 .. 1 + m : r[i] \in 1 .. n + 1
  <2> TAKE i \in 1 .. 1 + m
  <2>1. CASE i = 1 BY <1>1, <1>9, <2>1
  <2>2. CASE i # 1
    <3>1. i - 1 \in 1 .. m /\ r[i] = l.rows[i - 1] BY <1>10, <2>2
    <3>2. l.rows[i - 1] \in 1 .. n BY <1>1, <3>1
    <3> QED BY <1>1, <3>1, <3>2
  <2> QED BY <2>1, <2>2
<1>12. r \in Seq(1 .. n + 1)
  BY <1>4, <1>11
<1>13. ASSUME NEW i \in 1 .. 1 + m, NEW j \in 1 .. 1 + m, i < j PROVE r[i] > r[j]
  <2>1. j - 1 \in 1 .. m /\ r[j] = l.rows[j - 1]
    <3>1. j # 1 BY <1>13
    <3> QED BY <1>10, <3>1
  <2>2. CASE i = 1
    <3>1. r[i] = n + 1 BY <1>9, <2>2
    <3>2. l.rows[j - 1] \in 1 .. n BY <1>1, <2>1
    <3> QED BY <1>1, <2>1, <3>1, <3>2
  <2>3. CASE i # 1
    <3>1. i - 1 \in 1 .. m /\ r[i] = l.rows[i - 1] /\ i - 1 < j - 1 BY <1>13, <1>10, <2>3
    <3> QED BY <1>1, <2>1, <3>1 DEF SoundLists
  <2> QED BY <2>2, <2>3
<1>14. y \in SoundLists
  BY <1>3, <1>4, <1>5, <1>6, <1>8, <1>12, <1>13 DEF SoundLists
<1> QED BY <1>8, <1>14

\* a row leaves
LEMMA RemoveIsSound ==
  ASSUME NEW l \in SoundLists, NEW i
  PROVE  RemoveTransfer(l, i) \in SoundLists /\ RemoveTransfer(l, i).up = l.up
<1> DEFINE n == Len(l.rows)
           D == DOMAIN l.up
           a == SubSeq(l.rows, 1, i - 1)
           b == SubSeq(l.rows, i + 1, n)
           r == RemoveAt(l.rows, i)
           y == RemoveTransfer(l, i)
           d == CASE l.current = i -> 0 [] l.current > i -> l.current - 1 [] OTHER -> l.current
<1>1. /\ l \in Lists /\ l.rows \in Seq(Nat) /\ n \in Nat /\ DOMAIN l.rows = 1 .. n
      /\ l.current \in 0 .. n /\ \A j \in 1 .. n : l.rows[j] \in D
      /\ \A j, k \in 1 .. n : j < k => l.rows[j] > l.rows[k]
  BY SoundListHas DEF SoundLists
<1>2. CASE i \notin 1 .. n
  BY <1>2 DEF RemoveTransfer
<1>3. CASE i \in 1 .. n
  <2>1. a \in Seq(Nat) /\ Len(a) = i - 1 /\ \A j \in 1 .. i - 1 : a[j] = l.rows[j]
    <3> HIDE DEF n
    <3>1. i - 1 <= n /\ 1 <= (i - 1) + 1 /\ 1 .. i - 1 \subseteq 1 .. n BY <1>1, <1>3
    <3> QED BY <1>1, <1>3, <3>1, SubSeqProperties
  <2>2. b \in Seq(Nat) /\ Len(b) = n - i /\ \A j \in 1 .. n - i : b[j] = l.rows[i + j]
    <3> HIDE DEF n
    <3>1. i + 1 \in Int /\ n \in Int /\ \A k \in i + 1 .. n : l.rows[k] \in Nat
      BY <1>1, <1>3
    <3>2. /\ b \in Seq(Nat) /\ Len(b) = IF i + 1 <= n THEN n - (i + 1) + 1 ELSE 0
          /\ \A j \in 1 .. n - (i + 1) + 1 : b[j] = l.rows[(i + 1) + j - 1]
      BY <1>1, <3>1, SubSeqProperties
    <3> HIDE DEF b
    <3>3. n - (i + 1) + 1 = n - i /\ \A j \in 1 .. n - i : (i + 1) + j - 1 = i + j
      BY <1>1, <1>3
    <3>4. Len(b) = n - i BY <1>1, <1>3, <3>2
    <3> QED BY <3>2, <3>3, <3>4
  <2>3. r = a \o b BY DEF RemoveAt
  <2> HIDE DEF a, b, r, n, D
  <2>4. /\ r \in Seq(Nat) /\ Len(r) = n - 1
        /\ \A j \in 1 .. n - 1 : r[j] = IF j < i THEN l.rows[j] ELSE l.rows[j + 1]
    <3>1. /\ r \in Seq(Nat) /\ Len(r) = Len(a) + Len(b)
          /\ \A j \in 1 .. Len(a) + Len(b) : r[j] = IF j <= Len(a) THEN a[j] ELSE b[j - Len(a)]
      BY <2>1, <2>2, <2>3, ConcatProperties
    <3>2. ASSUME NEW j \in 1 .. n - 1
          PROVE  r[j] = IF j < i THEN l.rows[j] ELSE l.rows[j + 1]
      <4>1. CASE j < i
        <5>1. r[j] = a[j] /\ j \in 1 .. i - 1 BY <1>1, <1>3, <2>1, <2>2, <3>1, <4>1
        <5> QED BY <2>1, <4>1, <5>1
      <4>2. CASE ~(j < i)
        <5>1. r[j] = b[j - (i - 1)] /\ j - (i - 1) \in 1 .. n - i
          BY <1>1, <1>3, <2>1, <2>2, <3>1, <4>2
        <5>2. b[j - (i - 1)] = l.rows[i + (j - (i - 1))] BY <2>2, <5>1
        <5>3. i + (j - (i - 1)) = j + 1 BY <1>1, <1>3
        <5> QED BY <4>2, <5>1, <5>2, <5>3
      <4> QED BY <4>1, <4>2
    <3> QED BY <1>1, <1>3, <2>1, <2>2, <3>1, <3>2
  <2> DEFINE At(j) == IF j < i THEN j ELSE j + 1
  <2>5. \A j \in 1 .. n - 1 : At(j) \in 1 .. n /\ r[j] = l.rows[At(j)]
    <3> TAKE j \in 1 .. n - 1
    <3>1. At(j) \in 1 .. n BY <1>1, <1>3
    <3>2. r[j] = IF j < i THEN l.rows[j] ELSE l.rows[j + 1] BY <2>4
    <3> QED BY <3>1, <3>2
  <2>6. \A j, k \in 1 .. n - 1 : j < k => At(j) < At(k)
    BY <1>1, <1>3
  <2>7. DOMAIN r = 1 .. n - 1 BY <1>1, <1>3, <2>4
  <2> HIDE DEF At
  <2>8. \A j, k \in 1 .. n - 1 : j < k => r[j] > r[k]
    BY <1>1, <2>5, <2>6
  <2>9. \A j \in 1 .. n - 1 : r[j] \in D BY <1>1, <2>5
  <2>10. r \in Seq(D) BY <2>4, <2>7, <2>9
  <2>11. d \in 0 .. n - 1 BY <1>1, <1>3
  <2>12. y = [l EXCEPT !.rows = r, !.current = d]
    BY <1>1, <1>3 DEF RemoveTransfer, Lists, n, r
  <2> HIDE DEF d, y
  <2>13. d \in Nat BY <1>1, <1>3, <2>11
  <2>14. y \in Lists /\ y.rows = r /\ y.current = d /\ y.up = l.up
    BY <1>1, <2>4, <2>12, <2>13 DEF Lists
  <2>15. y \in SoundLists
    BY <2>4, <2>7, <2>8, <2>10, <2>11, <2>14 DEF SoundLists, D
  <2> QED BY <2>14, <2>15 DEF y
<1> QED BY <1>2, <1>3

LEMMA ClearIsSound ==
  ASSUME NEW l \in SoundLists, NEW ended
  PROVE  ClearCompleted(l, ended) \in SoundLists /\ ClearCompleted(l, ended).up = l.up
<1> DEFINE m == Len(l.rows)
           S == {x \in SoundLists : x.up = l.up}
           step == [p \in S \X (1 .. m) |-> ClearTurn(l, ended, p[1], p[2])]
<1>1. m \in Nat BY SoundListHas
<1>2. ASSUME NEW x \in S, NEW n \in 1 .. m PROVE ClearTurn(l, ended, x, n) \in S
  BY RemoveIsSound DEF ClearTurn
<1>3. step \in [S \X (1 .. m) -> S]
  <2> HIDE DEF S, m
  <2>1. \A p \in S \X (1 .. m) : ClearTurn(l, ended, p[1], p[2]) \in S BY <1>2
  <2> QED BY <2>1
<1>4. l \in S OBVIOUS
<1>5. \A x \in S, n \in 1 .. m : step[<<x, n>>] = ClearTurn(l, ended, x, n)
  <2> HIDE DEF S, m
  <2> QED OBVIOUS
<1> HIDE DEF S, step
<1>6. PICK g \in [0 .. m -> S] : Computes(g, l, m, step)
  BY <1>1, <1>3, <1>4, LoopExists
<1>7. g = [n \in 0 .. m |-> IF n = 0 THEN l ELSE ClearTurn(l, ended, g[n - 1], n)]
  <2> HIDE DEF m
  <2>1. ASSUME NEW n \in 0 .. m
        PROVE  g[n] = IF n = 0 THEN l ELSE ClearTurn(l, ended, g[n - 1], n)
    <3>1. CASE n = 0 BY <1>6, <3>1 DEF Computes
    <3>2. CASE n # 0
      <4>1. n \in 1 .. m /\ n - 1 \in 0 .. m BY <1>1, <3>2
      <4>2. g[n - 1] \in S BY <1>6, <4>1
      <4> QED BY <1>5, <1>6, <3>2, <4>1, <4>2 DEF Computes
    <3> QED BY <3>1, <3>2
  <2> QED BY <1>6, <2>1
<1>8. PICK f : /\ f = [n \in 0 .. m |-> IF n = 0 THEN l ELSE ClearTurn(l, ended, f[n - 1], n)]
               /\ ClearCompleted(l, ended) = f[m]
  BY <1>7, Zenon DEF ClearCompleted
<1>9. \A n \in 0 .. m : f[n] = IF n = 0 THEN l ELSE ClearTurn(l, ended, f[n - 1], n)
  BY <1>8
<1> DEFINE B == {n \in 0 .. m : f[n] \in S}
<1> HIDE DEF m
<1>10. 0 \in B BY <1>1, <1>4, <1>9
<1>11. ASSUME NEW n \in Nat, n < m, n \in B PROVE n + 1 \in B
  <2>1. n + 1 \in 0 .. m /\ n + 1 # 0 /\ (n + 1) - 1 = n /\ n + 1 \in 1 .. m BY <1>1, <1>11
  <2>2. f[n + 1] = ClearTurn(l, ended, f[n], n + 1) BY <1>9, <2>1
  <2> QED BY <1>2, <1>11, <2>1, <2>2
<1>12. m \in B
  <2> HIDE DEF B
  <2>1. \A n \in 0 .. m : n \in B BY <1>1, <1>10, <1>11, EveryTurn
  <2> QED BY <1>1, <2>1
<1> QED BY <1>8, <1>12 DEF S

-----------------------------------------------------------------------------
(* Sending *)

Kind == {"good", "bad", "excluded"}

\* b is a with k new uploads, and their start respects the limit
Grown(a, b, k, limit) ==
  /\ b \in SoundLists
  /\ Len(b.up) = Len(a.up) + k
  /\ \A u \in DOMAIN a.up : b.up[u] = a.up[u]
  /\ limit > 0 => ActiveCount(b.up) <= ActiveCount(a.up) \/ ActiveCount(b.up) <= limit

LEMMA GrowsOn ==
  ASSUME NEW a \in SoundLists, NEW b, NEW c, NEW j \in Nat, NEW k \in Nat, NEW limit \in Nat,
         Grown(a, b, j, limit), Grown(b, c, k, limit)
  PROVE  Grown(a, c, j + k, limit)
<1>1. b \in SoundLists /\ c \in SoundLists BY DEF Grown
<1>2. /\ Len(a.up) \in Nat /\ DOMAIN a.up = 1 .. Len(a.up) /\ ActiveCount(a.up) \in Nat
      /\ Len(b.up) \in Nat /\ DOMAIN b.up = 1 .. Len(b.up) /\ ActiveCount(b.up) \in Nat
      /\ ActiveCount(c.up) \in Nat
  BY <1>1, SoundListHas
<1>3. Len(b.up) = Len(a.up) + j /\ Len(c.up) = Len(b.up) + k BY DEF Grown
<1>4. DOMAIN a.up \subseteq DOMAIN b.up BY <1>2, <1>3
<1>5. \A u \in DOMAIN a.up : c.up[u] = a.up[u] BY <1>4 DEF Grown
<1>6. Len(c.up) = Len(a.up) + (j + k)
  <2> DEFINE p == Len(a.up)
             q == Len(b.up)
  <2>1. p \in Nat /\ q \in Nat /\ q = p + j /\ Len(c.up) = q + k BY <1>2, <1>3
  <2> HIDE DEF p, q
  <2>2. Len(c.up) = p + (j + k) BY <2>1
  <2> QED BY <2>2 DEF p
<1>7. limit > 0 => ActiveCount(c.up) <= ActiveCount(a.up) \/ ActiveCount(c.up) <= limit
  <2>1. limit > 0 => /\ ActiveCount(b.up) <= ActiveCount(a.up) \/ ActiveCount(b.up) <= limit
                     /\ ActiveCount(c.up) <= ActiveCount(b.up) \/ ActiveCount(c.up) <= limit
    BY DEF Grown
  <2> QED BY <1>2, <2>1
<1> QED BY <1>1, <1>5, <1>6, <1>7 DEF Grown

LEMMA StillGrown ==
  ASSUME NEW a \in SoundLists, NEW limit \in Nat
  PROVE  Grown(a, a, 0, limit)
  BY SoundListHas DEF Grown

\* one file
LEMMA SendFileGrows ==
  ASSUME NEW l \in SoundLists, NEW file \in {"good", "bad"}, NEW limit \in Nat
  PROVE  Grown(l, SendFile(l, file, limit), 1, limit)
<1> DEFINE full == limit > 0 /\ ActiveCount(l.up) >= limit
           x == IF full THEN SetState(NewUpload(file), "Queued") ELSE Start(NewUpload(file))
           y == SendFile(l, file, limit)
           n == Len(l.up)
<1>1. y = [InsertTransfer(l, Len(l.up) + 1) EXCEPT !.up = Append(@, x)]
  BY DEF SendFile
<1>2. x \in Upload /\ (full => ~HoldsSlot(x)) BY NewUploadIsTyped
<1> HIDE DEF x, y
<1>3. y \in SoundLists /\ y.up = Append(l.up, x) BY <1>1, <1>2, InsertIsSound
<1>4. l.up \in Seq(Upload) /\ n \in Nat /\ DOMAIN l.up = 1 .. n /\ ActiveCount(l.up) \in Nat
  BY SoundListHas
<1>5. /\ Len(y.up) = n + 1 /\ DOMAIN y.up = 1 .. n + 1
      /\ \A u \in 1 .. n : y.up[u] = l.up[u]
      /\ y.up[n + 1] = x
  BY <1>2, <1>3, <1>4
<1>6. ActiveCount(y.up) \in Nat BY <1>3, SoundListHas
<1> HIDE DEF n
<1>7. Holders(y.up) \subseteq Holders(l.up) \cup {n + 1}
  BY <1>4, <1>5 DEF Holders
<1>8. n + 1 \in Nat BY <1>4
<1>9. limit > 0 => ActiveCount(y.up) <= ActiveCount(l.up) \/ ActiveCount(y.up) <= limit
  <2>1. CASE full
    <3>1. Holders(y.up) \subseteq Holders(l.up) BY <1>2, <1>4, <1>5, <2>1 DEF Holders
    <3>2. ActiveCount(y.up) <= ActiveCount(l.up)
      BY <1>4, <1>5, <1>8, <3>1, NoMoreHolders
    <3> QED BY <3>2
  <2>2. CASE ~full
    <3>1. ActiveCount(y.up) <= ActiveCount(l.up) + 1
      BY <1>4, <1>5, <1>7, <1>8, OneMoreHolder
    <3> QED BY <1>4, <1>6, <2>2, <3>1
  <2> QED BY <2>1, <2>2
<1> QED BY <1>3, <1>4, <1>5, <1>9 DEF Grown, n, y

\* one file after the other
LEMMA SendEachGrows ==
  ASSUME NEW l \in SoundLists, NEW files \in Seq({"good", "bad"}), NEW limit \in Nat
  PROVE  Grown(l, SendEach(l, files, limit), Len(files), limit)
<1> DEFINE m == Len(files)
           S == SoundLists
           step == [p \in S \X (1 .. m) |-> SendFile(p[1], files[p[2]], limit)]
<1>1. m \in Nat /\ \A n \in 1 .. m : files[n] \in {"good", "bad"}
  OBVIOUS
<1> HIDE DEF m
<1>2. ASSUME NEW x \in S, NEW n \in 1 .. m PROVE Grown(x, SendFile(x, files[n], limit), 1, limit)
  BY <1>1, SendFileGrows
<1>3. step \in [S \X (1 .. m) -> S]
  <2> HIDE DEF S
  <2>1. \A p \in S \X (1 .. m) : SendFile(p[1], files[p[2]], limit) \in S
    BY <1>2 DEF Grown, S
  <2> QED BY <2>1
<1>4. l \in S OBVIOUS
<1> HIDE DEF S
<1>5. \A x \in S, n \in 1 .. m : step[<<x, n>>] = SendFile(x, files[n], limit)
  OBVIOUS
<1> HIDE DEF step
<1>6. PICK g \in [0 .. m -> S] : Computes(g, l, m, step)
  BY <1>1, <1>3, <1>4, LoopExists
<1>7. g = [n \in 0 .. m |-> IF n = 0 THEN l ELSE SendFile(g[n - 1], files[n], limit)]
  <2>1. ASSUME NEW n \in 0 .. m
        PROVE  g[n] = IF n = 0 THEN l ELSE SendFile(g[n - 1], files[n], limit)
    <3>1. CASE n = 0 BY <1>6, <3>1 DEF Computes
    <3>2. CASE n # 0
      <4>1. n \in 1 .. m /\ n - 1 \in 0 .. m BY <1>1, <3>2
      <4>2. g[n - 1] \in S BY <1>6, <4>1
      <4> QED BY <1>5, <1>6, <3>2, <4>1, <4>2 DEF Computes
    <3> QED BY <3>1, <3>2
  <2> QED BY <1>6, <2>1
<1>8. PICK f : /\ f = [n \in 0 .. m |-> IF n = 0 THEN l ELSE SendFile(f[n - 1], files[n], limit)]
               /\ SendEach(l, files, limit) = f[m]
  BY <1>7, Zenon DEF SendEach, m
<1>9. \A n \in 0 .. m : f[n] = IF n = 0 THEN l ELSE SendFile(f[n - 1], files[n], limit)
  BY <1>8
<1> DEFINE B == {n \in 0 .. m : Grown(l, f[n], n, limit)}
<1>10. 0 \in B BY <1>1, <1>9, StillGrown
<1>11. ASSUME NEW n \in Nat, n < m, n \in B PROVE n + 1 \in B
  <2>1. n + 1 \in 0 .. m /\ n + 1 # 0 /\ (n + 1) - 1 = n /\ n + 1 \in 1 .. m BY <1>1, <1>11
  <2>2. f[n + 1] = SendFile(f[n], files[n + 1], limit) BY <1>9, <2>1
  <2>3. f[n] \in S BY <1>11 DEF Grown, S
  <2>4. Grown(f[n], f[n + 1], 1, limit) BY <1>2, <2>1, <2>2, <2>3
  <2>5. Grown(l, f[n + 1], n + 1, limit) BY <1>11, <2>4, GrowsOn
  <2> QED BY <2>1, <2>5
<1> HIDE DEF B
<1>12. \A n \in 0 .. m : n \in B BY <1>1, <1>10, <1>11, EveryTurn
<1>13. m \in B BY <1>1, <1>12
<1> QED BY <1>8, <1>13 DEF B, m

-----------------------------------------------------------------------------
(* Folder sends *)

LEMMA LimitsAreTyped ==
  ASSUME max \in MaxChoices, folder.active \in BOOLEAN
  PROVE  /\ max \in Nat /\ FolderActiveLimit \in Nat /\ QueueLimit \in Nat
         /\ max > 0 => FolderActiveLimit <= max /\ FolderActiveLimit > 0 /\ QueueLimit <= max
<1>1. max \in Nat /\ FolderMax \in Nat \ {0} BY SendQueueAssumption
<1>2. Min({max, FolderMax}) \in {max, FolderMax} /\ Min({max, FolderMax}) <= max
  <2> DEFINE T == {max, FolderMax}
  <2>1. \E x \in T : \A y \in T : x <= y
    <3>1. CASE max <= FolderMax BY <1>1, <3>1
    <3>2. CASE ~(max <= FolderMax) BY <1>1, <3>2
    <3> QED BY <3>1, <3>2
  <2> HIDE DEF T
  <2>2. Min(T) \in T /\ \A y \in T : Min(T) <= y BY <2>1 DEF Min
  <2> QED BY <2>2 DEF T
<1> QED BY <1>1, <1>2 DEF FolderActiveLimit, QueueLimit

LEMMA TailHasOneLess ==
  ASSUME NEW files \in Seq(Kind), files # <<>>
  PROVE  /\ Tail(files) \in Seq(Kind) /\ Head(files) \in Kind
         /\ FilesToSend(files) \in Nat /\ FilesToSend(Tail(files)) \in Nat
         /\ FilesToSend(files) =
              FilesToSend(Tail(files)) + IF Head(files) = "excluded" THEN 0 ELSE 1
<1> DEFINE n == Len(files)
           A == {i \in DOMAIN files : files[i] # "excluded"}
           C == {i \in DOMAIN Tail(files) : Tail(files)[i] # "excluded"}
           f == [i \in C |-> i + 1]
<1>1. /\ n \in Nat /\ 1 <= n /\ DOMAIN files = 1 .. n /\ Head(files) = files[1]
      /\ Tail(files) \in Seq(Kind) /\ Len(Tail(files)) = n - 1
      /\ DOMAIN Tail(files) = 1 .. n - 1
      /\ \A i \in 1 .. n - 1 : Tail(files)[i] = files[i + 1]
      /\ Head(files) \in Kind
  OBVIOUS
<1> HIDE DEF n
<1>2. IsFiniteSet(A) /\ Cardinality(A) \in Nat /\ IsFiniteSet(C) /\ Cardinality(C) \in Nat
  <2>1. IsFiniteSet(1 .. n) /\ IsFiniteSet(1 .. n - 1) BY <1>1, FS_Interval
  <2>2. A \subseteq 1 .. n /\ C \subseteq 1 .. n - 1 BY <1>1
  <2> HIDE DEF A, C
  <2> QED BY <2>1, <2>2, FS_Subset, FS_CardinalityType
<1>3. ExistsBijection(C, A \ {1})
  <2>1. \A i \in C : i \in Int /\ i + 1 \in A \ {1} BY <1>1
  <2>2. \A j \in A \ {1} : j \in Int /\ j - 1 \in C
    <3> TAKE j \in A \ {1}
    <3>1. j \in Int /\ j \in 1 .. n /\ j - 1 \in 1 .. n - 1 /\ (j - 1) + 1 = j BY <1>1
    <3>2. Tail(files)[j - 1] = files[j] BY <1>1, <3>1
    <3> QED BY <1>1, <3>1, <3>2
  <2> HIDE DEF A, C
  <2>3. f \in [C -> A \ {1}] BY <2>1
  <2>4. \A i, j \in C : f[i] = f[j] => i = j BY <2>1
  <2>5. \A j \in A \ {1} : \E i \in C : f[i] = j
    <3> TAKE j \in A \ {1}
    <3>1. j - 1 \in C /\ (j - 1) + 1 = j BY <2>2
    <3>2. f[j - 1] = j BY <3>1
    <3> QED BY <3>1, <3>2
  <2> HIDE DEF f
  <2>6. f \in Bijection(C, A \ {1})
    BY <2>3, <2>4, <2>5 DEF Bijection, Injection, Surjection, IsInjective
  <2> QED BY <2>6 DEF ExistsBijection
<1>4. Cardinality(A \ {1}) = Cardinality(C)
  BY <1>2, <1>3, FS_Bijection
<1>5. 1 \in A <=> Head(files) # "excluded" BY <1>1
<1> HIDE DEF A, C
<1>6. Cardinality(A \ {1}) = IF 1 \in A THEN Cardinality(A) - 1 ELSE Cardinality(A)
  BY <1>2, FS_RemoveElement
<1>7. FilesToSend(files) = Cardinality(A) /\ FilesToSend(Tail(files)) = Cardinality(C)
  BY DEF FilesToSend, A, C
<1> QED BY <1>1, <1>2, <1>4, <1>5, <1>6, <1>7

LEMMA FilesToSendIsTyped ==
  ASSUME NEW files \in Seq(Kind)
  PROVE  FilesToSend(files) \in Nat
<1>1. IsFiniteSet(1 .. Len(files)) BY FS_Interval
<1>2. IsFiniteSet({i \in DOMAIN files : files[i] # "excluded"}) BY <1>1, FS_Subset
<1> QED BY <1>2, FS_CardinalityType DEF FilesToSend

Batches == [list : SoundLists, left : Seq(Kind), emitted : Nat]

\* the uploads that the files left will become
Coming(files) == Receivers * FilesToSend(files)

LEMMA ComingIsTyped ==
  ASSUME NEW files \in Seq(Kind)
  PROVE  /\ Coming(files) \in Nat
         /\ files # <<>> => /\ Coming(Tail(files)) \in Nat
                            /\ Coming(files) = Coming(Tail(files)) +
                                 IF Head(files) = "excluded" THEN 0 ELSE Receivers
<1>1. Receivers \in Nat BY SendQueueAssumption
<1>2. \A n \in Nat : Receivers * n \in Nat /\ Receivers * (n + 1) = Receivers * n + Receivers
  BY <1>1
<1>3. Coming(files) \in Nat BY <1>2, FilesToSendIsTyped DEF Coming
<1>4. ASSUME files # <<>>
      PROVE  /\ Coming(Tail(files)) \in Nat
             /\ Coming(files) = Coming(Tail(files)) +
                  IF Head(files) = "excluded" THEN 0 ELSE Receivers
  <2>1. /\ FilesToSend(Tail(files)) \in Nat
        /\ FilesToSend(files) =
             FilesToSend(Tail(files)) + IF Head(files) = "excluded" THEN 0 ELSE 1
    BY <1>4, TailHasOneLess
  <2>2. Coming(Tail(files)) \in Nat BY <1>2, <2>1 DEF Coming
  <2>3. CASE Head(files) = "excluded"
    <3>1. FilesToSend(files) = FilesToSend(Tail(files)) BY <2>1, <2>3
    <3> QED BY <2>2, <2>3, <3>1 DEF Coming
  <2>4. CASE Head(files) # "excluded"
    <3>1. FilesToSend(files) = FilesToSend(Tail(files)) + 1 BY <2>1, <2>4
    <3> QED BY <1>2, <2>1, <2>2, <2>4, <3>1 DEF Coming
  <2> QED BY <2>3, <2>4
<1> QED BY <1>3, <1>4

\* c is b with some of its files sent
Emits(b, c) ==
  /\ c \in Batches
  /\ \E k \in Nat : /\ Grown(b.list, c.list, k, FolderActiveLimit)
                    /\ k + Coming(c.left) = Coming(b.left)

LEMMA EmitsOn ==
  ASSUME NEW a \in Batches, NEW b, NEW c, FolderActiveLimit \in Nat, Emits(a, b), Emits(b, c)
  PROVE  Emits(a, c)
<1>1. b \in Batches /\ c \in Batches BY DEF Emits
<1>2. a.list \in SoundLists /\ Coming(a.left) \in Nat /\ Coming(b.left) \in Nat
      /\ Coming(c.left) \in Nat
  BY <1>1, ComingIsTyped DEF Batches
<1>3. PICK j \in Nat : /\ Grown(a.list, b.list, j, FolderActiveLimit)
                       /\ j + Coming(b.left) = Coming(a.left)
  BY DEF Emits
<1>4. PICK k \in Nat : /\ Grown(b.list, c.list, k, FolderActiveLimit)
                       /\ k + Coming(c.left) = Coming(b.left)
  BY DEF Emits
<1>5. Grown(a.list, c.list, j + k, FolderActiveLimit) BY <1>2, <1>3, <1>4, GrowsOn
<1>6. j + k \in Nat /\ (j + k) + Coming(c.left) = Coming(a.left) BY <1>2, <1>3, <1>4
<1> QED BY <1>1, <1>5, <1>6 DEF Emits

LEMMA BatchTurnEmits ==
  ASSUME NEW b \in Batches, b.left # <<>>, FolderActiveLimit \in Nat
  PROVE  Emits(b, BatchTurn(b))
<1> DEFINE file == Head(b.left)
           rest == [b EXCEPT !.left = Tail(@)]
           y == BatchTurn(b)
<1>1. b.list \in SoundLists /\ b.left \in Seq(Kind) /\ b.emitted \in Nat BY DEF Batches
<1>2. /\ Tail(b.left) \in Seq(Kind) /\ file \in Kind
      /\ Coming(b.left) \in Nat /\ Coming(Tail(b.left)) \in Nat
      /\ Coming(b.left) = Coming(Tail(b.left)) + IF file = "excluded" THEN 0 ELSE Receivers
  BY <1>1, TailHasOneLess, ComingIsTyped
<1> HIDE DEF file
<1>3. rest \in Batches /\ rest.list = b.list /\ rest.left = Tail(b.left) /\ rest.emitted = b.emitted
  BY <1>1, <1>2 DEF Batches
<1>4. CASE file = "excluded"
  <2>1. y = rest BY <1>4 DEF BatchTurn, file
  <2>2. Grown(b.list, y.list, 0, FolderActiveLimit) BY <1>1, <1>3, <2>1, StillGrown
  <2>3. 0 + Coming(y.left) = Coming(b.left) BY <1>2, <1>3, <1>4, <2>1
  <2> QED BY <1>3, <2>1, <2>2, <2>3 DEF Emits
<1>5. CASE file # "excluded"
  <2> DEFINE files == [r \in 1 .. Receivers |-> file]
             l == SendEach(b.list, files, FolderActiveLimit)
  <2>1. Receivers \in Nat BY SendQueueAssumption
  <2>2. files \in Seq({"good", "bad"}) /\ Len(files) = Receivers
    <3>1. file \in {"good", "bad"} BY <1>2, <1>5 DEF Kind
    <3> QED BY <2>1, <3>1
  <2>3. y = [rest EXCEPT !.emitted = @ + 1, !.list = l]
    BY <1>3, <1>5 DEF BatchTurn, file
  <2> HIDE DEF files, rest, y
  <2>4. Grown(b.list, l, Receivers, FolderActiveLimit) BY <1>1, <2>2, SendEachGrows
  <2>5. l \in SoundLists BY <2>4 DEF Grown
  <2> HIDE DEF l
  <2>6. y \in Batches /\ y.list = l /\ y.left = Tail(b.left)
    <3>1. rest \in Batches /\ rest.left = Tail(b.left) /\ rest.emitted + 1 \in Nat
      BY <1>1, <1>3
    <3>2. y.list = l /\ y.left = rest.left BY <2>3, <3>1 DEF Batches
    <3>3. y \in Batches BY <2>3, <2>5, <3>1 DEF Batches
    <3> QED BY <3>1, <3>2, <3>3
  <2>7. Receivers + Coming(y.left) = Coming(b.left) BY <1>2, <1>5, <2>1, <2>6
  <2> QED BY <2>1, <2>4, <2>6, <2>7 DEF Emits, y
<1> QED BY <1>4, <1>5

\* the loop of processFolderSendBatch()
LEMMA BatchEmits ==
  ASSUME list \in SoundLists, folder.left \in Seq(Kind), FolderActiveLimit \in Nat
  PROVE  Emits([list |-> list, left |-> folder.left, emitted |-> 0], Batch)
<1> DEFINE m == Len(folder.left)
           S == Batches
           first == [list |-> list, left |-> folder.left, emitted |-> 0]
           Turn(b) == IF b.left # <<>> /\ BatchGoesOn(b) THEN BatchTurn(b) ELSE b
           step == [p \in S \X (1 .. m) |-> Turn(p[1])]
<1>1. m \in Nat /\ first \in S BY DEF Batches
<1> HIDE DEF m
<1>2. ASSUME NEW x \in S PROVE Emits(x, x)
  <2>1. x.list \in SoundLists /\ Coming(x.left) \in Nat BY ComingIsTyped DEF Batches
  <2>2. Grown(x.list, x.list, 0, FolderActiveLimit) BY <2>1, StillGrown
  <2>3. 0 + Coming(x.left) = Coming(x.left) BY <2>1
  <2> QED BY <2>2, <2>3 DEF Emits
<1>3. ASSUME NEW x \in S PROVE Emits(x, Turn(x))
  <2>1. CASE x.left # <<>> /\ BatchGoesOn(x)
    <3>1. Emits(x, BatchTurn(x)) BY <2>1, BatchTurnEmits
    <3> QED BY <2>1, <3>1
  <2>2. CASE ~(x.left # <<>> /\ BatchGoesOn(x))
    <3>1. Turn(x) = x BY <2>2, Zenon
    <3> QED BY <1>2, <3>1
  <2> QED BY <2>1, <2>2
<1>4. \A x \in S : Turn(x) \in S BY <1>3 DEF Emits
<1> HIDE DEF S, first
<1>5. step \in [S \X (1 .. m) -> S]
  <2> HIDE DEF Turn
  <2>1. \A p \in S \X (1 .. m) : Turn(p[1]) \in S BY <1>4
  <2> QED BY <2>1
<1>6. \A x \in S, n \in 1 .. m : step[<<x, n>>] = Turn(x)
  <2> HIDE DEF Turn
  <2> QED OBVIOUS
<1> HIDE DEF step
<1>7. PICK g \in [0 .. m -> S] : Computes(g, first, m, step)
  BY <1>1, <1>5, LoopExists
<1>8. g = [n \in 0 .. m |-> IF n = 0 THEN first ELSE Turn(g[n - 1])]
  <2> HIDE DEF Turn
  <2>1. ASSUME NEW n \in 0 .. m
        PROVE  g[n] = IF n = 0 THEN first ELSE Turn(g[n - 1])
    <3>1. CASE n = 0 BY <1>7, <3>1 DEF Computes
    <3>2. CASE n # 0
      <4>1. n \in 1 .. m /\ n - 1 \in 0 .. m BY <1>1, <3>2
      <4>2. g[n - 1] \in S BY <1>7, <4>1
      <4> QED BY <1>6, <1>7, <3>2, <4>1, <4>2 DEF Computes
    <3> QED BY <3>1, <3>2
  <2> QED BY <1>7, <2>1
<1>9. PICK f : /\ f = [n \in 0 .. m |-> IF n = 0 THEN first ELSE Turn(f[n - 1])]
               /\ Batch = f[m]
  BY <1>8, Zenon DEF Batch, m, first
<1> HIDE DEF Turn
<1>10. \A n \in 0 .. m : f[n] = IF n = 0 THEN first ELSE Turn(f[n - 1])
  BY <1>9
<1> DEFINE B == {n \in 0 .. m : Emits(first, f[n])}
<1>11. 0 \in B BY <1>1, <1>2, <1>10
<1>12. ASSUME NEW n \in Nat, n < m, n \in B PROVE n + 1 \in B
  <2>1. n + 1 \in 0 .. m /\ n + 1 # 0 /\ (n + 1) - 1 = n BY <1>1, <1>12
  <2>2. f[n + 1] = Turn(f[n]) BY <1>10, <2>1
  <2>3. f[n] \in S /\ Emits(first, f[n]) BY <1>12 DEF Emits, S
  <2>4. Emits(f[n], f[n + 1]) BY <1>3, <2>2, <2>3
  <2>5. Emits(first, f[n + 1]) BY <1>1, <2>3, <2>4, EmitsOn DEF S
  <2> QED BY <2>1, <2>5
<1> HIDE DEF B
<1>13. \A n \in 0 .. m : n \in B BY <1>1, <1>11, <1>12, EveryTurn
<1>14. m \in B BY <1>1, <1>13
<1> QED BY <1>9, <1>14 DEF B, first

-----------------------------------------------------------------------------
(* The walk through the queue *)

LEMMA QueueIsWalked ==
  ASSUME NEW l \in SoundLists
  PROVE  /\ ProcessSendQueue(l) \in SoundLists
         /\ DOMAIN ProcessSendQueue(l).up = DOMAIN l.up
         /\ Len(ProcessSendQueue(l).up) = Len(l.up)
         /\ \A u \in DOMAIN l.up :
              ProcessSendQueue(l).up[u] = IF u \in ToStart(l.up) THEN Start(l.up[u]) ELSE l.up[u]
<1> DEFINE up == [u \in DOMAIN l.up |-> IF u \in ToStart(l.up) THEN Start(l.up[u]) ELSE l.up[u]]
<1>1. /\ DOMAIN l.up = 1 .. Len(l.up) /\ Len(l.up) \in Nat /\ l \in Lists
      /\ \A u \in DOMAIN l.up : l.up[u] \in Upload
  BY SoundListHas
<1>2. \A u \in DOMAIN l.up : (IF u \in ToStart(l.up) THEN Start(l.up[u]) ELSE l.up[u]) \in Upload
  BY <1>1, StartIsTyped
<1>3. up \in Seq(Upload) /\ Len(up) = Len(l.up) /\ DOMAIN up = DOMAIN l.up
  BY <1>1, <1>2
<1>4. ProcessSendQueue(l) = [l EXCEPT !.up = up]
  BY <1>1 DEF ProcessSendQueue, Lists
<1> HIDE DEF up
<1>5. ProcessSendQueue(l) \in SoundLists /\ ProcessSendQueue(l).up = up
  BY <1>3, <1>4, UploadsChange
<1> QED BY <1>3, <1>5 DEF up

\* what it starts fits under the limit
LEMMA TheWalkFits ==
  ASSUME NEW l \in SoundLists, QueueLimit \in Nat
  PROVE  \/ ActiveCount(ProcessSendQueue(l).up) <= ActiveCount(l.up)
         \/ ActiveCount(ProcessSendQueue(l).up) <= QueueLimit
<1> DEFINE y == ProcessSendQueue(l)
<1>1. /\ DOMAIN y.up = DOMAIN l.up
      /\ \A u \in DOMAIN l.up : y.up[u] = IF u \in ToStart(l.up) THEN Start(l.up[u]) ELSE l.up[u]
  BY QueueIsWalked
<1>2. DOMAIN l.up = 1 .. Len(l.up) /\ Len(l.up) \in Nat BY SoundListHas
<1> HIDE DEF y
<1>3. Holders(y.up) \subseteq Holders(l.up) \cup ToStart(l.up) BY <1>1 DEF Holders
<1>4. ToStart(l.up) = {u \in Startable(l.up) :
        Cardinality({v \in Startable(l.up) : v < u}) < QueueLimit - ActiveCount(l.up)}
  BY DEF ToStart
<1>5. ActiveCount(y.up) <= ActiveCount(l.up) \/ ActiveCount(y.up) <= QueueLimit
  BY <1>1, <1>2, <1>3, <1>4, WalkFits
<1> QED BY <1>5 DEF y

\* with an upload it starts every older one that could be
LEMMA TheWalkIsInOrder ==
  ASSUME NEW l \in SoundLists, QueueLimit \in Nat,
         NEW u \in Startable(l.up), NEW v \in Startable(l.up), v < u,
         u \in ToStart(l.up)
  PROVE  v \in ToStart(l.up)
<1>1. DOMAIN l.up = 1 .. Len(l.up) /\ Len(l.up) \in Nat /\ ActiveCount(l.up) \in Nat
  BY SoundListHas
<1> DEFINE n == Len(l.up)
           S == Startable(l.up)
           a == {w \in S : w < v}
           b == {w \in S : w < u}
<1>2. S \subseteq 1 .. n BY <1>1 DEF Startable
<1>3. Cardinality(a) <= Cardinality(b) BY <1>1, <1>2, FewerBelow
<1>4. Cardinality(a) \in Nat /\ Cardinality(b) \in Nat
  <2>1. IsFiniteSet(1 .. n) BY <1>1, FS_Interval
  <2>2. IsFiniteSet(a) /\ IsFiniteSet(b) BY <1>2, <2>1, FS_Subset
  <2> QED BY <2>2, FS_CardinalityType
<1>5. Cardinality(b) < QueueLimit - ActiveCount(l.up) BY DEF ToStart
<1>6. Cardinality(a) < QueueLimit - ActiveCount(l.up)
  <2> HIDE DEF a, b
  <2> QED BY <1>1, <1>3, <1>4, <1>5
<1> QED BY <1>6 DEF ToStart

-----------------------------------------------------------------------------
(* The invariant, and what every step keeps *)

QueueInv ==
  /\ list \in SoundLists
  /\ folder \in [active : BOOLEAN, left : Seq(Kind)]
  /\ timers \in Nat /\ max \in MaxChoices
  /\ Len(list.up) + Coming(folder.left) <= MaxUploads

\* what SlotsWithinLimit and OldestFirst say of a step
WithinLimit ==
  max > 0 /\ ActiveCount(list'.up) > ActiveCount(list.up) => ActiveCount(list'.up) <= max

InOrder ==
  \A u, v \in DOMAIN list.up :
    v < u /\ {u, v} \subseteq Startable(list.up) /\ HoldsSlot(list'.up[u]) =>
      list'.up[v].state # "Queued"

InvariantParts ==
  /\ list \in SoundLists /\ folder.left \in Seq(Kind) /\ folder.active \in BOOLEAN
  /\ Len(list.up) \in Nat /\ Coming(folder.left) \in Nat /\ MaxUploads \in Nat
  /\ max \in Nat /\ FolderActiveLimit \in Nat /\ QueueLimit \in Nat
  /\ max > 0 => FolderActiveLimit <= max /\ FolderActiveLimit > 0 /\ QueueLimit <= max

LEMMA InvariantGives ==
  ASSUME QueueInv
  PROVE  InvariantParts
<1>1. /\ list \in SoundLists /\ folder.left \in Seq(Kind) /\ folder.active \in BOOLEAN
      /\ max \in MaxChoices
  BY DEF QueueInv
<1>2. Len(list.up) \in Nat /\ Coming(folder.left) \in Nat
  BY <1>1, SoundListHas, ComingIsTyped
<1> QED BY <1>1, <1>2, LimitsAreTyped, SendQueueAssumption DEF InvariantParts

LEMMA NothingComes == Coming(<<>>) = 0 /\ NoFolder \in [active : BOOLEAN, left : Seq(Kind)]
<1>1. {i \in DOMAIN <<>> : <<>>[i] # "excluded"} = {} OBVIOUS
<1>2. FilesToSend(<<>>) = 0 BY <1>1, FS_EmptySet DEF FilesToSend
<1>3. Receivers \in Nat BY SendQueueAssumption
<1> QED BY <1>2, <1>3 DEF Coming, NoFolder

\* a step that gives no upload a slot
Releases ==
  /\ list' \in SoundLists /\ Len(list'.up) = Len(list.up)
  /\ \A u \in DOMAIN list.up : HoldsSlot(list'.up[u]) => HoldsSlot(list.up[u])

LEMMA ReleasingIsFine ==
  ASSUME QueueInv, Releases
  PROVE  WithinLimit /\ InOrder
<1>1. list \in SoundLists /\ list' \in SoundLists /\ Len(list'.up) = Len(list.up)
  BY DEF QueueInv, Releases
<1>2. /\ Len(list.up) \in Nat /\ DOMAIN list.up = 1 .. Len(list.up)
      /\ DOMAIN list'.up = 1 .. Len(list.up)
      /\ ActiveCount(list.up) \in Nat /\ ActiveCount(list'.up) \in Nat
  BY <1>1, SoundListHas
<1>3. Holders(list'.up) \subseteq Holders(list.up)
  BY <1>2 DEF Holders, Releases
<1>4. ActiveCount(list'.up) <= ActiveCount(list.up)
  BY <1>2, <1>3, NoMoreHolders
<1>5. WithinLimit BY <1>2, <1>4 DEF WithinLimit
<1>6. InOrder BY DEF InOrder, Releases, Startable, HoldsSlot
<1> QED BY <1>5, <1>6

\* a step that sends
LEMMA SendingIsFine ==
  ASSUME QueueInv, NEW k \in Nat, NEW limit \in {max, FolderActiveLimit},
         Grown(list, list', k, limit)
  PROVE  WithinLimit /\ InOrder /\ list' \in SoundLists /\ Len(list'.up) = Len(list.up) + k
<1>1. InvariantParts BY InvariantGives
<1>2. list' \in SoundLists /\ Len(list'.up) = Len(list.up) + k BY DEF Grown
<1>3. ActiveCount(list.up) \in Nat /\ ActiveCount(list'.up) \in Nat
  BY <1>1, <1>2, SoundListHas DEF InvariantParts
<1>4. ASSUME max > 0, ActiveCount(list'.up) > ActiveCount(list.up)
      PROVE  ActiveCount(list'.up) <= max
  <2>1. limit \in Nat /\ limit > 0 /\ limit <= max BY <1>1, <1>4 DEF InvariantParts
  <2>2. ActiveCount(list'.up) <= ActiveCount(list.up) \/ ActiveCount(list'.up) <= limit
    BY <2>1 DEF Grown
  <2> QED BY <1>1, <1>3, <1>4, <2>1, <2>2 DEF InvariantParts
<1>5. InOrder BY DEF InOrder, Grown, Startable, HoldsSlot
<1> QED BY <1>2, <1>4, <1>5 DEF WithinLimit

\* a step in which upload u becomes x, which runs no more than before, and wakes the queue
LEMMA WakingIsFine ==
  ASSUME QueueInv, NEW u \in DOMAIN list.up, NEW x \in Upload,
         list' = Woken(u, x),
         HoldsSlot(x) => HoldsSlot(list.up[u]),
         x.state # "Queued"
  PROVE  WithinLimit /\ InOrder /\ list' \in SoundLists /\ Len(list'.up) = Len(list.up)
<1> DEFINE up == [list.up EXCEPT ![u] = x]
           l == [list EXCEPT !.up = up]
<1>1. InvariantParts BY InvariantGives
<1>2. /\ list \in SoundLists /\ list \in Lists /\ list.up \in Seq(Upload)
      /\ Len(list.up) \in Nat /\ DOMAIN list.up = 1 .. Len(list.up)
      /\ ActiveCount(list.up) \in Nat
  BY <1>1, SoundListHas DEF InvariantParts
<1>3. up \in Seq(Upload) /\ Len(up) = Len(list.up) /\ DOMAIN up = DOMAIN list.up
  BY <1>2
<1>4. \A w \in DOMAIN list.up : up[w] = IF w = u THEN x ELSE list.up[w]
  BY <1>2
<1>5. list' = ProcessSendQueue(l)
  <2>1. l = [list EXCEPT !.up[u] = x] BY <1>2 DEF Lists
  <2> QED BY <2>1 DEF Woken
<1> HIDE DEF up
<1>6. l \in SoundLists /\ l.up = up BY <1>2, <1>3, UploadsChange
<1> HIDE DEF l
<1>7. /\ list' \in SoundLists /\ Len(list'.up) = Len(list.up)
      /\ DOMAIN list'.up = DOMAIN list.up
      /\ \A w \in DOMAIN list.up :
           list'.up[w] = IF w \in ToStart(up) THEN Start(up[w]) ELSE up[w]
  BY <1>3, <1>5, <1>6, QueueIsWalked
<1>8. ActiveCount(up) <= ActiveCount(list.up) /\ ActiveCount(up) \in Nat
      /\ ActiveCount(list'.up) \in Nat
  <2>1. Holders(up) \subseteq Holders(list.up) BY <1>3, <1>4 DEF Holders
  <2> QED BY <1>2, <1>3, <1>6, <1>7, <2>1, NoMoreHolders, SoundListHas
<1>9. ActiveCount(list'.up) <= ActiveCount(up) \/ ActiveCount(list'.up) <= QueueLimit
  BY <1>1, <1>5, <1>6, TheWalkFits DEF InvariantParts
<1>10. WithinLimit
  <2>1. max \in Nat /\ QueueLimit \in Nat /\ (max > 0 => QueueLimit <= max)
    BY <1>1 DEF InvariantParts
  <2> QED BY <1>2, <1>8, <1>9, <2>1 DEF WithinLimit
<1>11. InOrder
  <2> SUFFICES ASSUME NEW w \in DOMAIN list.up, NEW v \in DOMAIN list.up, v < w,
                      w \in Startable(list.up), v \in Startable(list.up),
                      HoldsSlot(list'.up[w])
               PROVE  list'.up[v].state # "Queued"
    BY DEF InOrder
  <2>1. ~HoldsSlot(list.up[w]) BY DEF Startable, HoldsSlot
  <2>2. ~HoldsSlot(up[w])
    <3>1. CASE w = u BY <1>4, <2>1, <3>1
    <3>2. CASE w # u BY <1>4, <2>1, <3>2
    <3> QED BY <3>1, <3>2
  <2>3. w \in ToStart(up) BY <1>7, <2>2
  <2>4. CASE v = u
    <3>1. up[v] = x BY <1>4, <2>4
    <3>2. v \notin ToStart(up) BY <3>1 DEF ToStart, Startable
    <3> QED BY <1>7, <3>1, <3>2
  <2>5. CASE v # u
    <3>1. up[v] = list.up[v] BY <1>4, <2>5
    <3>2. v \in Startable(up) BY <1>3, <3>1 DEF Startable
    <3>3. w \in Startable(up) BY <2>3 DEF ToStart
    <3>4. v \in ToStart(up) BY <1>1, <1>6, <2>3, <3>2, <3>3, TheWalkIsInOrder DEF InvariantParts
    <3>5. list'.up[v] = Start(up[v]) BY <1>7, <3>4
    <3>6. up[v] \in Upload /\ up[v].file = "good" /\ up[v].state = "Queued"
      BY <1>2, <1>3, <3>1, <3>2, SoundListHas DEF Startable
    <3> QED BY <3>5, <3>6, StartIsTyped
  <2> QED BY <2>4, <2>5
<1> QED BY <1>7, <1>10, <1>11

(***************************************************************************)
(* The steps.                                                              *)
(***************************************************************************)
Fine == QueueInv' /\ WithinLimit /\ InOrder

\* a step that leaves the folder send alone
LEMMA NothingElse ==
  ASSUME QueueInv, list' \in SoundLists, Len(list'.up) = Len(list.up),
         WithinLimit, InOrder, UNCHANGED folder, timers' \in Nat, max' \in MaxChoices
  PROVE  Fine
<1>1. Len(list'.up) + Coming(folder'.left) <= MaxUploads BY DEF QueueInv, Coming
<1> QED BY <1>1 DEF Fine, QueueInv

LEMMA Idles ==
  ASSUME QueueInv, UNCHANGED <<list, folder>>, timers' \in Nat, max' \in MaxChoices
  PROVE  Fine
<1>1. Releases BY DEF QueueInv, Releases
<1>2. WithinLimit /\ InOrder BY <1>1, ReleasingIsFine
<1> QED BY <1>2, NothingElse DEF QueueInv

\* one upload becomes x
LEMMA OneChanges ==
  ASSUME QueueInv, NEW u \in DOMAIN list.up, NEW x \in Upload,
         list' = [list EXCEPT !.up[u] = x],
         HoldsSlot(x) => HoldsSlot(list.up[u])
  PROVE  Releases
<1> DEFINE up == [list.up EXCEPT ![u] = x]
<1>1. list \in SoundLists BY DEF QueueInv
<1>2. list \in Lists /\ list.up \in Seq(Upload) BY <1>1, SoundListHas
<1>3. up \in Seq(Upload) /\ Len(up) = Len(list.up) BY <1>2
<1>4. \A w \in DOMAIN list.up : up[w] = IF w = u THEN x ELSE list.up[w] BY <1>2
<1>5. list' = [list EXCEPT !.up = up] BY <1>2 DEF Lists
<1> HIDE DEF up
<1>6. list' \in SoundLists /\ list'.up = up
  <2>1. [list EXCEPT !.up = up] \in SoundLists /\ [list EXCEPT !.up = up].up = up
    BY <1>1, <1>3, UploadsChange
  <2> QED BY <1>5, <2>1
<1>7. ASSUME NEW w \in DOMAIN list.up, HoldsSlot(list'.up[w]) PROVE HoldsSlot(list.up[w])
  <2>1. CASE w = u BY <1>4, <1>6, <1>7, <2>1
  <2>2. CASE w # u BY <1>4, <1>6, <1>7, <2>2
  <2> QED BY <2>1, <2>2
<1> QED BY <1>3, <1>6, <1>7 DEF Releases

\* rows leave and their uploads are deleted
LEMMA DeletingIsFine ==
  ASSUME QueueInv, NEW l \in SoundLists, l.up = list.up, NEW gone, list' = Delete(l, gone)
  PROVE  Releases
<1> DEFINE up == [u \in DOMAIN l.up |-> IF u \in gone THEN Deleted ELSE l.up[u]]
<1>1. /\ l \in Lists /\ Len(l.up) \in Nat /\ DOMAIN l.up = 1 .. Len(l.up)
      /\ \A u \in DOMAIN l.up : l.up[u] \in Upload
  BY SoundListHas
<1>2. Deleted \in Upload /\ ~HoldsSlot(Deleted)
  BY DEF Deleted, Upload, TransferState, HoldsSlot
<1>3. up \in Seq(Upload) /\ Len(up) = Len(l.up) BY <1>1, <1>2
<1>4. \A u \in DOMAIN l.up : up[u] = IF u \in gone THEN Deleted ELSE l.up[u] OBVIOUS
<1>5. list' = [l EXCEPT !.up = up] BY <1>1 DEF Delete, Lists
<1> HIDE DEF up
<1>6. list' \in SoundLists /\ list'.up = up BY <1>3, <1>5, UploadsChange
<1>7. ASSUME NEW u \in DOMAIN list.up, HoldsSlot(list'.up[u]) PROVE HoldsSlot(list.up[u])
  <2>1. CASE u \in gone BY <1>2, <1>4, <1>6, <1>7, <2>1
  <2>2. CASE u \notin gone BY <1>4, <1>6, <1>7, <2>2
  <2> QED BY <2>1, <2>2
<1> QED BY <1>3, <1>6, <1>7 DEF Releases

\* everything is cancelled
LEMMA CancellingAll ==
  ASSUME QueueInv, CancelAllSenderTransfers
  PROVE  /\ Releases
         /\ \A u \in DOMAIN list.up :
              /\ ~HoldsSlot(list'.up[u]) /\ list'.up[u].state # "Queued"
              /\ list.up[u].link = "none" => list'.up[u].link = "none"
<1> DEFINE up == [u \in DOMAIN list.up |-> Cancelled(list.up[u])]
<1>1. list \in SoundLists BY DEF QueueInv
<1>2. /\ list \in Lists /\ Len(list.up) \in Nat /\ DOMAIN list.up = 1 .. Len(list.up)
      /\ \A u \in DOMAIN list.up : list.up[u] \in Upload
  BY <1>1, SoundListHas
<1>3. \A u \in DOMAIN list.up : Cancelled(list.up[u]) \in Upload BY <1>2, CancelledIsTyped
<1>4. up \in Seq(Upload) /\ Len(up) = Len(list.up) BY <1>2, <1>3
<1>5. list' = [list EXCEPT !.up = up] BY <1>2 DEF CancelAllSenderTransfers, Lists
<1>6. \A u \in DOMAIN list.up : up[u] = Cancelled(list.up[u]) OBVIOUS
<1> HIDE DEF up
<1>7. list' \in SoundLists /\ list'.up = up BY <1>1, <1>4, <1>5, UploadsChange
<1>8. ASSUME NEW u \in DOMAIN list.up
      PROVE  /\ ~HoldsSlot(list'.up[u]) /\ list'.up[u].state # "Queued"
             /\ list.up[u].link = "none" => list'.up[u].link = "none"
  <2>1. list'.up[u] = Cancelled(list.up[u]) BY <1>6, <1>7
  <2> QED BY <1>2, <2>1, CancelledIsTyped
<1> QED BY <1>4, <1>7, <1>8 DEF Releases

LEMMA SendItemsStep ==
  ASSUME QueueInv, SendItems
  PROVE  Fine
<1>1. PICK files \in {<<"good">>, <<"bad">>, <<"good", "good">>} :
        Fits(Len(files)) /\ list' = SendEach(list, files, max)
  BY DEF SendItems
<1>2. InvariantParts BY InvariantGives
<1>3. files \in Seq({"good", "bad"}) /\ Len(files) \in Nat
  <2>1. CASE files = <<"good">> BY <2>1
  <2>2. CASE files = <<"bad">> BY <2>2
  <2>3. CASE files = <<"good", "good">> BY <2>3
  <2> QED BY <2>1, <2>2, <2>3
<1>4. Grown(list, list', Len(files), max) BY <1>1, <1>2, <1>3, SendEachGrows DEF InvariantParts
<1>5. WithinLimit /\ InOrder /\ list' \in SoundLists /\ Len(list'.up) = Len(list.up) + Len(files)
  BY <1>3, <1>4, SendingIsFine
<1>6. UNCHANGED <<folder, timers, max>> BY DEF SendItems
<1>7. Len(list'.up) + Coming(folder'.left) <= MaxUploads
  <2> DEFINE k == Len(files)
             n == Len(list.up)
             c == Coming(folder.left)
  <2>1. n + c + k <= MaxUploads BY <1>1 DEF Fits, Coming
  <2>2. Coming(folder'.left) = c BY <1>6 DEF Coming
  <2>3. n \in Nat /\ c \in Nat /\ k \in Nat /\ Len(list'.up) = n + k /\ MaxUploads \in Nat
    BY <1>2, <1>3, <1>5 DEF InvariantParts
  <2> HIDE DEF k, n, c
  <2> QED BY <2>1, <2>2, <2>3
<1> QED BY <1>5, <1>6, <1>7 DEF Fine, QueueInv

LEMMA StartFolderSendStep ==
  ASSUME QueueInv, StartFolderSend
  PROVE  Fine
<1>1. PICK files \in Folders : /\ Fits(Receivers * FilesToSend(files))
                               /\ folder' = [active |-> TRUE, left |-> files]
  BY DEF StartFolderSend
<1>2. files \in Seq(Kind) BY SendQueueAssumption DEF Kind
<1>3. UNCHANGED <<list, max>> /\ timers' = timers + 1 BY DEF StartFolderSend
<1>4. Releases BY <1>3 DEF QueueInv, Releases
<1>5. WithinLimit /\ InOrder BY <1>4, ReleasingIsFine
<1>6. folder' \in [active : BOOLEAN, left : Seq(Kind)] /\ folder'.left = files BY <1>1, <1>2
<1>7. Len(list'.up) + Coming(folder'.left) <= MaxUploads
  <2> DEFINE n == Len(list.up)
             c == Coming(folder.left)
             d == Coming(files)
  <2>1. n + c + d <= MaxUploads BY <1>1 DEF Fits, Coming
  <2>2. n \in Nat /\ c \in Nat /\ d \in Nat /\ MaxUploads \in Nat
    BY <1>2, InvariantGives, ComingIsTyped DEF InvariantParts
  <2>3. Len(list'.up) = n /\ Coming(folder'.left) = d BY <1>3, <1>6
  <2> HIDE DEF n, c, d
  <2> QED BY <2>1, <2>2, <2>3
<1> QED BY <1>3, <1>5, <1>6, <1>7 DEF Fine, QueueInv

LEMMA FolderBatchStep ==
  ASSUME QueueInv, ProcessFolderSendBatch
  PROVE  Fine
<1>1. timers' \in Nat /\ max' = max BY DEF ProcessFolderSendBatch, QueueInv
<1>2. CASE ~folder.active
  BY <1>1, <1>2, Idles DEF ProcessFolderSendBatch, QueueInv
<1>3. CASE folder.active
  <2> DEFINE first == [list |-> list, left |-> folder.left, emitted |-> 0]
  <2>1. InvariantParts BY InvariantGives
  <2>2. Emits(first, Batch) BY <2>1, BatchEmits DEF InvariantParts
  <2>3. PICK k \in Nat : /\ Grown(list, Batch.list, k, FolderActiveLimit)
                         /\ k + Coming(Batch.left) = Coming(folder.left)
    BY <2>2 DEF Emits
  <2>4. Batch \in Batches BY <2>2 DEF Emits
  <2>5. Batch.left \in Seq(Kind) /\ Coming(Batch.left) \in Nat
    BY <2>4, ComingIsTyped DEF Batches
  <2>6. list' = Batch.list BY <1>3 DEF ProcessFolderSendBatch
  <2>7. WithinLimit /\ InOrder /\ list' \in SoundLists /\ Len(list'.up) = Len(list.up) + k
    BY <2>3, <2>6, SendingIsFine
  <2>8. /\ folder' \in [active : BOOLEAN, left : Seq(Kind)]
        /\ Coming(folder'.left) = Coming(Batch.left)
    <3>1. CASE Batch.left = <<>> /\ BatchGoesOn(Batch)
      <4>1. folder' = NoFolder BY <1>3, <3>1 DEF ProcessFolderSendBatch
      <4>2. folder'.left = Batch.left BY <3>1, <4>1 DEF NoFolder
      <4> QED BY <4>1, <4>2, NothingComes DEF Coming
    <3>2. CASE ~(Batch.left = <<>> /\ BatchGoesOn(Batch))
      <4>1. folder' = [folder EXCEPT !.left = Batch.left]
        BY <1>3, <3>2 DEF ProcessFolderSendBatch
      <4>2. folder \in [active : BOOLEAN, left : Seq(Kind)] BY DEF QueueInv
      <4>3. folder' \in [active : BOOLEAN, left : Seq(Kind)] /\ folder'.left = Batch.left
        BY <2>5, <4>1, <4>2
      <4> QED BY <4>3 DEF Coming
    <3> QED BY <3>1, <3>2
  <2>9. Len(list'.up) + Coming(folder'.left) <= MaxUploads
    <3> DEFINE n == Len(list.up)
               c == Coming(folder.left)
               d == Coming(Batch.left)
    <3>1. n \in Nat /\ c \in Nat /\ d \in Nat /\ MaxUploads \in Nat /\ n + c <= MaxUploads
      BY <2>1, <2>5 DEF InvariantParts, QueueInv
    <3>2. Len(list'.up) = n + k /\ Coming(folder'.left) = d /\ k + d = c
      BY <2>3, <2>7, <2>8
    <3> HIDE DEF n, c, d
    <3> QED BY <3>1, <3>2
  <2> QED BY <1>1, <2>7, <2>8, <2>9 DEF Fine, QueueInv
<1> QED BY <1>2, <1>3

LEMMA ConnectedStep ==
  ASSUME QueueInv, NEW u \in DOMAIN list.up, Connected(u)
  PROVE  Fine
<1> DEFINE y == SetState(list.up[u], "Transfering")
           x == [y EXCEPT !.link = "up"]
<1>1. list.up[u] \in Upload BY SoundListHas DEF QueueInv
<1>2. y \in Upload BY <1>1, TransitionsAreTyped DEF TransferState
<1>3. list' = [list EXCEPT !.up[u] = x]
  BY SoundListHas DEF Connected, QueueInv, Lists
<1> HIDE DEF y
<1>4. x \in Upload BY <1>2 DEF Upload
<1> HIDE DEF x
<1>5. HoldsSlot(list.up[u]) BY DEF Connected
<1>6. Releases BY <1>3, <1>4, <1>5, OneChanges
<1>7. WithinLimit /\ InOrder BY <1>6, ReleasingIsFine
<1> QED BY <1>6, <1>7, NothingElse DEF Connected, Releases, QueueInv

LEMMA DoneStep ==
  ASSUME QueueInv, NEW u \in DOMAIN list.up, Done(u)
  PROVE  Fine
<1> DEFINE o == list.up[u]
           y == SetState(o, "Finish")
           z == Settled(y)
           x == [z EXCEPT !.link = "over"]
<1>1. o \in Upload BY SoundListHas DEF QueueInv
<1>2. HoldsSlot(o) /\ list' = Woken(u, x) BY DEF Done
<1>3. y \in Upload BY <1>1, TransitionsAreTyped DEF TransferState
<1>4. y.state # "Queued"
  <2>1. y.state \in {o.state, "Finish"} BY <1>1 DEF SetState, NextState, Upload
  <2> QED BY <1>2, <2>1 DEF HoldsSlot
<1> HIDE DEF y, o
<1>5. z \in Upload /\ z.state # "Queued" BY <1>3, <1>4 DEF Settled, Upload
<1> HIDE DEF z
<1>6. x \in Upload /\ x.state # "Queued" BY <1>5 DEF Upload
<1> HIDE DEF x
<1>7. WithinLimit /\ InOrder /\ list' \in SoundLists /\ Len(list'.up) = Len(list.up)
  BY <1>2, <1>6, WakingIsFine DEF o
<1> QED BY <1>7, NothingElse DEF Done, QueueInv

LEMMA FailedStep ==
  ASSUME QueueInv, NEW u \in DOMAIN list.up, Failed(u)
  PROVE  Fine
<1> DEFINE o == list.up[u]
           y == Fail(o)
           z == Settled(y)
           x == [z EXCEPT !.link = "over"]
<1>1. o \in Upload BY SoundListHas DEF QueueInv
<1>2. HoldsSlot(o) /\ list' = Woken(u, x) BY DEF Failed
<1>3. y \in Upload /\ y.state # "Queued"
  BY <1>1, <1>2 DEF Fail, Upload, TransferState, HoldsSlot
<1> HIDE DEF y, o
<1>4. z \in Upload /\ z.state # "Queued" BY <1>3 DEF Settled, Upload
<1> HIDE DEF z
<1>5. x \in Upload /\ x.state # "Queued" BY <1>4 DEF Upload
<1> HIDE DEF x
<1>6. WithinLimit /\ InOrder /\ list' \in SoundLists /\ Len(list'.up) = Len(list.up)
  BY <1>2, <1>5, WakingIsFine DEF o
<1> QED BY <1>6, NothingElse DEF Failed, QueueInv

LEMMA CancelStep ==
  ASSUME QueueInv, OnSenderCancelClicked
  PROVE  Fine
<1>1. timers' \in Nat /\ max' \in MaxChoices BY DEF OnSenderCancelClicked, QueueInv
<1>2. CASE CancelsAll
  <2>1. CancelAllSenderTransfers BY <1>2 DEF OnSenderCancelClicked
  <2>2. Releases BY <2>1, CancellingAll
  <2>3. WithinLimit /\ InOrder BY <2>2, ReleasingIsFine
  <2>4. folder' = NoFolder BY <2>1 DEF CancelAllSenderTransfers
  <2>5. list' \in SoundLists /\ Len(list'.up) = Len(list.up) BY <2>2 DEF Releases
  <2>6. Len(list'.up) + Coming(folder'.left) <= MaxUploads
    <3> DEFINE n == Len(list.up)
               c == Coming(folder.left)
    <3>1. n \in Nat /\ c \in Nat /\ MaxUploads \in Nat /\ n + c <= MaxUploads
      BY InvariantGives DEF InvariantParts, QueueInv
    <3>2. folder'.left = <<>> BY <2>4 DEF NoFolder
    <3>3. Len(list'.up) = n /\ Coming(folder'.left) = 0
      BY <2>5, <3>2, NothingComes DEF Coming
    <3> HIDE DEF n, c
    <3> QED BY <3>1, <3>3
  <2>7. folder' \in [active : BOOLEAN, left : Seq(Kind)] BY <2>4, NothingComes
  <2> QED BY <1>1, <2>3, <2>5, <2>6, <2>7 DEF Fine, QueueInv
<1>3. CASE ~CancelsAll
  <2> DEFINE u == Selected(list)
  <2>1. /\ CanCancel(list.up[u]) /\ list' = Woken(u, Cancelled(list.up[u]))
        /\ UNCHANGED folder
    BY <1>3 DEF OnSenderCancelClicked
  <2>2. u \in DOMAIN list.up /\ list.up[u] \in Upload
    BY <1>3, SoundListHas DEF CancelsAll, QueueInv
  <2> HIDE DEF u
  <2>3. /\ Cancelled(list.up[u]) \in Upload /\ ~HoldsSlot(Cancelled(list.up[u]))
        /\ Cancelled(list.up[u]).state # "Queued"
    BY <2>2, CancelledIsTyped
  <2>4. WithinLimit /\ InOrder /\ list' \in SoundLists /\ Len(list'.up) = Len(list.up)
    BY <2>1, <2>2, <2>3, WakingIsFine
  <2> QED BY <1>1, <2>1, <2>4, NothingElse
<1> QED BY <1>2, <1>3

LEMMA PauseStep ==
  ASSUME QueueInv, OnSenderPauseClicked \/ OnSenderResumeClicked
  PROVE  Fine
<1> DEFINE u == Selected(list)
<1>1. list.current # 0 /\ UNCHANGED <<folder, timers, max>>
  BY DEF OnSenderPauseClicked, OnSenderResumeClicked
<1>2. u \in DOMAIN list.up /\ list.up[u] \in Upload /\ list \in Lists
  BY <1>1, SoundListHas DEF QueueInv
<1>3. PICK new \in TransferState :
        HoldsSlot(list.up[u]) /\ list' = [list EXCEPT !.up[u] = SetState(list.up[u], new)]
  <2>1. CASE OnSenderPauseClicked
    <3>1. HoldsSlot(list.up[u]) /\ list' = [list EXCEPT !.up[u] = SetState(list.up[u], "Paused")]
      BY <1>2, <2>1 DEF OnSenderPauseClicked, CanPause, HoldsSlot, Lists
    <3> QED BY <3>1 DEF TransferState
  <2>2. CASE OnSenderResumeClicked
    <3>1. /\ HoldsSlot(list.up[u])
          /\ list' = [list EXCEPT !.up[u] = SetState(list.up[u], list.up[u].last)]
      BY <1>2, <2>2 DEF OnSenderResumeClicked, CanResume, HoldsSlot, Lists
    <3>2. list.up[u].last \in TransferState BY <1>2 DEF Upload
    <3> QED BY <3>1, <3>2
  <2> QED BY <2>1, <2>2
<1> DEFINE x == SetState(list.up[u], new)
<1>4. x \in Upload BY <1>2, TransitionsAreTyped
<1> HIDE DEF u, x
<1>5. Releases BY <1>2, <1>3, <1>4, OneChanges DEF x
<1>6. WithinLimit /\ InOrder BY <1>5, ReleasingIsFine
<1> QED BY <1>1, <1>5, <1>6, NothingElse DEF Releases, QueueInv

LEMMA RowsLeaveStep ==
  ASSUME QueueInv, OnSenderClearClicked \/ RemoveSenderItem
  PROVE  Fine
<1>1. UNCHANGED <<folder, timers, max>> BY DEF OnSenderClearClicked, RemoveSenderItem
<1>2. list \in SoundLists BY DEF QueueInv
<1>3. \E l \in SoundLists : \E gone : l.up = list.up /\ list' = Delete(l, gone)
  <2>1. CASE OnSenderClearClicked
    <3>1. /\ ClearCompleted(list, Clearable) \in SoundLists
          /\ ClearCompleted(list, Clearable).up = list.up
      BY <1>2, ClearIsSound
    <3> QED BY <2>1, <3>1 DEF OnSenderClearClicked
  <2>2. CASE RemoveSenderItem
    <3>1. /\ RemoveTransfer(list, list.current) \in SoundLists
          /\ RemoveTransfer(list, list.current).up = list.up
      BY <1>2, RemoveIsSound
    <3> QED BY <2>2, <3>1 DEF RemoveSenderItem
  <2> QED BY <2>1, <2>2
<1>4. Releases BY <1>3, DeletingIsFine
<1>5. WithinLimit /\ InOrder BY <1>4, ReleasingIsFine
<1> QED BY <1>1, <1>4, <1>5, NothingElse DEF Releases, QueueInv

LEMMA SelectStep ==
  ASSUME QueueInv, OnCardClicked
  PROVE  Fine
<1>1. PICK i \in DOMAIN list.rows : list' = [list EXCEPT !.current = i]
  BY DEF OnCardClicked, SetCurrentRow
<1>2. /\ list \in SoundLists /\ list \in Lists
      /\ DOMAIN list.rows = 1 .. Len(list.rows) /\ Len(list.rows) \in Nat
  BY SoundListHas DEF QueueInv
<1>3. i \in Nat /\ i \in 0 .. Len(list.rows) BY <1>2
<1>4. list' \in Lists /\ list'.up = list.up /\ list'.rows = list.rows /\ list'.current = i
  BY <1>1, <1>2, <1>3 DEF Lists
<1>5. list' \in SoundLists BY <1>2, <1>3, <1>4 DEF SoundLists
<1>6. Releases BY <1>4, <1>5 DEF Releases
<1>7. WithinLimit /\ InOrder BY <1>6, ReleasingIsFine
<1> QED BY <1>6, <1>7, NothingElse DEF OnCardClicked, Releases, QueueInv

LEMMA StartIsFine == Init => QueueInv
<1> SUFFICES ASSUME Init PROVE QueueInv OBVIOUS
<1>1. list \in SoundLists /\ Len(list.up) = 0
  <2>1. <<>> \in Seq(Nat) /\ <<>> \in Seq(Upload) /\ Len(<<>>) = 0 /\ DOMAIN <<>> = {}
        /\ \A D : <<>> \in Seq(D)
    OBVIOUS
  <2>2. list = [rows |-> <<>>, current |-> 0, up |-> <<>>] BY DEF Init
  <2>3. list \in Lists BY <2>1, <2>2 DEF Lists
  <2>4. list.rows = <<>> /\ list.current = 0 /\ list.up = <<>> BY <2>2
  <2>5. \A i, j \in DOMAIN list.rows : i < j => list.rows[i] > list.rows[j] BY <2>1, <2>4
  <2>6. list.rows \in Seq(DOMAIN list.up) /\ list.current \in 0 .. Len(list.rows)
    BY <2>1, <2>4
  <2>7. list \in SoundLists BY <2>3, <2>5, <2>6 DEF SoundLists
  <2> QED BY <2>1, <2>4, <2>7
<1>2. folder = NoFolder /\ folder.left = <<>> BY DEF Init, NoFolder
<1>3. MaxUploads \in Nat BY SendQueueAssumption
<1> QED BY <1>1, <1>2, <1>3, NothingComes DEF Init, QueueInv

LEMMA StepsAreFine == QueueInv /\ [Next]_vars => QueueInv'
                                              /\ (Next => WithinLimit /\ InOrder)
<1> SUFFICES ASSUME QueueInv, [Next]_vars
             PROVE  QueueInv' /\ (Next => WithinLimit /\ InOrder)
  OBVIOUS
<1>1. CASE UNCHANGED vars
  <2>1. Fine BY <1>1, Idles DEF vars, QueueInv
  <2> QED BY <2>1 DEF Fine
<1>2. ASSUME Next PROVE Fine
  <2>1. CASE SendItems BY <2>1, SendItemsStep
  <2>2. CASE StartFolderSend BY <2>2, StartFolderSendStep
  <2>3. CASE ProcessFolderSendBatch BY <2>3, FolderBatchStep
  <2>4. ASSUME NEW u \in DOMAIN list.up, UploadSteps(u) PROVE Fine
    BY <2>4, ConnectedStep, DoneStep, FailedStep DEF UploadSteps
  <2>5. CASE OnSenderCancelClicked BY <2>5, CancelStep
  <2>6. CASE OnSenderPauseClicked \/ OnSenderResumeClicked BY <2>6, PauseStep
  <2>7. CASE OnSenderClearClicked \/ RemoveSenderItem BY <2>7, RowsLeaveStep
  <2>8. CASE OnCardClicked BY <2>8, SelectStep
  <2>9. CASE SaveSettings BY <2>9, Idles DEF SaveSettings, QueueInv
  <2> QED BY <1>2, <2>1, <2>2, <2>3, <2>4, <2>5, <2>6, <2>7, <2>8, <2>9 DEF Next
<1> QED BY <1>1, <1>2 DEF Fine

LEMMA QueueIsSound == Spec => []QueueInv
  BY StartIsFine, StepsAreFine, PTL DEF Spec

-----------------------------------------------------------------------------
(* The theorems *)

(***************************************************************************)
(* Whatever users, uploads and the folder timer do, the list holds each    *)
(* upload once, newest first, the selection is a row of it or none, and    *)
(* no folder batch makes more uploads than its files and receivers call    *)
(* for.                                                                    *)
(***************************************************************************)
THEOREM QueueTypes == Spec => []TypeOK
<1>1. ASSUME QueueInv PROVE TypeOK
  <2>1. InvariantParts BY <1>1, InvariantGives
  <2>2. Len(list.up) <= MaxUploads
    <3> DEFINE n == Len(list.up)
               c == Coming(folder.left)
    <3>1. n \in Nat /\ c \in Nat /\ MaxUploads \in Nat /\ n + c <= MaxUploads
      BY <1>1, <2>1 DEF InvariantParts, QueueInv
    <3> HIDE DEF n, c
    <3>2. n <= MaxUploads BY <3>1
    <3> QED BY <3>2 DEF n
  <2>3. list \in SoundLists BY <1>1 DEF QueueInv
  <2>4. list.up \in Seq(Upload) BY <2>3, SoundListHas
  <2>5. /\ list.rows \in Seq(DOMAIN list.up) /\ list.current \in 0 .. Len(list.rows)
        /\ \A i, j \in DOMAIN list.rows : i < j => list.rows[i] > list.rows[j]
    BY <2>3 DEF SoundLists
  <2> QED BY <1>1, <2>1, <2>2, <2>4, <2>5 DEF TypeOK, QueueInv, InvariantParts, Kind
<1> QED BY <1>1, QueueIsSound, PTL

(***************************************************************************)
(* No step of anybody brings the running uploads above a limit that is     *)
(* set (mainwindow.cpp:244, 291).                                          *)
(***************************************************************************)
THEOREM LimitIsKept == Spec => SlotsWithinLimit
<1>1. QueueInv /\ [Next]_vars =>
        [max > 0 /\ ActiveCount(list'.up) > ActiveCount(list.up) =>
           ActiveCount(list'.up) <= max]_vars
  BY StepsAreFine DEF WithinLimit
<1> QED BY <1>1, QueueIsSound, PTL DEF Spec, SlotsWithinLimit

(***************************************************************************)
(* The queue is first come, first served (mainwindow.cpp:304).             *)
(***************************************************************************)
THEOREM FirstComeFirstServed == Spec => OldestFirst
<1>1. QueueInv /\ [Next]_vars =>
        [\A u, v \in DOMAIN list.up :
           v < u /\ {u, v} \subseteq Startable(list.up) /\ HoldsSlot(list'.up[u]) =>
             list'.up[v].state # "Queued"]_vars
  BY StepsAreFine DEF InOrder
<1> QED BY <1>1, QueueIsSound, PTL DEF Spec, OldestFirst

(***************************************************************************)
(* Cancelling everything leaves nothing running, queued or newly connected *)
(* and no folder to send, and a batch that comes after it sends nothing    *)
(* (mainwindow.cpp:497).                                                   *)
(***************************************************************************)
THEOREM CancelAllIsThorough == Spec => CancelAllStopsEverything
<1> DEFINE Stops ==
  /\ OnSenderCancelClicked /\ CancelsAll =>
       /\ ~folder'.active
       /\ \A u \in DOMAIN list.up :
            /\ ~HoldsSlot(list'.up[u]) /\ list'.up[u].state # "Queued"
            /\ list.up[u].link = "none" => list'.up[u].link = "none"
  /\ ProcessFolderSendBatch /\ ~folder.active => UNCHANGED list
<1>1. ASSUME QueueInv PROVE Stops
  <2>1. ASSUME OnSenderCancelClicked, CancelsAll
        PROVE  /\ ~folder'.active
               /\ \A u \in DOMAIN list.up :
                    /\ ~HoldsSlot(list'.up[u]) /\ list'.up[u].state # "Queued"
                    /\ list.up[u].link = "none" => list'.up[u].link = "none"
    <3>1. CancelAllSenderTransfers BY <2>1 DEF OnSenderCancelClicked
    <3>2. folder' = NoFolder BY <3>1 DEF CancelAllSenderTransfers
    <3> QED BY <1>1, <3>1, <3>2, CancellingAll DEF NoFolder
  <2>2. ProcessFolderSendBatch /\ ~folder.active => UNCHANGED list
    BY DEF ProcessFolderSendBatch
  <2> QED BY <2>1, <2>2
<1>2. QueueInv /\ [Next]_vars => [Stops]_vars BY <1>1
<1>3. Spec => [][Stops]_vars
  <2> HIDE DEF Stops
  <2> QED BY <1>2, QueueIsSound, PTL DEF Spec
<1> QED BY <1>3 DEF CancelAllStopsEverything
=============================================================================
