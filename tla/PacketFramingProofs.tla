------------------------- MODULE PacketFramingProofs -------------------------
(***************************************************************************)
(* Proofs about PacketFraming, for packets of any sizes, any limits, any   *)
(* portions in which bytes arrive and any number of reconnects: the        *)
(* handlers see the packets that were written (PacketStream), and nothing  *)
(* waits in the buffer but a tiny packet.                                  *)
(*                                                                         *)
(* The argument is about all bytes that the reader has not consumed, in    *)
(* its buffer or under way: they are whole packets one after the other,    *)
(* but for the size of the first, which may be out already.  A portion     *)
(* that arrives does not change them, and a packet is taken off their      *)
(* front.                                                                  *)
(***************************************************************************)
EXTENDS PacketFraming, SequenceTheorems, TLAPS

-----------------------------------------------------------------------------
(***************************************************************************)
(* The invariant.                                                          *)
(***************************************************************************)

Unread == mBuff \o wire

\* the place of the last byte of the packet that byte i of b belongs to
End(b, i, s) == i + HeaderSize + s[b[i].packet].size - b[i].at

\* every byte of b is followed by the rest of its packet, that one by the next packet of s
Contiguous(b, s) ==
  \A i \in 1 .. Len(b) :
    /\ b[i].packet \in 1 .. Len(s)
    /\ End(b, i, s) \in i .. Len(b)
    /\ \A j \in i .. End(b, i, s) : b[j] = [packet |-> b[i].packet, at |-> b[i].at + j - i]
    /\ IF End(b, i, s) = Len(b) THEN b[i].packet = Len(s)
       ELSE b[End(b, i, s) + 1] = [packet |-> b[i].packet + 1, at |-> 1]

\* b starts with the packet after the n taken, or behind its size, which is in z
StartsAt(b, n, z, s) ==
  /\ IF b = <<>> THEN z = -1 /\ n = Len(s)
     ELSE b[1] = [packet |-> n + 1, at |-> IF z < 0 THEN 1 ELSE HeaderSize]
  /\ z >= 0 => n < Len(s) /\ z = s[n + 1].size

\* the reader has left its loop: less than a header, or less than a packet, is there
Waiting == \/ Len(mBuff) < HeaderSize
           \/ size >= 0 /\ Len(mBuff) <= size

Reading ==
  /\ Contiguous(Unread, sent) /\ StartsAt(Unread, Len(taken), size, sent)
  /\ reader = "control" => size # 0
  /\ reader = "data" => taken # <<>>
  /\ ~looping => Waiting

\* what may be written to which socket
Written ==
  /\ \A i \in DOMAIN sent :
       IF data THEN /\ sent[i].size > SizeBytes
                    /\ sent[i].kind = IF i = 1 THEN "attach" ELSE "more"
       ELSE sent[i].kind # "attach"
  /\ reader = "data" => data
  /\ data /\ reader = "control" => Len(sent) <= 1

FramingInv ==
  /\ TypeOK /\ Written
  /\ looping => over = "no"
  /\ over = "no" => Reading

-----------------------------------------------------------------------------
(***************************************************************************)
(* Sequences of bytes.                                                     *)
(***************************************************************************)

LEMMA DropParts ==
  ASSUME NEW S, NEW b \in Seq(S), NEW n \in 0 .. Len(b)
  PROVE  /\ Drop(b, n) \in Seq(S) /\ Len(Drop(b, n)) = Len(b) - n
         /\ \A i \in 1 .. Len(b) - n : Drop(b, n)[i] = b[i + n]
  BY DEF Drop

LEMMA TakeParts ==
  ASSUME NEW S, NEW b \in Seq(S), NEW n \in 0 .. Len(b)
  PROVE  /\ SubSeq(b, 1, n) \in Seq(S) /\ Len(SubSeq(b, 1, n)) = n
         /\ \A i \in 1 .. n : SubSeq(b, 1, n)[i] = b[i]
  OBVIOUS

LEMMA ConcatParts ==
  ASSUME NEW S, NEW a \in Seq(S), NEW b \in Seq(S)
  PROVE  /\ a \o b \in Seq(S) /\ Len(a \o b) = Len(a) + Len(b)
         /\ \A i \in 1 .. Len(a) : (a \o b)[i] = a[i]
         /\ \A i \in 1 .. Len(b) : (a \o b)[Len(a) + i] = b[i]
  OBVIOUS

\* what is split is put together again
LEMMA Halves ==
  ASSUME NEW S, NEW b \in Seq(S), NEW n \in 0 .. Len(b)
  PROVE  SubSeq(b, 1, n) \o Drop(b, n) = b
<1>1. /\ 1 \in 1 .. Len(b) + 1 /\ n \in 1 - 1 .. Len(b) /\ Len(b) \in n .. Len(b)
  OBVIOUS
<1>2. SubSeq(b, 1, n) \o SubSeq(b, n + 1, Len(b)) = SubSeq(b, 1, Len(b))
  BY <1>1, ConcatAdjacentSubSeq, Zenon
<1> QED BY <1>2, SubSeqFull DEF Drop

\* bytes that arrive stay in their order
LEMMA Arrival ==
  ASSUME NEW S, NEW m \in Seq(S), NEW w \in Seq(S), NEW n \in 0 .. Len(w)
  PROVE  (m \o SubSeq(w, 1, n)) \o Drop(w, n) = m \o w
<1> DEFINE a == SubSeq(w, 1, n)
           d == Drop(w, n)
<1>1. a \in Seq(S) /\ d \in Seq(S)
  BY TakeParts, DropParts
<1>2. a \o d = w
  BY Halves
<1> HIDE DEF a, d
<1>3. (m \o a) \o d = m \o (a \o d)
  BY <1>1, ConcatAssociative
<1> QED BY <1>2, <1>3 DEF a, d

LEMMA DropThePrefix ==
  ASSUME NEW S, NEW a \in Seq(S), NEW b \in Seq(S)
  PROVE  Drop(a \o b, Len(a)) = b
<1>1. Len(a \o b) = Len(a) + Len(b) /\ a \o b \in Seq(S)
  BY ConcatParts
<1>2. CASE b = <<>>
  <2>1. Len(b) = 0 /\ Len(a \o b) < Len(a) + 1
    BY <1>1, <1>2
  <2> QED BY <1>2, <2>1, SubSeqEmpty DEF Drop
<1>3. CASE b # <<>>
  <2>1. Len(b) > 0
    BY <1>3
  <2>2. SubSeq(a \o b, Len(a) + 1, Len(a) + Len(b)) = SubSeq(b, 1, Len(b))
    BY <2>1, SubSeqOfConcat2
  <2> QED BY <1>1, <2>2, SubSeqFull DEF Drop
<1> QED BY <1>2, <1>3

\* what is dropped from the buffer is dropped from the unread bytes
LEMMA DropOfConcat ==
  ASSUME NEW S, NEW m \in Seq(S), NEW w \in Seq(S), NEW n \in 0 .. Len(m)
  PROVE  Drop(m, n) \o w = Drop(m \o w, n)
<1> DEFINE a == SubSeq(m, 1, n)
           d == Drop(m, n)
<1>1. a \in Seq(S) /\ Len(a) = n /\ d \in Seq(S)
  BY TakeParts, DropParts
<1>2. a \o d = m
  BY Halves
<1> HIDE DEF a, d
<1>3. (a \o d) \o w = a \o (d \o w) /\ d \o w \in Seq(S)
  BY <1>1, ConcatAssociative, ConcatParts
<1>4. Drop(a \o (d \o w), n) = d \o w
  BY <1>1, <1>3, DropThePrefix
<1> QED BY <1>2, <1>3, <1>4 DEF d

-----------------------------------------------------------------------------
(***************************************************************************)
(* Unread bytes.                                                           *)
(***************************************************************************)

LEMMA ByteParts ==
  ASSUME NEW x \in Byte
  PROVE  x.packet \in Nat \ {0} /\ x.at \in Nat \ {0}
<1>1. Max(Sizes) \in Nat
  BY FramingAssumption DEF FramingAssumption, Max
<1>2. HeaderSize + Max(Sizes) \in Int
  BY <1>1 DEF HeaderSize, SizeBytes
<1> QED BY <1>2, FramingAssumption DEF Byte, FramingAssumption

LEMMA PacketParts ==
  ASSUME NEW s \in Seq(Packet), NEW k \in 1 .. Len(s)
  PROVE  s[k] \in Packet /\ s[k].size \in Sizes /\ s[k].size \in Nat
<1>1. s[k] \in Packet
  OBVIOUS
<1>2. s[k].size \in Sizes
  BY <1>1 DEF Packet
<1> QED BY <1>1, <1>2, FramingAssumption DEF FramingAssumption

\* the first packet of the unread bytes is all there, and the next one follows it
LEMMA FirstPacket ==
  ASSUME NEW s \in Seq(Packet), NEW b \in Seq(Byte), NEW n \in Nat, NEW z \in Int, b # <<>>,
         Contiguous(b, s), StartsAt(b, n, z, s),
         NEW at \in Int, at = IF z < 0 THEN 1 ELSE HeaderSize,
         NEW last \in Int, last = HeaderSize + s[n + 1].size - at + 1
  PROVE  /\ n + 1 \in 1 .. Len(s)
         /\ last \in 1 .. Len(b)
         /\ \A j \in 1 .. last : b[j] = [packet |-> n + 1, at |-> at + j - 1]
         /\ IF last = Len(b) THEN n + 1 = Len(s) ELSE b[last + 1] = [packet |-> n + 2, at |-> 1]
<1>1. 1 \in 1 .. Len(b)
  OBVIOUS
<1>2. b[1].packet = n + 1 /\ b[1].at = at
  BY DEF StartsAt
<1>3. n + 1 \in 1 .. Len(s)
  BY <1>1, <1>2 DEF Contiguous
<1>4. s[n + 1].size \in Nat
  BY <1>3, PacketParts
<1>5. End(b, 1, s) = last
  BY <1>2, <1>3, <1>4 DEF End, HeaderSize, SizeBytes
<1>6. /\ last \in 1 .. Len(b)
      /\ \A j \in 1 .. last : b[j] = [packet |-> n + 1, at |-> at + j - 1]
      /\ IF last = Len(b) THEN n + 1 = Len(s) ELSE b[last + 1] = [packet |-> n + 1 + 1, at |-> 1]
  BY <1>1, <1>2, <1>5 DEF Contiguous
<1>7. n + 1 + 1 = n + 2
  OBVIOUS
<1> QED BY <1>3, <1>6, <1>7

LEMMA DropContiguous ==
  ASSUME NEW s \in Seq(Packet), NEW b \in Seq(Byte), Contiguous(b, s), NEW k \in 0 .. Len(b)
  PROVE  Contiguous(Drop(b, k), s)
<1> DEFINE d == Drop(b, k)
           l == Len(b)
<1>0. l \in Nat /\ k \in 0 .. l
  OBVIOUS
<1>1. /\ d \in Seq(Byte) /\ Len(d) = l - k
      /\ \A i \in 1 .. l - k : d[i] = b[i + k]
  BY DropParts
<1>2. \A i \in 1 .. l : b[i] \in Byte
  OBVIOUS
<1> HIDE DEF d
<1> SUFFICES ASSUME NEW i \in 1 .. Len(d)
             PROVE  /\ d[i].packet \in 1 .. Len(s)
                    /\ End(d, i, s) \in i .. Len(d)
                    /\ \A j \in i .. End(d, i, s) :
                         d[j] = [packet |-> d[i].packet, at |-> d[i].at + j - i]
                    /\ IF End(d, i, s) = Len(d) THEN d[i].packet = Len(s)
                       ELSE d[End(d, i, s) + 1] = [packet |-> d[i].packet + 1, at |-> 1]
  BY DEF Contiguous, d
<1> DEFINE e == End(b, i + k, s)
           n == d[i].packet
           at == d[i].at
           z == s[n].size
<1>3. i + k \in 1 .. l /\ i \in 1 .. l - k
  BY <1>0, <1>1
<1>4. d[i] = b[i + k]
  BY <1>1, <1>3
<1>5. /\ n \in 1 .. Len(s)
      /\ e \in i + k .. l
      /\ \A j \in i + k .. e : b[j] = [packet |-> n, at |-> at + j - (i + k)]
      /\ IF e = l THEN n = Len(s) ELSE b[e + 1] = [packet |-> n + 1, at |-> 1]
  BY <1>3, <1>4 DEF Contiguous
<1>6. z \in Nat /\ at \in Nat
  BY <1>2, <1>3, <1>4, <1>5, ByteParts, PacketParts
<1>7. End(d, i, s) = e - k
  <2>1. e = i + k + HeaderSize + z - at
    BY <1>4 DEF End
  <2>2. End(d, i, s) = i + HeaderSize + z - at
    BY DEF End
  <2> HIDE DEF e, n, at, l, z
  <2> QED BY <1>0, <1>3, <1>6, <2>1, <2>2 DEF HeaderSize, SizeBytes
<1> HIDE DEF e, n, at, l, z
<1>8. e \in Int /\ e - k \in i .. l - k
  BY <1>0, <1>3, <1>5
<1>9. ASSUME NEW j \in i .. e - k
      PROVE  d[j] = [packet |-> n, at |-> at + j - i]
  <2>1. j + k \in i + k .. e /\ j \in 1 .. l - k
    BY <1>0, <1>3, <1>8, <1>9
  <2>2. b[j + k] = [packet |-> n, at |-> at + (j + k) - (i + k)]
    BY <1>5, <2>1
  <2>3. at + (j + k) - (i + k) = at + j - i
    BY <1>0, <1>3, <1>6, <2>1
  <2> QED BY <1>1, <2>1, <2>2, <2>3
<1>10. IF e - k = l - k THEN n = Len(s) ELSE d[e - k + 1] = [packet |-> n + 1, at |-> 1]
  <2>1. CASE e = l
    BY <1>1, <1>5, <2>1
  <2>2. CASE e # l
    <3>1. e - k + 1 \in 1 .. l - k /\ e - k + 1 + k = e + 1 /\ e - k # l - k
      BY <1>0, <1>3, <1>5, <1>8, <2>2
    <3> QED BY <1>1, <1>5, <2>2, <3>1
  <2> QED BY <2>1, <2>2
<1> QED BY <1>1, <1>5, <1>7, <1>8, <1>9, <1>10 DEF n, at

\* as long as its size has not been taken out
LEMMA FirstSized ==
  ASSUME NEW s \in Seq(Packet), NEW b \in Seq(Byte), NEW n \in Nat, b # <<>>,
         Contiguous(b, s), StartsAt(b, n, -1, s)
  PROVE  /\ n + 1 \in 1 .. Len(s) /\ s[n + 1].size \in Nat
         /\ HeaderSize + s[n + 1].size \in 1 .. Len(b)
         /\ \A j \in 1 .. HeaderSize + s[n + 1].size : b[j] = [packet |-> n + 1, at |-> j]
<1> DEFINE z == s[n + 1].size
<1>1. 1 \in 1 .. Len(b) /\ b[1].packet = n + 1 /\ b[1].at = 1
  BY DEF StartsAt
<1>2. n + 1 \in 1 .. Len(s)
  BY <1>1 DEF Contiguous
<1>3. z \in Nat
  BY <1>2, PacketParts
<1>4. End(b, 1, s) = 1 + HeaderSize + z - 1
  BY <1>1 DEF End
<1> HIDE DEF z
<1>5. End(b, 1, s) = HeaderSize + z
  BY <1>3, <1>4 DEF HeaderSize, SizeBytes
<1>6. /\ HeaderSize + z \in 1 .. Len(b)
      /\ \A j \in 1 .. HeaderSize + z : b[j] = [packet |-> n + 1, at |-> 1 + j - 1]
  BY <1>1, <1>5 DEF Contiguous
<1>7. \A j \in 1 .. HeaderSize + z : 1 + j - 1 = j
  BY <1>3 DEF HeaderSize, SizeBytes
<1> QED BY <1>2, <1>3, <1>6, <1>7 DEF z

\* the size of the next packet is taken out
LEMMA DropSize ==
  ASSUME NEW s \in Seq(Packet), NEW b \in Seq(Byte), NEW n \in Nat, b # <<>>,
         Contiguous(b, s), StartsAt(b, n, -1, s)
  PROVE  /\ Contiguous(Drop(b, SizeBytes), s)
         /\ StartsAt(Drop(b, SizeBytes), n, s[n + 1].size, s)
<1>1. /\ n + 1 \in 1 .. Len(s) /\ s[n + 1].size \in Nat
      /\ HeaderSize + s[n + 1].size \in 1 .. Len(b)
      /\ \A j \in 1 .. HeaderSize + s[n + 1].size : b[j] = [packet |-> n + 1, at |-> j]
  BY FirstSized
<1>2. SizeBytes \in 0 .. Len(b) /\ HeaderSize \in 1 .. HeaderSize + s[n + 1].size
      /\ 1 \in 1 .. Len(b) - SizeBytes /\ 1 + SizeBytes = HeaderSize
  BY <1>1 DEF HeaderSize, SizeBytes
<1>3. /\ Drop(b, SizeBytes) \in Seq(Byte) /\ Len(Drop(b, SizeBytes)) = Len(b) - SizeBytes
      /\ Drop(b, SizeBytes)[1] = b[HeaderSize]
  BY <1>2, DropParts
<1>4. Drop(b, SizeBytes) # <<>> /\ b[HeaderSize] = [packet |-> n + 1, at |-> HeaderSize]
  BY <1>1, <1>2, <1>3
<1>5. n + 1 \in 1 .. Len(s)
  BY <1>1
<1> QED BY <1>1, <1>2, <1>3, <1>4, <1>5, DropContiguous DEF StartsAt

\* the rest of it is taken out
LEMMA DropPacket ==
  ASSUME NEW s \in Seq(Packet), NEW b \in Seq(Byte), NEW n \in Nat, NEW z \in Nat,
         Contiguous(b, s), StartsAt(b, n, z, s)
  PROVE  /\ z + 1 \in 0 .. Len(b)
         /\ Contiguous(Drop(b, z + 1), s) /\ StartsAt(Drop(b, z + 1), n + 1, -1, s)
<1>1. b # <<>> /\ z = s[n + 1].size /\ ~(z < 0) /\ n + 1 <= Len(s)
  BY DEF StartsAt
<1>2. /\ z + 1 \in 1 .. Len(b)
      /\ IF z + 1 = Len(b) THEN n + 1 = Len(s) ELSE b[z + 1 + 1] = [packet |-> n + 2, at |-> 1]
  <2>1. /\ HeaderSize \in Int /\ z + 1 \in Int /\ HeaderSize = IF z < 0 THEN 1 ELSE HeaderSize
        /\ z + 1 = HeaderSize + s[n + 1].size - HeaderSize + 1
    BY <1>1 DEF HeaderSize, SizeBytes
  <2> QED BY <1>1, <2>1, FirstPacket
<1>3. /\ Drop(b, z + 1) \in Seq(Byte) /\ Len(Drop(b, z + 1)) = Len(b) - (z + 1)
      /\ \A i \in 1 .. Len(b) - (z + 1) : Drop(b, z + 1)[i] = b[i + (z + 1)]
  BY <1>2, DropParts
<1>4. Contiguous(Drop(b, z + 1), s)
  BY <1>2, DropContiguous
<1>5. CASE z + 1 = Len(b)
  <2>1. Drop(b, z + 1) = <<>>
    BY <1>3, <1>5
  <2> QED BY <1>2, <1>4, <1>5, <2>1 DEF StartsAt
<1>6. CASE z + 1 # Len(b)
  <2>1. 1 \in 1 .. Len(b) - (z + 1) /\ 1 + (z + 1) = z + 1 + 1 /\ n + 1 + 1 = n + 2
    BY <1>2, <1>6
  <2>2. Drop(b, z + 1) # <<>> /\ Drop(b, z + 1)[1] = [packet |-> n + 1 + 1, at |-> 1]
    BY <1>2, <1>3, <1>6, <2>1
  <2> QED BY <1>2, <1>4, <2>2 DEF StartsAt
<1> QED BY <1>5, <1>6

\* another packet is written behind the unread bytes
LEMMA WriteContiguous ==
  ASSUME NEW s \in Seq(Packet), NEW b \in Seq(Byte), NEW p \in Packet, NEW n \in Nat, NEW z \in Int,
         Contiguous(b, s), StartsAt(b, n, z, s), NEW w \in Seq(Byte), w = Bytes(Len(s) + 1, p)
  PROVE  Contiguous(b \o w, Append(s, p)) /\ StartsAt(b \o w, n, z, Append(s, p))
<1> DEFINE t == Append(s, p)
           c == b \o w
           l == Len(b)
           k == Len(s)
           m == HeaderSize + p.size
<1>1. /\ t \in Seq(Packet) /\ Len(t) = k + 1 /\ t[k + 1] = p
      /\ \A i \in 1 .. k : t[i] = s[i]
  OBVIOUS
<1>2. k \in Nat /\ l \in Nat /\ m \in Nat /\ m >= 1 /\ p.size \in Nat
  <2> DEFINE z1 == p.size
  <2>1. z1 \in Nat
    BY FramingAssumption DEF Packet, FramingAssumption
  <2>2. m = HeaderSize + z1 /\ k \in Nat /\ l \in Nat
    OBVIOUS
  <2> HIDE DEF z1, m
  <2>3. m \in Nat /\ m >= 1
    BY <2>1, <2>2 DEF HeaderSize, SizeBytes
  <2> QED BY <2>1, <2>2, <2>3 DEF z1
<1>3. Len(w) = m /\ \A i \in 1 .. m : w[i] = [packet |-> k + 1, at |-> i]
  BY <1>2 DEF Bytes
<1>4. /\ c \in Seq(Byte) /\ Len(c) = l + m
      /\ \A i \in 1 .. l : c[i] = b[i]
      /\ \A i \in 1 .. m : c[l + i] = [packet |-> k + 1, at |-> i]
  BY <1>3, ConcatParts
<1> HIDE DEF t, c, m
<1>5. ASSUME NEW i \in 1 .. l
      PROVE  /\ c[i].packet \in 1 .. k + 1
             /\ End(c, i, t) \in i .. l + m
             /\ \A j \in i .. End(c, i, t) :
                  c[j] = [packet |-> c[i].packet, at |-> c[i].at + j - i]
             /\ IF End(c, i, t) = l + m THEN c[i].packet = k + 1
                ELSE c[End(c, i, t) + 1] = [packet |-> c[i].packet + 1, at |-> 1]
  <2> DEFINE e == End(b, i, s)
  <2>1. /\ b[i].packet \in 1 .. k
        /\ e \in i .. l
        /\ \A j \in i .. e : b[j] = [packet |-> b[i].packet, at |-> b[i].at + j - i]
        /\ IF e = l THEN b[i].packet = k ELSE b[e + 1] = [packet |-> b[i].packet + 1, at |-> 1]
    BY <1>5 DEF Contiguous
  <2>2. c[i] = b[i] /\ t[c[i].packet] = s[b[i].packet]
    BY <1>1, <1>4, <1>5, <2>1
  <2>3. End(c, i, t) = e
    BY <2>2 DEF End
  <2> HIDE DEF e
  <2>4. \A j \in i .. e : j \in 1 .. l
    BY <1>2, <1>5, <2>1
  <2>5. \A j \in i .. e : c[j] = [packet |-> c[i].packet, at |-> c[i].at + j - i]
    BY <1>4, <2>1, <2>2, <2>4
  <2>6. e # l + m /\ e \in i .. l + m
    BY <1>2, <1>5, <2>1
  <2>7. c[e + 1] = [packet |-> c[i].packet + 1, at |-> 1]
    <3>1. CASE e = l
      <4>1. c[l + 1] = [packet |-> k + 1, at |-> 1]
        BY <1>2, <1>4
      <4> QED BY <2>1, <2>2, <3>1, <4>1
    <3>2. CASE e # l
      <4>1. e + 1 \in 1 .. l
        BY <1>2, <1>5, <2>1, <3>2
      <4> QED BY <1>4, <2>1, <2>2, <3>2, <4>1
    <3> QED BY <3>1, <3>2
  <2>8. c[i].packet \in 1 .. k + 1
    BY <1>2, <2>1, <2>2
  <2> QED BY <2>3, <2>5, <2>6, <2>7, <2>8
<1>6. ASSUME NEW i \in l + 1 .. l + m
      PROVE  /\ c[i].packet \in 1 .. k + 1
             /\ End(c, i, t) \in i .. l + m
             /\ \A j \in i .. End(c, i, t) :
                  c[j] = [packet |-> c[i].packet, at |-> c[i].at + j - i]
             /\ IF End(c, i, t) = l + m THEN c[i].packet = k + 1
                ELSE c[End(c, i, t) + 1] = [packet |-> c[i].packet + 1, at |-> 1]
  <2>1. \A j \in l + 1 .. l + m : c[j] = [packet |-> k + 1, at |-> j - l]
    <3>1. \A j \in l + 1 .. l + m : j - l \in 1 .. m /\ l + (j - l) = j
      BY <1>2
    <3> QED BY <1>4, <3>1
  <2>2. c[i].packet = k + 1 /\ c[i].at = i - l
    <3>1. c[i] = [packet |-> k + 1, at |-> i - l]
      BY <1>6, <2>1
    <3> QED BY <3>1
  <2>3. End(c, i, t) = i + HeaderSize + p.size - (i - l)
    BY <1>1, <2>2 DEF End
  <2>4. End(c, i, t) = l + m
    <3> DEFINE z1 == p.size
    <3>1. z1 \in Nat /\ m = HeaderSize + z1 /\ End(c, i, t) = i + HeaderSize + z1 - (i - l)
      BY <1>2, <2>3 DEF m
    <3> HIDE DEF z1
    <3> QED BY <1>2, <3>1 DEF HeaderSize, SizeBytes
  <2>5. \A j \in i .. l + m : j \in l + 1 .. l + m /\ (i - l) + j - i = j - l
    BY <1>2
  <2>6. k + 1 \in 1 .. k + 1 /\ l + m \in i .. l + m
    BY <1>2
  <2> QED BY <2>1, <2>2, <2>4, <2>5, <2>6
<1>7. \A i \in 1 .. l + m : i \in 1 .. l \/ i \in l + 1 .. l + m
  BY <1>2
<1>8. Contiguous(c, t)
  BY <1>1, <1>4, <1>5, <1>6, <1>7 DEF Contiguous
<1>9. StartsAt(c, n, z, t)
  <2>1. 1 \in 1 .. l + m /\ c # <<>>
    BY <1>2, <1>4
  <2>2. z >= 0 => n < k + 1 /\ z = t[n + 1].size
    <3>1. ASSUME z >= 0 PROVE n < k /\ z = s[n + 1].size
      BY <3>1 DEF StartsAt
    <3>2. ASSUME z >= 0 PROVE n + 1 \in 1 .. k
      BY <1>2, <3>1, <3>2
    <3> QED BY <1>1, <1>2, <3>1, <3>2
  <2>3. c[1] = [packet |-> n + 1, at |-> IF z < 0 THEN 1 ELSE HeaderSize]
    <3>1. CASE b = <<>>
      <4>1. l = 0 /\ z = -1 /\ n = k
        BY <3>1 DEF StartsAt
      <4>2. c[1] = [packet |-> k + 1, at |-> 1] /\ z < 0
        BY <1>2, <1>4, <4>1
      <4> QED BY <4>1, <4>2
    <3>2. CASE b # <<>>
      <4>1. 1 \in 1 .. l
        BY <3>2
      <4> QED BY <1>4, <3>2, <4>1 DEF StartsAt
    <3> QED BY <3>1, <3>2
  <2> QED BY <1>1, <2>1, <2>2, <2>3 DEF StartsAt
<1> QED BY <1>8, <1>9 DEF c, t

-----------------------------------------------------------------------------
(***************************************************************************)
(* The reader.                                                             *)
(***************************************************************************)

LEMMA InitFraming == Init => FramingInv
<1> SUFFICES ASSUME Init PROVE FramingInv
  OBVIOUS
<1>1. /\ sent = <<>> /\ wire = <<>> /\ taken = <<>> /\ mBuff = <<>> /\ size = -1
      /\ reader = "control" /\ looping = FALSE /\ over = "no"
  BY DEF Init
<1>2. TypeOK
  <2>1. sent \in Seq(Packet) /\ taken \in Seq(Packet) /\ wire \in Seq(Byte) /\ mBuff \in Seq(Byte)
    BY <1>1
  <2>2. retries \in 0 .. MaxRetries /\ limit \in Limits /\ data \in BOOLEAN
    BY FramingAssumption DEF Init, FramingAssumption
  <2> QED BY <1>1, <2>1, <2>2 DEF TypeOK
<1>3. Unread = <<>> /\ Len(Unread) = 0
  BY <1>1 DEF Unread
<1>4. Contiguous(Unread, sent)
  BY <1>3 DEF Contiguous
<1>5. StartsAt(Unread, Len(taken), size, sent)
  BY <1>1, <1>3 DEF StartsAt
<1>6. Waiting
  BY <1>1 DEF Waiting, HeaderSize, SizeBytes
<1>7. Written
  BY <1>1 DEF Written
<1> QED BY <1>1, <1>2, <1>4, <1>5, <1>6, <1>7 DEF FramingInv, Reading

\* the reader gives up
LEMMA FailKeeps ==
  ASSUME FramingInv, NEW why \in {"stopped", "refused"}, FailReader(why),
         UNCHANGED <<writer, wire, limit>>
  PROVE  FramingInv'
<1>1. TypeOK'
  <2>1. mBuff' = <<>> /\ size' = -1 /\ looping' = FALSE /\ over' = why
    BY DEF FailReader
  <2>2. mBuff' \in Seq(Byte)
    BY <2>1
  <2> QED BY <2>1, <2>2 DEF FramingInv, TypeOK, FailReader, writer
<1>2. Written'
  BY DEF FramingInv, Written, FailReader, writer
<1> QED BY <1>1, <1>2 DEF FramingInv, FailReader

\* what is known of the packet that is read
LEMMA ReaderParts ==
  ASSUME FramingInv, over = "no"
  PROVE  /\ sent \in Seq(Packet) /\ taken \in Seq(Packet) /\ Len(taken) \in Nat
         /\ mBuff \in Seq(Byte) /\ wire \in Seq(Byte) /\ Unread \in Seq(Byte)
         /\ Len(Unread) = Len(mBuff) + Len(wire)
         /\ \A i \in 1 .. Len(mBuff) : Unread[i] = mBuff[i]
         /\ size \in Sizes \cup {-1} /\ size \in Int
         /\ Contiguous(Unread, sent) /\ StartsAt(Unread, Len(taken), size, sent)
<1>1. mBuff \in Seq(Byte) /\ wire \in Seq(Byte)
  BY DEF FramingInv, TypeOK
<1>2. /\ Unread \in Seq(Byte) /\ Len(Unread) = Len(mBuff) + Len(wire)
      /\ \A i \in 1 .. Len(mBuff) : Unread[i] = mBuff[i]
  BY <1>1, ConcatParts DEF Unread
<1>3. size \in Sizes \cup {-1} /\ size \in Int
  BY FramingAssumption DEF FramingInv, TypeOK, FramingAssumption
<1>4. sent \in Seq(Packet) /\ taken \in Seq(Packet) /\ Len(taken) \in Nat
  BY DEF FramingInv, TypeOK
<1> QED BY <1>1, <1>2, <1>3, <1>4 DEF FramingInv, Reading

(***************************************************************************)
(* A packet is taken: rest is the buffer from its type on, n its size.     *)
(***************************************************************************)
LEMMA TakeKeeps ==
  ASSUME FramingInv, over = "no", NEW rest \in Seq(Byte), NEW n \in Nat,
         Contiguous(rest \o wire, sent), StartsAt(rest \o wire, Len(taken), n, sent),
         Len(rest) >= n + 1, Take(rest, n), UNCHANGED <<writer, wire, limit>>
  PROVE  FramingInv' /\ Stream!Take
<1> DEFINE b == rest \o wire
           k == Len(taken)
           p == sent[k + 1]
           d == Drop(rest, n + 1)
<1>1. /\ sent \in Seq(Packet) /\ taken \in Seq(Packet) /\ k \in Nat /\ wire \in Seq(Byte)
  BY ReaderParts
<1>2. /\ b \in Seq(Byte) /\ Len(b) = Len(rest) + Len(wire) /\ b # <<>>
      /\ b[1] = rest[1]
  <2>1. 1 \in 1 .. Len(rest)
    OBVIOUS
  <2> QED BY <1>1, <2>1, ConcatParts
<1>3. k < Len(sent) /\ n = p.size /\ b[1].packet = k + 1
  BY <1>2 DEF StartsAt
<1>4. k + 1 \in 1 .. Len(sent) /\ p \in Packet
  BY <1>1, <1>3, PacketParts
<1>5. rest[1].packet = k + 1
  BY <1>2, <1>3
<1>6. /\ taken' = Append(taken, p) /\ size' = -1
      /\ over' = IF p.kind = "end" THEN "end" ELSE "no"
      /\ IF p.kind = "attach" THEN reader' = "data" /\ mBuff' = <<>> /\ looping' = FALSE
         ELSE reader' = reader /\ mBuff' = d /\ looping' = (p.kind = "more")
  BY <1>5 DEF Take
<1>7. Stream!Take
  BY <1>3, <1>6 DEF Stream!Take, Stream!Waits, Stream!Following, writer
<1>8. /\ d \in Seq(Byte) /\ d \o wire = Drop(b, n + 1)
  <2>1. n + 1 \in 0 .. Len(rest)
    OBVIOUS
  <2> QED BY <1>1, <2>1, DropParts, DropOfConcat
<1>9. /\ n + 1 \in 0 .. Len(b)
      /\ Contiguous(Drop(b, n + 1), sent) /\ StartsAt(Drop(b, n + 1), k + 1, -1, sent)
  <2> HIDE DEF b, k
  <2> QED BY <1>1, <1>2, DropPacket DEF b, k
<1> HIDE DEF b, d
<1>10. TypeOK'
  <2>1. p.kind \in {"attach", "more", "end"}
    BY <1>4 DEF Packet
  <2>2. taken' \in Seq(Packet)
    BY <1>1, <1>4, <1>6
  <2>3. mBuff' \in Seq(Byte)
    <3>1. mBuff' = <<>> \/ mBuff' = d
      BY <1>6
    <3>2. <<>> \in Seq(Byte) /\ d \in Seq(Byte)
      BY <1>8
    <3> QED BY <3>1, <3>2
  <2> HIDE DEF p
  <2> QED BY <1>6, <2>1, <2>2, <2>3 DEF FramingInv, TypeOK, writer
<1>11. p.kind = "attach" => data /\ k = 0 /\ Len(sent) = 1
  <2>1. ASSUME p.kind = "attach" PROVE data /\ k + 1 = 1
    BY <1>4, <2>1 DEF FramingInv, Written
  <2>2. ASSUME p.kind = "attach" PROVE reader = "control"
    BY <1>1, <2>1, <2>2 DEF FramingInv, Reading, TypeOK
  <2>3. ASSUME p.kind = "attach" PROVE Len(sent) <= 1
    BY <2>1, <2>2, <2>3 DEF FramingInv, Written
  <2> DEFINE l == Len(sent)
  <2>4. k \in Nat /\ l \in Nat /\ k < l
    BY <1>1, <1>3
  <2> HIDE DEF k, l
  <2>5. ASSUME p.kind = "attach" PROVE data /\ k = 0 /\ l = 1
    <3>1. data /\ k + 1 = 1 /\ l <= 1
      BY <2>1, <2>3, <2>5 DEF l
    <3>2. k = 0 /\ l = 1
      BY <2>4, <3>1
    <3> QED BY <3>1, <3>2
  <2> QED BY <2>5 DEF l
<1>12. Written'
  BY <1>6, <1>11 DEF FramingInv, Written, writer
<1>13. Len(taken') = k + 1 /\ taken' # <<>>
  BY <1>1, <1>4, <1>6
<1>14. ASSUME p.kind = "attach" PROVE Reading'
  <2>1. Drop(b, n + 1) = <<>>
    <3> DEFINE r == Drop(b, n + 1)
    <3>1. r \in Seq(Byte) /\ Contiguous(r, sent) /\ StartsAt(r, k + 1, -1, sent)
      BY <1>2, <1>9, DropParts
    <3>2. k = 0 /\ Len(sent) = 1
      BY <1>11, <1>14
    <3> HIDE DEF r, k
    <3>3. ASSUME r # <<>> PROVE FALSE
      <4>1. 1 \in 1 .. Len(r) /\ r[1].packet = 2
        BY <3>1, <3>2, <3>3 DEF StartsAt
      <4>2. r[1].packet \in 1 .. 1
        BY <3>1, <3>2, <4>1 DEF Contiguous
      <4> QED BY <4>1, <4>2
    <3> QED BY <3>3 DEF r
  <2>2. wire = <<>>
    BY <1>1, <1>8, <2>1, ConcatEqualIffEmpty
  <2>3. Unread' = <<>> /\ mBuff' = <<>> /\ Len(mBuff') = 0
    BY <1>6, <1>14, <2>2 DEF Unread
  <2>4. Contiguous(Unread', sent') /\ StartsAt(Unread', Len(taken'), size', sent')
    BY <1>6, <1>9, <1>13, <2>1, <2>3 DEF writer
  <2>5. Waiting'
    BY <2>3 DEF Waiting, HeaderSize, SizeBytes
  <2> QED BY <1>6, <1>13, <2>4, <2>5 DEF Reading
<1>15. ASSUME p.kind = "more" PROVE Reading'
  <2>1. Unread' = Drop(b, n + 1) /\ sent' = sent
    BY <1>6, <1>8, <1>15 DEF Unread, writer
  <2>2. Contiguous(Unread', sent') /\ StartsAt(Unread', Len(taken'), size', sent')
    BY <1>6, <1>9, <1>13, <2>1
  <2>3. reader' = reader /\ looping' /\ size' # 0 /\ taken' # <<>>
    <3>1. reader' = reader /\ looping'
      BY <1>6, <1>15
    <3>2. size' # 0
      BY <1>6
    <3> QED BY <1>13, <3>1, <3>2
  <2> QED BY <2>2, <2>3 DEF Reading
<1>16. p.kind \in {"attach", "more", "end"}
  BY <1>4 DEF Packet
<1>17. (looping' => over' = "no") /\ (over' = "no" => Reading')
  BY <1>6, <1>14, <1>15, <1>16
<1> QED BY <1>7, <1>10, <1>12, <1>17 DEF FramingInv

(***************************************************************************)
(* A turn of a loop takes the size out of the buffer, or ends the loop:    *)
(* the unread bytes are what they were but for a size.                     *)
(***************************************************************************)
LEMMA TurnKeeps ==
  ASSUME FramingInv, over = "no", mBuff' \in Seq(Byte), size' \in Sizes \cup {-1},
         looping' \in BOOLEAN,
         Contiguous(mBuff' \o wire, sent), StartsAt(mBuff' \o wire, Len(taken), size', sent),
         reader = "control" => size' # 0, ~looping' => Waiting',
         UNCHANGED <<writer, wire, limit, reader, taken, over>>
  PROVE  FramingInv'
<1>1. TypeOK'
  BY DEF FramingInv, TypeOK, writer
<1>2. Written'
  BY DEF FramingInv, Written, writer
<1>3. Reading'
  BY DEF FramingInv, Reading, Unread, writer
<1> QED BY <1>1, <1>2, <1>3 DEF FramingInv

\* what the size at the head of the buffer is, and that a type follows it
LEMMA SizeFound ==
  ASSUME FramingInv, over = "no", size < 0, Len(mBuff) >= HeaderSize
  PROVE  LET p == sent[Len(taken) + 1]
             rest == Drop(mBuff, SizeBytes)
         IN  /\ Len(taken) + 1 \in 1 .. Len(sent) /\ SizeIn(mBuff) = p.size
             /\ rest \in Seq(Byte) /\ rest # <<>> /\ Len(rest) = Len(mBuff) - SizeBytes
             /\ rest[1] = [packet |-> Len(taken) + 1, at |-> HeaderSize]
             /\ Contiguous(rest \o wire, sent)
             /\ StartsAt(rest \o wire, Len(taken), p.size, sent)
<1> DEFINE k == Len(taken)
           z == sent[k + 1].size
           rest == Drop(mBuff, SizeBytes)
<1>1. /\ sent \in Seq(Packet) /\ k \in Nat /\ mBuff \in Seq(Byte) /\ wire \in Seq(Byte)
      /\ Unread \in Seq(Byte) /\ Len(Unread) = Len(mBuff) + Len(wire)
      /\ \A i \in 1 .. Len(mBuff) : Unread[i] = mBuff[i]
      /\ Contiguous(Unread, sent) /\ StartsAt(Unread, k, size, sent)
      /\ size = -1
  BY ReaderParts, FramingAssumption DEF FramingAssumption
<1>2. Unread # <<>> /\ Len(mBuff) >= 5
  BY <1>1 DEF HeaderSize, SizeBytes
<1> HIDE DEF k
<1>3. /\ k + 1 \in 1 .. Len(sent) /\ z \in Nat
      /\ HeaderSize + z \in 1 .. Len(Unread)
      /\ \A j \in 1 .. HeaderSize + z : Unread[j] = [packet |-> k + 1, at |-> j]
  BY <1>1, <1>2, FirstSized
<1>4. \A j \in 1 .. HeaderSize : mBuff[j] = [packet |-> k + 1, at |-> j]
  <2>1. \A j \in 1 .. HeaderSize : j \in 1 .. HeaderSize + z /\ j \in 1 .. Len(mBuff)
    <3> HIDE DEF z
    <3> QED BY <1>1, <1>2, <1>3 DEF HeaderSize, SizeBytes
  <2> QED BY <1>1, <1>3, <2>1
<1>5. SizeIn(mBuff) = z
  <2>1. 1 \in 1 .. HeaderSize /\ \A i \in 1 .. SizeBytes : i \in 1 .. HeaderSize
    BY DEF HeaderSize, SizeBytes
  <2>2. mBuff[1].packet = k + 1 /\ k + 1 \in DOMAIN sent
    <3>1. mBuff[1] = [packet |-> k + 1, at |-> 1]
      BY <1>4, <2>1
    <3>2. DOMAIN sent = 1 .. Len(sent)
      BY <1>1
    <3> QED BY <1>3, <3>1, <3>2
  <2>3. \A i \in 1 .. SizeBytes : mBuff[i] = [packet |-> mBuff[1].packet, at |-> i]
    BY <1>4, <2>1, <2>2
  <2> QED BY <2>2, <2>3 DEF SizeIn
<1>6. /\ SizeBytes \in 0 .. Len(mBuff)
      /\ 1 \in 1 .. Len(mBuff) - SizeBytes /\ 1 + SizeBytes = HeaderSize /\ HeaderSize \in 1 .. HeaderSize
  BY <1>1, <1>2 DEF HeaderSize, SizeBytes
<1>7. /\ rest \in Seq(Byte) /\ Len(rest) = Len(mBuff) - SizeBytes
      /\ rest[1] = mBuff[HeaderSize]
  BY <1>1, <1>6, DropParts
<1>8. rest # <<>> /\ rest[1] = [packet |-> k + 1, at |-> HeaderSize]
  BY <1>4, <1>6, <1>7
<1>9. rest \o wire = Drop(Unread, SizeBytes)
  BY <1>1, <1>6, DropOfConcat DEF Unread
<1>10. Contiguous(Drop(Unread, SizeBytes), sent) /\ StartsAt(Drop(Unread, SizeBytes), k, z, sent)
  BY <1>1, <1>2, DropSize
<1> QED BY <1>3, <1>5, <1>7, <1>8, <1>9, <1>10 DEF k

\* a size that was found before is that of the packet that follows
LEMMA SizeKept ==
  ASSUME FramingInv, over = "no", size >= 0
  PROVE  /\ Len(taken) + 1 \in 1 .. Len(sent) /\ size = sent[Len(taken) + 1].size /\ size \in Nat
         /\ Unread # <<>> /\ Unread[1] = [packet |-> Len(taken) + 1, at |-> HeaderSize]
<1>1. /\ Len(taken) \in Nat /\ Len(sent) \in Nat /\ size \in Int
      /\ StartsAt(Unread, Len(taken), size, sent)
  BY ReaderParts
<1>2. /\ Len(taken) < Len(sent) /\ size = sent[Len(taken) + 1].size
      /\ Unread # <<>> /\ Unread[1] = [packet |-> Len(taken) + 1, at |-> HeaderSize]
  BY <1>1 DEF StartsAt
<1> QED BY <1>1, <1>2

\* nothing off the mark is ever at the head of the buffer
LEMMA ControlReads ==
  ASSUME FramingInv, ConsumeNextPacket
  PROVE  FramingInv' /\ [Stream!Next]_(Stream!vars)
<1> DEFINE n == IF size < 0 THEN SizeIn(mBuff) ELSE size
           rest == IF size < 0 THEN Drop(mBuff, SizeBytes) ELSE mBuff
           k == Len(taken)
           p == sent[k + 1]
<1>1. looping /\ over = "no" /\ reader = "control" /\ Len(mBuff) >= HeaderSize
      /\ UNCHANGED <<writer, wire, limit>>
  BY DEF ConsumeNextPacket, FramingInv
<1>2. /\ k + 1 \in 1 .. Len(sent) /\ n = p.size
      /\ rest \in Seq(Byte) /\ Len(rest) >= 1
      /\ rest[1] = [packet |-> k + 1, at |-> HeaderSize]
      /\ Contiguous(rest \o wire, sent) /\ StartsAt(rest \o wire, k, n, sent)
  <2>1. CASE size < 0
    <3>1. Len(mBuff) - SizeBytes >= 1
      <4>1. Len(mBuff) \in Nat BY <1>1, ReaderParts
      <4> QED BY <1>1, <4>1 DEF HeaderSize, SizeBytes
    <3> QED BY <1>1, <2>1, <3>1, SizeFound
  <2>2. CASE ~(size < 0)
    <3>1. size >= 0
      BY <1>1, <2>2, ReaderParts
    <3>2. /\ mBuff \in Seq(Byte) /\ Len(mBuff) \in Nat
          /\ \A i \in 1 .. Len(mBuff) : Unread[i] = mBuff[i]
          /\ Contiguous(mBuff \o wire, sent) /\ StartsAt(mBuff \o wire, k, size, sent)
      BY <1>1, ReaderParts DEF Unread
    <3>3. Len(mBuff) >= 1 /\ 1 \in 1 .. Len(mBuff)
      BY <1>1, <3>2 DEF HeaderSize, SizeBytes
    <3>4. k + 1 \in 1 .. Len(sent) /\ size = p.size
          /\ Unread[1] = [packet |-> k + 1, at |-> HeaderSize]
      BY <1>1, <3>1, SizeKept
    <3> QED BY <2>2, <3>2, <3>3, <3>4
  <2> QED BY <2>1, <2>2
<1>3. n \in Nat /\ n \in Sizes
  BY <1>1, <1>2, ReaderParts, PacketParts
<1>4. ValidType(rest)
  <2>1. DOMAIN sent = 1 .. Len(sent)
    BY <1>1, ReaderParts
  <2>2. rest[1].packet = k + 1 /\ rest[1].at = HeaderSize
    BY <1>2
  <2> HIDE DEF rest, k
  <2> QED BY <1>2, <2>1, <2>2 DEF ValidType
<1>5. \/ TooLarge(n) /\ FailReader("refused")
      \/ /\ ~(Len(rest) >= n + 1)
         /\ mBuff' = rest /\ size' = n /\ looping' = FALSE
         /\ UNCHANGED <<reader, taken, over>>
      \/ Len(rest) >= n + 1 /\ Take(rest, n)
  <2> HIDE DEF k, p
  <2> QED BY <1>4 DEF ConsumeNextPacket
<1> HIDE DEF n, rest
<1>6. CASE TooLarge(n) /\ FailReader("refused")
  <2>1. FramingInv'
    BY <1>1, <1>6, FailKeeps
  <2>2. n > limit
    BY <1>3, <1>6 DEF TooLarge
  <2>3. k < Len(sent)
    <3>1. k \in Nat /\ Len(sent) \in Nat BY <1>1, ReaderParts
    <3> HIDE DEF k
    <3> QED BY <1>2, <3>1
  <2>4. Stream!Refuse
    BY <1>1, <1>2, <1>6, <2>2, <2>3
       DEF Stream!Refuse, Stream!Waits, Stream!Following, FailReader, writer
  <2> QED BY <2>1, <2>4 DEF Stream!Next
<1>7. CASE /\ ~(Len(rest) >= n + 1)
           /\ mBuff' = rest /\ size' = n /\ looping' = FALSE
           /\ UNCHANGED <<reader, taken, over>>
  <2>1. Len(mBuff') <= size' /\ size' >= 0 /\ size' # 0
    <3>1. Len(rest) \in Nat BY <1>2
    <3> QED BY <1>2, <1>3, <1>7, <3>1
  <2>2. FramingInv'
    BY <1>1, <1>2, <1>3, <1>7, <2>1, TurnKeeps DEF Waiting
  <2>3. UNCHANGED Stream!vars
    BY <1>1, <1>7 DEF Stream!vars, writer
  <2> QED BY <2>2, <2>3
<1>8. CASE Len(rest) >= n + 1 /\ Take(rest, n)
  BY <1>1, <1>2, <1>3, <1>8, TakeKeeps DEF Stream!Next
<1> QED BY <1>5, <1>6, <1>7, <1>8

LEMMA StripesRead ==
  ASSUME FramingInv, ReadStripedPacket
  PROVE  FramingInv' /\ [Stream!Next]_(Stream!vars)
<1> DEFINE k == Len(taken)
           p == sent[k + 1]
<1>1. looping /\ over = "no" /\ reader = "data" /\ Len(mBuff) >= HeaderSize
      /\ UNCHANGED <<writer, wire, limit>>
  BY DEF ReadStripedPacket, FramingInv
<1>2. /\ sent \in Seq(Packet) /\ k \in Nat /\ size \in Int /\ size \in Sizes \cup {-1}
      /\ mBuff \in Seq(Byte) /\ Len(mBuff) \in Nat
      /\ Contiguous(mBuff \o wire, sent) /\ StartsAt(mBuff \o wire, k, size, sent)
  BY <1>1, ReaderParts DEF Unread
<1>3. CASE size < 0
  <2>1. /\ k + 1 \in 1 .. Len(sent) /\ SizeIn(mBuff) = p.size /\ p.size \in Nat /\ p.size \in Sizes
        /\ Drop(mBuff, SizeBytes) \in Seq(Byte)
        /\ Contiguous(Drop(mBuff, SizeBytes) \o wire, sent)
        /\ StartsAt(Drop(mBuff, SizeBytes) \o wire, k, p.size, sent)
    BY <1>1, <1>2, <1>3, SizeFound, PacketParts
  <2>2. CASE TooLarge(SizeIn(mBuff)) /\ FailReader("refused")
    <3>1. FramingInv'
      BY <1>1, <2>2, FailKeeps
    <3>2. p.size > limit
      BY <2>1, <2>2 DEF TooLarge
    <3>3. k < Len(sent)
      <4>1. Len(sent) \in Nat BY <1>2
      <4> HIDE DEF k
      <4> QED BY <1>2, <2>1, <4>1
    <3>4. Stream!Refuse
      BY <1>1, <2>2, <3>2, <3>3
         DEF Stream!Refuse, Stream!Waits, Stream!Following, FailReader, writer
    <3> QED BY <3>1, <3>4 DEF Stream!Next
  <2>3. CASE /\ size' = SizeIn(mBuff) /\ mBuff' = Drop(mBuff, SizeBytes)
             /\ UNCHANGED <<reader, looping, taken, over>>
    <3>1. size' = p.size /\ reader # "control" /\ looping'
      BY <1>1, <2>1, <2>3
    <3> HIDE DEF p, k
    <3>2. FramingInv'
      BY <1>1, <2>1, <2>3, <3>1, TurnKeeps DEF k
    <3>3. UNCHANGED Stream!vars
      BY <1>1, <2>3 DEF Stream!vars, writer
    <3> QED BY <3>2, <3>3
  <2>4. ~(size >= 0)
    BY <1>2, <1>3
  <2>5. \/ TooLarge(SizeIn(mBuff)) /\ FailReader("refused")
        \/ /\ size' = SizeIn(mBuff) /\ mBuff' = Drop(mBuff, SizeBytes)
           /\ UNCHANGED <<reader, looping, taken, over>>
    BY <2>4 DEF ReadStripedPacket
  <2> QED BY <2>2, <2>3, <2>5
<1>4. CASE size >= 0
  <2>1. CASE Len(mBuff) < size + 1 /\ looping' = FALSE /\ UNCHANGED <<reader, buffer, taken, over>>
    <3>1. mBuff' = mBuff /\ size' = size /\ Len(mBuff') <= size'
      BY <1>2, <2>1 DEF buffer
    <3>2. FramingInv'
      BY <1>1, <1>2, <1>4, <2>1, <3>1, TurnKeeps DEF Waiting
    <3>3. UNCHANGED Stream!vars
      BY <1>1, <2>1 DEF Stream!vars, writer
    <3> QED BY <3>2, <3>3
  <2>2. CASE Len(mBuff) >= size + 1 /\ Take(mBuff, size)
    <3>1. size \in Nat
      BY <1>2, <1>4
    <3> QED BY <1>1, <1>2, <2>2, <3>1, TakeKeeps DEF Stream!Next
  <2>3. ~(size < 0)
    BY <1>2, <1>4
  <2>4. \/ Len(mBuff) < size + 1 /\ looping' = FALSE /\ UNCHANGED <<reader, buffer, taken, over>>
        \/ Len(mBuff) >= size + 1 /\ Take(mBuff, size)
    BY <2>3 DEF ReadStripedPacket
  <2> QED BY <2>1, <2>2, <2>4
<1> QED BY <1>2, <1>3, <1>4

-----------------------------------------------------------------------------
(***************************************************************************)
(* The other steps.                                                        *)
(***************************************************************************)

LEMMA WriteKeeps ==
  ASSUME FramingInv, WritePacket
  PROVE  FramingInv' /\ Stream!Send
<1>1. PICK p \in Packet : /\ MayWrite(p)
                          /\ sent' = Append(sent, p)
                          /\ wire' = wire \o Bytes(Len(sent) + 1, p)
  BY DEF WritePacket
<1> DEFINE w == Bytes(Len(sent) + 1, p)
           l == Len(sent)
<1>2. /\ sent \in Seq(Packet) /\ l \in Nat /\ l < MaxPackets
      /\ mBuff \in Seq(Byte) /\ wire \in Seq(Byte) /\ taken \in Seq(Packet)
  BY DEF FramingInv, TypeOK, WritePacket
<1>3. UNCHANGED <<data, retries, reader, mBuff, size, looping, taken, over, limit>>
  BY DEF WritePacket, buffer
<1>4. w \in Seq(Byte)
  <2>1. p.size \in Sizes /\ Max(Sizes) \in Sizes /\ p.size <= Max(Sizes)
    <3>1. p.size \in Sizes BY DEF Packet
    <3> QED BY <3>1, FramingAssumption DEF Max, FramingAssumption
  <2> DEFINE z == p.size
             m == Max(Sizes)
  <2>2. z \in Nat /\ m \in Nat /\ z <= m
    BY <2>1, FramingAssumption DEF FramingAssumption
  <2> HIDE DEF z, m, l
  <2>3. l + 1 \in 1 .. MaxPackets /\ \A i \in 1 .. HeaderSize + z : i \in 1 .. HeaderSize + m
    BY <1>2, <2>2, FramingAssumption DEF FramingAssumption, HeaderSize, SizeBytes
  <2>4. \A i \in 1 .. HeaderSize + z : [packet |-> l + 1, at |-> i] \in Byte
    BY <2>3 DEF Byte, m
  <2>5. HeaderSize + z \in Nat
    BY <2>2 DEF HeaderSize, SizeBytes
  <2>6. [i \in 1 .. HeaderSize + z |-> [packet |-> l + 1, at |-> i]] \in Seq(Byte)
    BY <2>4, <2>5
  <2> QED BY <2>6 DEF Bytes, z, l
<1>5. sent' \in Seq(Packet) /\ Len(sent') = l + 1 /\ sent'[l + 1] = p
      /\ \A i \in 1 .. l : sent'[i] = sent[i]
  BY <1>1, <1>2
<1>6. wire' \in Seq(Byte)
  BY <1>1, <1>2, <1>4, ConcatParts
<1>7. TypeOK'
  BY <1>3, <1>5, <1>6 DEF FramingInv, TypeOK
<1>8. Written'
  <2>1. ASSUME NEW i \in DOMAIN sent'
        PROVE  IF data THEN /\ sent'[i].size > SizeBytes
                            /\ sent'[i].kind = IF i = 1 THEN "attach" ELSE "more"
               ELSE sent'[i].kind # "attach"
    <3>1. CASE i \in 1 .. l
      BY <1>2, <1>5, <3>1 DEF FramingInv, Written
    <3>2. CASE i = l + 1
      <4>1. sent = <<>> <=> i = 1
        BY <1>2, <3>2
      <4> QED BY <1>1, <1>5, <3>2, <4>1 DEF MayWrite
    <3> QED BY <1>2, <1>5, <3>1, <3>2
  <2>2. data /\ reader = "control" => l + 1 <= 1
    BY <1>1, <1>2 DEF MayWrite
  <2> QED BY <1>3, <1>5, <2>1, <2>2 DEF FramingInv, Written
<1>9. ASSUME over = "no" PROVE Reading'
  <2>1. /\ Contiguous(Unread, sent) /\ StartsAt(Unread, Len(taken), size, sent)
        /\ Unread \in Seq(Byte) /\ Len(taken) \in Nat /\ size \in Int
    BY <1>9, ReaderParts
  <2>2. Unread' = Unread \o w
    <3>1. Unread' = mBuff \o (wire \o w)
      BY <1>1, <1>3 DEF Unread
    <3> HIDE DEF w
    <3>2. (mBuff \o wire) \o w = mBuff \o (wire \o w)
      BY <1>2, <1>4, ConcatAssociative
    <3> QED BY <3>1, <3>2 DEF Unread
  <2> HIDE DEF w
  <2>3. /\ Contiguous(Unread \o w, Append(sent, p))
        /\ StartsAt(Unread \o w, Len(taken), size, Append(sent, p))
    BY <1>2, <1>4, <2>1, WriteContiguous DEF w
  <2> QED BY <1>1, <1>3, <1>9, <2>2, <2>3 DEF FramingInv, Reading, Waiting
<1>10. Stream!Send
  BY <1>1, <1>3 DEF Stream!Send
<1> QED BY <1>3, <1>7, <1>8, <1>9, <1>10 DEF FramingInv

LEMMA ReadyReadKeeps ==
  ASSUME FramingInv, ReadyRead
  PROVE  FramingInv' /\ UNCHANGED Stream!vars
<1>1. PICK n \in 1 .. Len(wire) : mBuff' = mBuff \o SubSeq(wire, 1, n) /\ wire' = Drop(wire, n)
  BY DEF ReadyRead
<1>2. /\ UNCHANGED <<data, sent, retries, reader, size, taken, over, limit>>
      /\ looping' = TRUE /\ over = "no"
  BY DEF ReadyRead, writer
<1>3. mBuff \in Seq(Byte) /\ wire \in Seq(Byte) /\ n \in 0 .. Len(wire)
  BY DEF FramingInv, TypeOK
<1>4. SubSeq(wire, 1, n) \in Seq(Byte) /\ Drop(wire, n) \in Seq(Byte)
  BY <1>3, TakeParts, DropParts
<1>5. mBuff' \in Seq(Byte) /\ wire' \in Seq(Byte)
  BY <1>1, <1>3, <1>4, ConcatParts
<1>6. Unread' = Unread
  BY <1>1, <1>3, Arrival DEF Unread
<1>7. TypeOK'
  BY <1>2, <1>5 DEF FramingInv, TypeOK
<1>8. Written' /\ Reading'
  BY <1>2, <1>6 DEF FramingInv, Written, Reading
<1> QED BY <1>2, <1>7, <1>8 DEF FramingInv, Stream!vars

LEMMA NothingToReadKeeps ==
  ASSUME FramingInv, NothingToRead
  PROVE  FramingInv' /\ UNCHANGED Stream!vars
<1>1. /\ UNCHANGED <<data, sent, retries, wire, reader, mBuff, size, taken, over, limit>>
      /\ looping' = FALSE /\ Len(mBuff) < HeaderSize
  BY DEF NothingToRead, writer, buffer
<1> QED BY <1>1 DEF FramingInv, TypeOK, Written, Reading, Waiting, Unread, Stream!vars

\* a reader that is not in its loop may lose its connection
LEMMA RetryKeeps ==
  ASSUME FramingInv, RetryConnect
  PROVE  FramingInv' /\ Stream!Reconnect
<1>1. /\ sent' = <<>> /\ wire' = <<>> /\ taken' = <<>> /\ mBuff' = <<>> /\ size' = -1
      /\ retries' = retries + 1 /\ retries < MaxRetries /\ ~data /\ ~looping /\ over = "no"
      /\ UNCHANGED <<data, reader, looping, over, limit>>
  BY DEF RetryConnect
<1>2. TypeOK'
  <2>1. /\ sent' \in Seq(Packet) /\ taken' \in Seq(Packet)
        /\ wire' \in Seq(Byte) /\ mBuff' \in Seq(Byte)
    BY <1>1
  <2>2. retries' \in 0 .. MaxRetries
    BY <1>1, FramingAssumption DEF FramingInv, TypeOK, FramingAssumption
  <2> QED BY <1>1, <2>1, <2>2 DEF FramingInv, TypeOK
<1>3. Unread' = <<>> /\ Len(Unread') = 0 /\ Len(taken') = Len(sent')
  BY <1>1 DEF Unread
<1>4. Contiguous(Unread', sent')
  BY <1>3 DEF Contiguous
<1>5. StartsAt(Unread', Len(taken'), size', sent')
  BY <1>1, <1>3 DEF StartsAt
<1>6. Waiting'
  BY <1>1 DEF Waiting, HeaderSize, SizeBytes
<1>7. reader' = "control" /\ Written'
  BY <1>1 DEF FramingInv, Written, TypeOK
<1>8. Stream!Reconnect
  BY <1>1 DEF Stream!Reconnect
<1> QED BY <1>1, <1>2, <1>4, <1>5, <1>6, <1>7, <1>8 DEF FramingInv, Reading

LEMMA NextFraming ==
  ASSUME FramingInv, [Next]_vars
  PROVE  FramingInv' /\ [Stream!Next]_(Stream!vars)
<1>1. CASE WritePacket
  BY <1>1, WriteKeeps DEF Stream!Next
<1>2. CASE ReadyRead
  BY <1>2, ReadyReadKeeps
<1>3. CASE NothingToRead
  BY <1>3, NothingToReadKeeps
<1>4. CASE ConsumeNextPacket
  BY <1>4, ControlReads
<1>5. CASE ReadStripedPacket
  BY <1>5, StripesRead
<1>6. CASE StopReading
  <2>1. FramingInv'
    BY <1>6, FailKeeps DEF StopReading
  <2>2. Stream!Stop
    BY <1>6 DEF StopReading, FailReader, writer, Stream!Stop
  <2> QED BY <2>1, <2>2 DEF Stream!Next
<1>7. CASE RetryConnect
  BY <1>7, RetryKeeps DEF Stream!Next
<1>8. CASE SetMaxPacketSize
  <2>1. /\ UNCHANGED <<data, sent, retries, wire, reader, mBuff, size, looping, taken, over>>
        /\ limit' \in Limits
    BY <1>8 DEF SetMaxPacketSize, writer, buffer
  <2>2. FramingInv'
    BY <2>1 DEF FramingInv, TypeOK, Written, Reading, Waiting, Unread
  <2>3. Stream!SetLimit
    BY <2>1, FramingAssumption DEF Stream!SetLimit, FramingAssumption
  <2> QED BY <2>2, <2>3 DEF Stream!Next
<1>9. CASE UNCHANGED vars
  <2>1. UNCHANGED <<data, sent, wire, reader, mBuff, size, looping, taken, over, limit, retries>>
    BY <1>9 DEF vars
  <2> QED BY <2>1 DEF FramingInv, TypeOK, Written, Reading, Waiting, Unread, Stream!vars
<1> QED BY <1>1, <1>2, <1>3, <1>4, <1>5, <1>6, <1>7, <1>8, <1>9 DEF Next

-----------------------------------------------------------------------------
(***************************************************************************)
(* Theorems.                                                               *)
(***************************************************************************)

\* what waits when everything has been read is shorter than a header
LEMMA TinyWaits ==
  ASSUME FramingInv
  PROVE  OnlyATinyPacketWaits
<1> SUFFICES ASSUME over = "no", ~looping, wire = <<>>
             PROVE  \/ Len(taken) = Len(sent)
                    \/ /\ reader = "control" /\ Len(taken) + 1 = Len(sent)
                       /\ sent[Len(sent)].size + 1 \in 2 .. SizeBytes
  BY DEF OnlyATinyPacketWaits
<1> DEFINE k == Len(taken)
           l == Len(mBuff)
<1>1. /\ sent \in Seq(Packet) /\ k \in Nat /\ mBuff \in Seq(Byte) /\ l \in Nat
      /\ Len(sent) \in Nat /\ size \in Int /\ size \in Sizes \cup {-1}
      /\ Contiguous(Unread, sent) /\ StartsAt(Unread, k, size, sent)
  BY ReaderParts
<1>2. Unread = mBuff
  BY <1>1, ConcatEmptySeq DEF Unread
<1>3. Waiting /\ (reader = "control" => size # 0)
  BY DEF FramingInv, Reading
<1>4. CASE mBuff = <<>>
  BY <1>1, <1>2, <1>4 DEF StartsAt
<1>5. ASSUME mBuff # <<>>, size < 0 PROVE FALSE
  <2>1. size = -1
    BY <1>1, <1>5, FramingAssumption DEF FramingAssumption
  <2> DEFINE z == sent[k + 1].size
  <2>2. z \in Nat /\ HeaderSize + z \in 1 .. l
    BY <1>1, <1>2, <1>5, <2>1, FirstSized
  <2>3. l < HeaderSize
    <3>1. ~(size >= 0)
      BY <1>1, <1>5
    <3> QED BY <1>3, <3>1 DEF Waiting
  <2> HIDE DEF z, l
  <2> QED BY <1>1, <2>2, <2>3 DEF HeaderSize, SizeBytes
<1>6. CASE size >= 0
  <2> DEFINE d == Drop(mBuff, size + 1)
  <2>1. k + 1 \in 1 .. Len(sent) /\ size = sent[k + 1].size /\ size \in Nat
    BY <1>6, SizeKept
  <2>2. /\ size + 1 \in 0 .. l
        /\ Contiguous(d, sent) /\ StartsAt(d, k + 1, -1, sent)
    BY <1>1, <1>2, <2>1, DropPacket
  <2>3. d \in Seq(Byte) /\ Len(d) = l - (size + 1) /\ k + 1 \in Nat
    <3> DEFINE n == size + 1
    <3>1. n \in 0 .. Len(mBuff)
      BY <2>2
    <3> HIDE DEF n
    <3>2. Drop(mBuff, n) \in Seq(Byte) /\ Len(Drop(mBuff, n)) = Len(mBuff) - n
      BY <1>1, <3>1, DropParts
    <3>3. k + 1 \in Nat
      BY <1>1
    <3> QED BY <3>2, <3>3 DEF n
  <2>4. l < HeaderSize
    <3> HIDE DEF l
    <3> QED BY <1>1, <1>3, <2>1, <2>2 DEF Waiting, l
  <2> HIDE DEF d
  <2>5. ASSUME d # <<>> PROVE FALSE
    <3> DEFINE z == sent[k + 1 + 1].size
    <3>1. z \in Nat /\ HeaderSize + z \in 1 .. Len(d)
      BY <1>1, <2>2, <2>3, <2>5, FirstSized
    <3> HIDE DEF z, l
    <3> QED BY <1>1, <2>1, <2>3, <2>4, <3>1 DEF HeaderSize, SizeBytes
  <2>6. k + 1 = Len(sent)
    BY <2>2, <2>5 DEF StartsAt
  <2>7. size + 1 <= SizeBytes
    <3> HIDE DEF l
    <3> QED BY <1>1, <2>1, <2>2, <2>4 DEF HeaderSize, SizeBytes
  <2>8. reader = "control"
    <3>1. ASSUME reader = "data" PROVE FALSE
      <4>1. DOMAIN sent = 1 .. Len(sent)
        BY <1>1
      <4>2. size > SizeBytes
        BY <2>1, <3>1, <4>1 DEF FramingInv, Written
      <4> QED BY <2>1, <2>7, <4>2 DEF SizeBytes
    <3> QED BY <3>1 DEF FramingInv, TypeOK
  <2>9. size + 1 \in 2 .. SizeBytes
    BY <1>3, <2>1, <2>7, <2>8 DEF SizeBytes
  <2> QED BY <2>1, <2>6, <2>8, <2>9
<1> QED BY <1>1, <1>4, <1>5, <1>6

\* the inductive invariant holds
THEOREM FramingIsSound == Spec => []FramingInv
<1>1. FramingInv /\ [Next]_vars => FramingInv'
  BY NextFraming
<1> QED BY <1>1, InitFraming, PTL DEF Spec

(***************************************************************************)
(* Every variable keeps its type, whatever sizes packets have and however  *)
(* their bytes arrive.                                                     *)
(***************************************************************************)
THEOREM FramingTypes == Spec => []TypeOK
<1>1. FramingInv => TypeOK
  BY DEF FramingInv
<1> QED BY <1>1, FramingIsSound, PTL

(***************************************************************************)
(* The loops of onReadyRead() and processStripedSocketReadyRead() leave no *)
(* packet that has arrived in the buffer but a last one of two to four     *)
(* bytes with its type (transfer.cpp:152).                                 *)
(***************************************************************************)
THEOREM OnlyTheTinyWait == Spec => []OnlyATinyPacketWaits
<1>1. FramingInv => OnlyATinyPacketWaits
  BY TinyWaits
<1> QED BY <1>1, FramingIsSound, PTL

LEMMA InitStream == Init => Stream!Init
  BY FramingAssumption DEF Init, Stream!Init, FramingAssumption

(***************************************************************************)
(* The reader implements PacketStream, but for its fairness: what the      *)
(* handlers see is what was written, in order, whole and once, and nothing *)
(* is refused but what is larger than MaxPacketSize.                       *)
(***************************************************************************)
THEOREM TheStreamIsKept == Spec => Stream!Init /\ [][Stream!Next]_(Stream!vars)
<1>1. FramingInv /\ [Next]_vars => [Stream!Next]_(Stream!vars)
  BY NextFraming
<1> QED BY <1>1, InitStream, FramingIsSound, PTL DEF Spec
=============================================================================
