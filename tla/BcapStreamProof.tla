--------------------------- MODULE BcapStreamProof ---------------------------
(***************************************************************************)
(* TypeOK, OthersIntact and ImplementsChannel of BcapStream, for any       *)
(* bodies, noise and check sum and any number of packets.                  *)
(***************************************************************************)
EXTENDS BcapStream, FiniteSetTheorems, SequenceTheorems, TLAPS

(***************************************************************************)
(* Sequences of bytes.  The facts about a sequence that is put together    *)
(* from others are cited as they stand, for the sequence as a whole.       *)
(***************************************************************************)

LEMMA Same ==
  ASSUME NEW s \in Seq(Nat), NEW t \in Seq(Nat),
         Len(s) = Len(t), \A i \in 1..Len(s) : s[i] = t[i]
  PROVE  s = t
  BY SeqEqual

LEMMA Concat ==
  ASSUME NEW s \in Seq(Nat), NEW t \in Seq(Nat)
  PROVE  /\ s \o t \in Seq(Nat)
         /\ Len(s) \in Nat /\ Len(t) \in Nat /\ Len(s \o t) = Len(s) + Len(t)
         /\ \A i \in 1..Len(s) : (s \o t)[i] = s[i]
         /\ \A i \in 1..Len(t) : (s \o t)[Len(s) + i] = t[i]
  OBVIOUS

Keep(s, n) == SubSeq(s, 1, n)
Drop(s, n) == SubSeq(s, n + 1, Len(s))

LEMMA Kept ==
  ASSUME NEW s \in Seq(Nat), NEW n \in 0..Len(s)
  PROVE  /\ Keep(s, n) \in Seq(Nat)
         /\ Len(s) \in Nat /\ n \in Nat /\ Len(Keep(s, n)) = n
         /\ \A i \in 1..n : Keep(s, n)[i] = s[i]
  BY DEF Keep

LEMMA Dropped ==
  ASSUME NEW s \in Seq(Nat), NEW n \in 0..Len(s)
  PROVE  /\ Drop(s, n) \in Seq(Nat)
         /\ Len(s) \in Nat /\ n \in Nat /\ Len(Drop(s, n)) = Len(s) - n
         /\ \A i \in 1..Len(s) - n : Drop(s, n)[i] = s[n + i]
  BY DEF Drop

\* A sequence is what is taken of it and the rest.
LEMMA Parted ==
  ASSUME NEW s \in Seq(Nat), NEW n \in 0..Len(s)
  PROVE  Keep(s, n) \o Drop(s, n) = s
<1> DEFINE a == Keep(s, n)
           b == Drop(s, n)
           c == a \o b
<1>1. /\ a \in Seq(Nat) /\ Len(s) \in Nat /\ n \in Nat /\ Len(a) = n
      /\ \A i \in 1..n : a[i] = s[i]
  BY Kept, Zenon
<1>2. b \in Seq(Nat) /\ Len(b) = Len(s) - n /\ \A i \in 1..Len(s) - n : b[i] = s[n + i]
  BY Dropped, Zenon
<1> HIDE DEF a, b
<1>3. /\ c \in Seq(Nat) /\ Len(c) = Len(a) + Len(b)
      /\ \A i \in 1..Len(a) : c[i] = a[i]
      /\ \A i \in 1..Len(b) : c[Len(a) + i] = b[i]
  BY <1>1, <1>2, Concat, Zenon
<1> HIDE DEF c
<1>4. ASSUME NEW i \in 1..Len(s) PROVE c[i] = s[i]
  <2>1. CASE i \in 1..n
    BY <2>1, <1>1, <1>3
  <2>2. CASE i \notin 1..n
    <3>1. PICK j \in 1..Len(s) - n : i = n + j
      <4>1. i - n \in 1..Len(s) - n /\ i = n + (i - n)
        BY <2>2, <1>1
      <4> QED
        BY <4>1
    <3> QED
      BY <3>1, <1>1, <1>2, <1>3
  <2> QED
    BY <2>1, <2>2
<1>5. c = s
  <2>1. Len(c) = Len(s)
    BY <1>1, <1>2, <1>3
  <2> QED
    BY <2>1, <1>3, <1>4, Same
<1> QED
  BY <1>5 DEF a, b, c

\* What is dropped of two sequences, when it lies in the first.
LEMMA DropFront ==
  ASSUME NEW s \in Seq(Nat), NEW t \in Seq(Nat), NEW n \in 0..Len(s)
  PROVE  Drop(s \o t, n) = Drop(s, n) \o t
<1> DEFINE st == s \o t
           a == Drop(st, n)
           b == Drop(s, n)
           c == b \o t
<1>1. /\ st \in Seq(Nat)
      /\ Len(s) \in Nat /\ Len(t) \in Nat /\ Len(st) = Len(s) + Len(t)
      /\ \A i \in 1..Len(s) : st[i] = s[i]
      /\ \A i \in 1..Len(t) : st[Len(s) + i] = t[i]
  BY Concat, Zenon
<1> HIDE DEF st
<1>2. n \in 0..Len(st) /\ n \in Nat /\ n <= Len(s)
  BY <1>1
<1>3. a \in Seq(Nat) /\ Len(a) = Len(st) - n /\ \A i \in 1..Len(st) - n : a[i] = st[n + i]
  BY <1>1, <1>2, Dropped, Zenon
<1>4. b \in Seq(Nat) /\ Len(b) = Len(s) - n /\ \A i \in 1..Len(s) - n : b[i] = s[n + i]
  BY Dropped, Zenon
<1> HIDE DEF a, b
<1>5. /\ c \in Seq(Nat) /\ Len(c) = Len(b) + Len(t)
      /\ \A i \in 1..Len(b) : c[i] = b[i]
      /\ \A i \in 1..Len(t) : c[Len(b) + i] = t[i]
  BY <1>4, Concat, Zenon
<1> HIDE DEF c
<1>6. ASSUME NEW i \in 1..Len(a) PROVE a[i] = c[i]
  <2>1. a[i] = st[n + i]
    BY <1>3
  <2>2. CASE i \in 1..Len(s) - n
    <3>1. n + i \in 1..Len(s) /\ i \in 1..Len(b)
      <4>1. n \in Nat /\ Len(s) \in Nat /\ Len(b) = Len(s) - n
        BY <1>1, <1>2, <1>4
      <4> QED
        BY <4>1, <2>2
    <3>2. st[n + i] = s[n + i] /\ c[i] = b[i]
      BY <3>1, <1>1, <1>5
    <3>3. b[i] = s[n + i]
      BY <2>2, <1>4
    <3> QED
      BY <3>2, <3>3, <2>1
  <2>3. CASE i \notin 1..Len(s) - n
    <3>1. PICK j \in 1..Len(t) : i = Len(b) + j /\ n + i = Len(s) + j
      <4>1. /\ i - Len(b) \in 1..Len(t) /\ i = Len(b) + (i - Len(b))
            /\ n + i = Len(s) + (i - Len(b))
        BY <2>3, <1>1, <1>2, <1>3, <1>4
      <4> QED
        BY <4>1
    <3> QED
      BY <3>1, <2>1, <1>1, <1>5
  <2> QED
    BY <2>2, <2>3
<1>7. a = c
  <2>1. Len(a) = Len(c)
    BY <1>1, <1>2, <1>3, <1>4, <1>5
  <2> QED
    BY <2>1, <1>3, <1>5, <1>6, Same
<1> QED
  BY <1>7 DEF a, b, c, st

\* The whole first one.
LEMMA DropFirst ==
  ASSUME NEW s \in Seq(Nat), NEW t \in Seq(Nat)
  PROVE  Drop(s \o t, Len(s)) = t
<1>1. Len(s) \in 0..Len(s) /\ <<>> \in Seq(Nat)
  OBVIOUS
<1>2. Drop(s, Len(s)) = <<>>
  BY <1>1, SubSeqEmpty DEF Drop
<1>3. Drop(s \o t, Len(s)) = <<>> \o t
  BY <1>1, <1>2, DropFront
<1> QED
  BY <1>3, ConcatEmptySeq

\* Bytes taken over from a sequence to one before it leave the two together as
\* they were.
LEMMA TakenOver ==
  ASSUME NEW s \in Seq(Nat), NEW t \in Seq(Nat), NEW n \in 0..Len(t)
  PROVE  (s \o Keep(t, n)) \o Drop(t, n) = s \o t
<1>1. Keep(t, n) \in Seq(Nat) /\ Drop(t, n) \in Seq(Nat)
  BY Kept, Dropped, Zenon
<1>2. (s \o Keep(t, n)) \o Drop(t, n) = s \o (Keep(t, n) \o Drop(t, n))
  BY <1>1, ConcatAssociative, SMTT(30)
<1>3. Keep(t, n) \o Drop(t, n) = t
  BY Parted, Zenon
<1> QED
  BY <1>2, <1>3, Zenon

LEMMA KeptOfKept ==
  ASSUME NEW s \in Seq(Nat), NEW m \in 0..Len(s), NEW n \in 0..m
  PROVE  Keep(Keep(s, m), n) = Keep(s, n)
<1> DEFINE a == Keep(s, m)
           b == Keep(a, n)
           c == Keep(s, n)
<1>1. /\ a \in Seq(Nat) /\ Len(s) \in Nat /\ m \in Nat /\ Len(a) = m
      /\ \A i \in 1..m : a[i] = s[i]
  BY Kept, Zenon
<1> HIDE DEF a
<1>2. n \in 0..Len(a) /\ n \in 0..Len(s) /\ n <= m /\ n \in Nat
  BY <1>1
<1>3. b \in Seq(Nat) /\ Len(b) = n /\ \A i \in 1..n : b[i] = a[i]
  BY <1>1, <1>2, Kept, Zenon
<1>4. c \in Seq(Nat) /\ Len(c) = n /\ \A i \in 1..n : c[i] = s[i]
  BY <1>2, Kept, Zenon
<1> HIDE DEF b, c
<1>5. Len(b) = Len(c) /\ \A i \in 1..Len(b) : b[i] = c[i]
  <2>1. ASSUME NEW i \in 1..n PROVE b[i] = c[i]
    <3>1. i \in 1..m
      BY <1>1, <1>2
    <3> QED
      BY <3>1, <1>1, <1>3, <1>4
  <2> QED
    BY <2>1, <1>3, <1>4
<1>6. b = c
  BY <1>3, <1>4, <1>5, Same, Zenon
<1> QED
  BY <1>6 DEF a, b, c
-----------------------------------------------------------------------------
(***************************************************************************)
(* Packets in N bytes.  Packet n is packets[n], of size[n] bytes, counted  *)
(* from 0, and begins at place at[n].                                      *)
(***************************************************************************)

PacketAt(bytes, p, packet, n) == \A i \in 0 .. n - 1 : bytes[p + i] = packet[i]

\* Bytes that, on TCP, cannot be the header and the length of a packet, and on
\* COM are no header.
NoPacket(kind, bytes, first, end) ==
    \A j \in first .. end - 1 :
      bytes[j] = Header => kind = "TCP" /\ j + 1 < end /\ bytes[j + 1] < 3

\* The packets from number cur on follow one another up to the end; before them
\* are the rest of a packet and noise.
Framed(kind, packets, size, at, bytes, N, cur, last) ==
    /\ 1 <= at[cur] /\ at[last + 1] = N + 1
    /\ \A m, n \in cur .. last + 1 : m <= n => at[m] <= at[n]
    /\ \A n \in cur..last : at[n + 1] = at[n] + size[n]
    /\ \A n \in cur..last : PacketAt(bytes, at[n], packets[n], size[n])
    /\ NoPacket(kind, bytes, 1, at[cur])

\* The places when d bytes are dropped.
Moved(at, d) == [n \in Nat |-> at[n] - d]

\* t is s without its first d bytes.
Shifted(s, t, d, N) == \A i \in 1 .. N - d : t[i] = s[d + i]

LEMMA MovedType ==
  ASSUME NEW at \in [Nat -> Int], NEW d \in Nat
  PROVE  Moved(at, d) \in [Nat -> Int]
  BY DEF Moved

LEMMA PacketMoved ==
  ASSUME NEW N \in Nat, NEW d \in Nat, NEW s, NEW t, Shifted(s, t, d, N),
         NEW p \in Int, NEW n \in Nat, d < p, p + n <= N + 1,
         NEW packet, PacketAt(s, p, packet, n)
  PROVE  PacketAt(t, p - d, packet, n)
<1> SUFFICES ASSUME NEW i \in 0 .. n - 1 PROVE t[(p - d) + i] = packet[i]
  BY DEF PacketAt
<1>1. (p - d) + i \in 1 .. N - d /\ d + ((p - d) + i) = p + i
  OBVIOUS
<1>2. t[(p - d) + i] = s[d + ((p - d) + i)]
  BY <1>1 DEF Shifted
<1> QED
  BY <1>1, <1>2 DEF PacketAt

LEMMA NoPacketMoved ==
  ASSUME NEW kind, NEW N \in Nat, NEW d \in Nat, NEW s, NEW t, Shifted(s, t, d, N),
         NEW p \in Int, NEW q \in Int, d < p, q <= N + 1, NoPacket(kind, s, p, q)
  PROVE  NoPacket(kind, t, p - d, q - d)
<1> SUFFICES ASSUME NEW j \in p - d .. (q - d) - 1, t[j] = Header
             PROVE  kind = "TCP" /\ j + 1 < q - d /\ t[j + 1] < 3
  BY DEF NoPacket
<1>1. j \in 1 .. N - d /\ d + j \in p .. q - 1
  OBVIOUS
<1>2. s[d + j] = Header
  BY <1>1 DEF Shifted
<1>3. kind = "TCP" /\ d + j + 1 < q /\ s[d + j + 1] < 3
  BY <1>1, <1>2 DEF NoPacket
<1>4. j + 1 \in 1 .. N - d /\ d + (j + 1) = d + j + 1 /\ j + 1 < q - d
  BY <1>1, <1>3
<1>5. t[j + 1] = s[d + (j + 1)]
  BY <1>4 DEF Shifted
<1> QED
  BY <1>3, <1>4, <1>5

\* What is before the packets may be dropped.
LEMMA JunkDropped ==
  ASSUME NEW kind, NEW packets, NEW size \in [Nat -> Nat], NEW at \in [Nat -> Int],
         NEW N \in Nat, NEW d \in Nat, NEW s, NEW t, Shifted(s, t, d, N),
         NEW cur \in Nat, NEW last \in Nat, cur <= last + 1,
         Framed(kind, packets, size, at, s, N, cur, last), d < at[cur]
  PROVE  Framed(kind, packets, size, Moved(at, d), t, N - d, cur, last)
<1> DEFINE to == Moved(at, d)
<1>1. \A n \in Nat : to[n] = at[n] - d /\ at[n] \in Int
  BY DEF Moved
<1> HIDE DEF to
<1>2. 1 <= to[cur] /\ to[last + 1] = (N - d) + 1
  BY <1>1 DEF Framed
<1>3. \A m, n \in cur .. last + 1 : m <= n => to[m] <= to[n]
  BY <1>1 DEF Framed
<1>4. \A n \in cur..last : to[n + 1] = to[n] + size[n]
  BY <1>1 DEF Framed
<1>5. ASSUME NEW n \in cur..last PROVE PacketAt(t, to[n], packets[n], size[n])
  <2>1. n \in Nat /\ cur \in cur .. last + 1 /\ n \in cur .. last + 1 /\ cur <= n
        /\ n + 1 \in cur .. last + 1 /\ last + 1 \in cur .. last + 1 /\ n + 1 <= last + 1
    OBVIOUS
  <2>2. at[cur] <= at[n] /\ at[n + 1] <= at[last + 1]
    BY <2>1 DEF Framed
  <2>3. at[n] \in Int /\ at[cur] \in Int /\ size[n] \in Nat
    BY <2>1
  <2>4. d < at[n] /\ at[n] + size[n] <= N + 1
    BY <2>2, <2>3 DEF Framed
  <2>5. PacketAt(s, at[n], packets[n], size[n])
    BY DEF Framed
  <2> QED
    BY <2>1, <2>3, <2>4, <2>5, <1>1, PacketMoved
<1>6. NoPacket(kind, t, 1, to[cur])
  <2>1. at[cur] \in Int /\ at[cur] <= N + 1
    BY DEF Framed
  <2>2. NoPacket(kind, s, d + 1, at[cur])
    BY <2>1 DEF Framed, NoPacket
  <2>3. d + 1 \in Int /\ d < d + 1 /\ (d + 1) - d = 1
    OBVIOUS
  <2>4. NoPacket(kind, t, (d + 1) - d, at[cur] - d)
    BY <2>1, <2>2, <2>3, NoPacketMoved, Zenon
  <2> QED
    BY <2>3, <2>4, <1>1
<1>7. Framed(kind, packets, size, to, t, N - d, cur, last)
  BY <1>2, <1>3, <1>4, <1>5, <1>6 DEF Framed
<1> QED
  BY <1>7 DEF to

\* So may the packet that comes first, or as much of it as leaves nothing that
\* could be taken for the beginning of a packet.
LEMMA PacketDropped ==
  ASSUME NEW kind, NEW packets, NEW size \in [Nat -> Nat], NEW at \in [Nat -> Int],
         NEW N \in Nat, NEW d \in Nat, NEW s, NEW t, Shifted(s, t, d, N),
         NEW cur \in Nat, NEW last \in Nat, cur <= last,
         Framed(kind, packets, size, at, s, N, cur, last),
         at[cur] = 1, 1 <= d, d <= size[cur],
         d = size[cur] \/ NoPacket(kind, packets[cur], 1, size[cur])
  PROVE  Framed(kind, packets, size, Moved(at, d), t, N - d, cur + 1, last)
<1> DEFINE to == Moved(at, d)
<1>1. \A n \in Nat : to[n] = at[n] - d /\ at[n] \in Int
  BY DEF Moved
<1> HIDE DEF to
<1>0. /\ cur \in cur..last /\ cur + 1 \in Nat /\ size[cur] \in Nat
      /\ at[cur + 1] = 1 + size[cur]
  BY DEF Framed
<1>2. 1 <= to[cur + 1] /\ to[last + 1] = (N - d) + 1
  BY <1>0, <1>1 DEF Framed
<1>3. \A m, n \in cur + 1 .. last + 1 : m <= n => to[m] <= to[n]
  BY <1>1 DEF Framed
<1>4. \A n \in cur + 1 .. last : to[n + 1] = to[n] + size[n]
  BY <1>1 DEF Framed
<1>5. ASSUME NEW n \in cur + 1 .. last PROVE PacketAt(t, to[n], packets[n], size[n])
  <2>1. n \in Nat /\ cur + 1 \in cur .. last + 1 /\ n \in cur .. last + 1 /\ cur + 1 <= n
        /\ n + 1 \in cur .. last + 1 /\ last + 1 \in cur .. last + 1 /\ n + 1 <= last + 1
        /\ n \in cur..last
    OBVIOUS
  <2>2. at[cur + 1] <= at[n] /\ at[n + 1] <= at[last + 1]
    BY <2>1 DEF Framed
  <2>3. at[n] \in Int /\ at[cur + 1] \in Int /\ size[n] \in Nat
    BY <2>1
  <2>4. d < at[n] /\ at[n] + size[n] <= N + 1
    BY <2>1, <2>2, <2>3, <1>0 DEF Framed
  <2>5. PacketAt(s, at[n], packets[n], size[n])
    BY <2>1 DEF Framed
  <2> QED
    BY <2>1, <2>3, <2>4, <2>5, <1>1, PacketMoved
<1>6. NoPacket(kind, t, 1, to[cur + 1])
  <2>1. to[cur + 1] = (1 + size[cur]) - d
    BY <1>0, <1>1
  <2>2. CASE d = size[cur]
    BY <2>1, <2>2, <1>0 DEF NoPacket
  <2>3. CASE NoPacket(kind, packets[cur], 1, size[cur])
    <3>1. PacketAt(s, 1, packets[cur], size[cur])
      BY <1>0 DEF Framed
    <3>2. NoPacket(kind, s, d + 1, 1 + size[cur])
      <4> SUFFICES ASSUME NEW j \in d + 1 .. size[cur], s[j] = Header
                   PROVE  kind = "TCP" /\ j + 1 < 1 + size[cur] /\ s[j + 1] < 3
        BY <1>0 DEF NoPacket
      <4>1. j - 1 \in 0 .. size[cur] - 1 /\ 1 + (j - 1) = j /\ j - 1 \in 1 .. size[cur] - 1
        BY <1>0
      <4>2. packets[cur][j - 1] = Header
        BY <4>1, <3>1 DEF PacketAt
      <4>3. kind = "TCP" /\ (j - 1) + 1 < size[cur] /\ packets[cur][(j - 1) + 1] < 3
        BY <4>1, <4>2, <2>3 DEF NoPacket
      <4>4. j \in 0 .. size[cur] - 1 /\ (j - 1) + 1 = j /\ 1 + j = j + 1
        BY <4>3, <1>0
      <4>5. s[j + 1] = packets[cur][j]
        BY <4>4, <3>1 DEF PacketAt
      <4> QED
        BY <4>3, <4>4, <4>5, <1>0
    <3>3. 1 + size[cur] <= N + 1
      <4>1. /\ cur + 1 \in cur .. last + 1 /\ last + 1 \in cur .. last + 1
            /\ cur + 1 <= last + 1
        OBVIOUS
      <4>2. at[cur + 1] <= at[last + 1]
        BY <4>1 DEF Framed
      <4> QED
        BY <4>2, <1>0 DEF Framed
    <3>4. d + 1 \in Int /\ d < d + 1 /\ (d + 1) - d = 1 /\ 1 + size[cur] \in Int
      BY <1>0
    <3>5. NoPacket(kind, t, (d + 1) - d, (1 + size[cur]) - d)
      BY <3>2, <3>3, <3>4, NoPacketMoved, Zenon
    <3> QED
      BY <3>4, <3>5, <2>1
  <2> QED
    BY <2>2, <2>3
<1>7. Framed(kind, packets, size, to, t, N - d, cur + 1, last)
  BY <1>2, <1>3, <1>4, <1>5, <1>6 DEF Framed
<1> QED
  BY <1>7 DEF to

\* A packet is sent, with bytes before it that are no packet if it is the only
\* one there, and else with none.
Extended(s, t, N) == \A i \in 1..N : t[i] = s[i]
SamePackets(packets, size, packets2, size2, cur, last) ==
    \A n \in cur..last : packets2[n] = packets[n] /\ size2[n] = size[n]
\* Noise comes with the only packet.
NoiseAlone(noise, cur, last) == noise = 0 \/ cur = last + 1

LEMMA PacketSent ==
  ASSUME NEW kind, NEW packets, NEW size \in [Nat -> Nat], NEW at \in [Nat -> Int],
         NEW N \in Nat, NEW s, NEW t, Extended(s, t, N),
         NEW cur \in Nat, NEW last \in Nat, cur <= last + 1,
         Framed(kind, packets, size, at, s, N, cur, last),
         NEW noise \in Nat, NoPacket(kind, t, N + 1, N + noise + 1),
         NoiseAlone(noise, cur, last),
         NEW packets2, NEW size2 \in [Nat -> Nat],
         SamePackets(packets, size, packets2, size2, cur, last),
         PacketAt(t, N + noise + 1, packets2[last + 1], size2[last + 1])
  PROVE  \E to \in [Nat -> Int] :
           Framed(kind, packets2, size2, to, t, N + noise + size2[last + 1], cur, last + 1)
<1> USE DEF Extended, SamePackets, NoiseAlone
<1> DEFINE n == size2[last + 1]
           to == [at EXCEPT ![last + 1] = N + noise + 1, ![last + 2] = N + noise + n + 1]
<1>0. /\ last + 1 \in Nat /\ last + 2 \in Nat /\ n \in Nat /\ (last + 1) + 1 = last + 2
      /\ \A k \in Nat : at[k] \in Int
  OBVIOUS
<1> HIDE DEF n
<1>1. /\ to \in [Nat -> Int]
      /\ to[last + 1] = N + noise + 1 /\ to[last + 2] = N + noise + n + 1
      /\ \A k \in cur..last : to[k] = at[k]
  BY <1>0
<1> HIDE DEF to
<1>2. \A k \in cur..last : at[k] >= 1 /\ at[k] <= N + 1
  <2> SUFFICES ASSUME NEW k \in cur..last PROVE at[k] >= 1 /\ at[k] <= N + 1
    OBVIOUS
  <2>1. /\ cur \in cur .. last + 1 /\ k \in cur .. last + 1 /\ last + 1 \in cur .. last + 1
        /\ cur <= k /\ k <= last + 1 /\ k \in Nat
    OBVIOUS
  <2>2. at[cur] <= at[k] /\ at[k] <= at[last + 1]
    BY <2>1 DEF Framed
  <2> QED
    BY <2>1, <2>2, <1>0 DEF Framed
<1>3. 1 <= to[cur]
  <2>1. CASE cur = last + 1
    BY <2>1, <1>1
  <2>2. CASE cur \in cur..last
    BY <2>2, <1>1, <1>2
  <2> QED
    BY <2>1, <2>2
<1>4. \A k, m \in cur .. (last + 1) + 1 : k <= m => to[k] <= to[m]
  <2> SUFFICES ASSUME NEW k \in cur .. last + 2, NEW m \in cur .. last + 2, k <= m
               PROVE  to[k] <= to[m]
    BY <1>0
  <2>1. CASE m \in cur..last
    <3>1. k \in cur..last /\ k \in cur .. last + 1 /\ m \in cur .. last + 1
      BY <2>1
    <3> QED
      BY <3>1, <2>1, <1>1 DEF Framed
  <2>2. CASE k \in cur..last /\ (m = last + 1 \/ m = last + 2)
    <3>1. k \in Nat /\ at[k] \in Int /\ at[k] <= N + 1
      BY <2>2, <1>2
    <3> QED
      BY <3>1, <2>2, <1>0, <1>1
  <2>3. CASE (k = last + 1 \/ k = last + 2) /\ (m = last + 1 \/ m = last + 2)
    BY <2>3, <1>0, <1>1
  <2> QED
    BY <2>1, <2>2, <2>3
<1>5. \A k \in cur .. last + 1 : to[k + 1] = to[k] + size2[k]
  <2> SUFFICES ASSUME NEW k \in cur .. last + 1 PROVE to[k + 1] = to[k] + size2[k]
    OBVIOUS
  <2>1. CASE k = last + 1
    BY <2>1, <1>0, <1>1 DEF n
  <2>2. CASE k = last /\ k \in cur..last
    <3>1. at[last + 1] = at[last] + size[last] /\ at[last + 1] = N + 1
      BY <2>2 DEF Framed
    <3>2. noise = 0
      BY <2>2
    <3> QED
      BY <3>1, <3>2, <2>2, <1>0, <1>1
  <2>3. CASE k \in cur .. last - 1
    <3>1. k \in cur..last /\ k + 1 \in cur..last
      BY <2>3
    <3>2. at[k + 1] = at[k] + size[k]
      BY <3>1 DEF Framed
    <3> QED
      BY <3>1, <3>2, <1>1
  <2> HIDE DEF Extended, SamePackets, NoiseAlone
  <2>4. k = last + 1 \/ (k = last /\ k \in cur..last) \/ k \in cur .. last - 1
    OBVIOUS
  <2> QED
    BY <2>1, <2>2, <2>3, <2>4
<1>6. ASSUME NEW k \in cur .. last + 1 PROVE PacketAt(t, to[k], packets2[k], size2[k])
  <2>1. CASE k = last + 1
    BY <2>1, <1>1
  <2>2. CASE k \in cur..last
    <3>1. PacketAt(s, at[k], packets[k], size[k]) /\ at[k + 1] = at[k] + size[k]
      BY <2>2 DEF Framed
    <3>2. k \in Nat /\ k + 1 \in Nat /\ size[k] \in Nat /\ at[k] \in Int
      BY <2>2
    <3>3. at[k] >= 1 /\ at[k + 1] <= N + 1
      <4>1. k + 1 \in cur..last \/ k + 1 = last + 1
        BY <2>2
      <4> QED
        BY <4>1, <2>2, <1>2 DEF Framed
    <3>4. \A i \in 0 .. size[k] - 1 : at[k] + i \in 1..N
      BY <3>1, <3>2, <3>3
    <3> QED
      BY <3>1, <3>4, <2>2, <1>1 DEF PacketAt
  <2> QED
    BY <2>1, <2>2
<1>7. NoPacket(kind, t, 1, to[cur])
  <2> SUFFICES ASSUME NEW j \in 1 .. to[cur] - 1, t[j] = Header
               PROVE  kind = "TCP" /\ j + 1 < to[cur] /\ t[j + 1] < 3
    BY DEF NoPacket
  <2>1. at[cur] <= N + 1 /\ at[cur] <= to[cur] /\ to[cur] \in Int /\ at[cur] \in Int
    <3>1. CASE cur = last + 1
      BY <3>1, <1>0, <1>1 DEF Framed
    <3>2. CASE cur \in cur..last
      BY <3>2, <1>0, <1>1, <1>2
    <3> QED
      BY <3>1, <3>2
  <2>2. CASE j < at[cur]
    <3>1. j \in 1 .. at[cur] - 1 /\ s[j] = Header
      BY <2>1, <2>2
    <3>2. kind = "TCP" /\ j + 1 < at[cur] /\ s[j + 1] < 3
      BY <3>1 DEF Framed, NoPacket
    <3>3. t[j + 1] = s[j + 1]
      BY <3>2, <2>1
    <3> QED
      BY <3>2, <3>3, <2>1
  <2>3. CASE j >= at[cur]
    <3>1. cur = last + 1
      BY <2>1, <2>3, <1>1
    <3>2. j \in N + 1 .. N + noise /\ to[cur] = N + noise + 1
      BY <3>1, <2>3, <1>1 DEF Framed
    <3> QED
      BY <3>2 DEF NoPacket
  <2> QED
    BY <2>1, <2>2, <2>3
<1>8. Framed(kind, packets2, size2, to, t, N + noise + n, cur, last + 1)
  BY <1>0, <1>1, <1>3, <1>4, <1>5, <1>6, <1>7 DEF Framed
<1> QED
  BY <1>1, <1>8 DEF n
-----------------------------------------------------------------------------
(***************************************************************************)
(* Types, and what bcap_recv knows of the bytes it has read                *)
(***************************************************************************)

\* TypeOK in the form the steps of a proof use.
Types ==
    /\ type \in {"TCP", "COM"}
    /\ sent \in Seq(Bodies) /\ got \in Seq(Seq(Nat))
    /\ lost \subseteq Nat /\ IsFiniteSet(lost)
    /\ argc \in Nat

Reading ==
    /\ line \in Seq(Nat) /\ arrived \in 0..Len(line)
    /\ pc \in {"call", "search", "length", "body"}
    /\ buf_tmp \in Seq(Nat) /\ buf_recv \in Seq(Nat) /\ len_recv \in Nat
    /\ pc = "call" => buf_tmp = <<>>
    /\ pc = "length" => Len(buf_tmp) >= 2 /\ buf_tmp[1] = Header
    /\ pc = "length" /\ type = "TCP" =>
         arrived >= 2 /\ line[1] = Header /\ line[2] = buf_tmp[2]
    /\ type = "COM" /\ buf_tmp # <<>> => buf_tmp[1] = Header
    /\ pc = "body" =>
         /\ len_recv >= LenMin /\ Len(buf_recv) \in 2..len_recv
         /\ buf_recv[1] = Header /\ buf_recv[2] = len_recv

\* On COM every packet has a length that bcap_recv accepts.
Fitting == type = "COM" => \A n \in 1..Len(sent) : Len(sent[n]) + 4 <= LenMax

LEMMA Counted ==
  ASSUME Types
  PROVE  /\ Cardinality(lost) \in Nat /\ Len(got) \in Nat /\ Len(sent) \in Nat
         /\ Current \in Nat /\ Current >= 1
<1>1. Cardinality(lost) \in Nat
  BY FS_CardinalityType DEF Types
<1> QED
  BY <1>1 DEF Types, Current

LEMMA BodyTaken ==
  ASSUME Types, NEW s \in Seq(Nat), Len(s) >= LenMin
  PROVE  /\ BodyOf(s) \in Seq(Nat) /\ Len(BodyOf(s)) \in Nat
         /\ Len(BodyOf(s)) = Len(s) - LenMin
         /\ \A i \in 1..Len(s) - LenMin : BodyOf(s)[i] = s[i + 2]
<1> DEFINE m == Len(s) - (LenMin - 2)
<1>1. m \in Nat /\ Len(s) \in Nat /\ m >= 2 /\ m <= Len(s) /\ m - 2 = Len(s) - LenMin
  BY DEF Types, LenMin
<1> HIDE DEF m
<1>2. SubSeq(s, 3, m) \in Seq(Nat) /\ Len(SubSeq(s, 3, m)) = m - 2
  BY <1>1
<1>3. \A i \in 1 .. m - 2 : SubSeq(s, 3, m)[i] = s[i + 2]
  BY <1>1
<1>4. BodyOf(s) = SubSeq(s, 3, m)
  BY DEF BodyOf, m
<1> QED
  BY <1>1, <1>2, <1>3, <1>4

LEMMA TypesStep ==
  ASSUME Types, Reading, [Next]_vars
  PROVE  Types'
<1>1. ASSUME NEW body \in Bodies, bcap_send(body) PROVE Types'
  BY <1>1 DEF bcap_send, Types
<1>2. CASE Arrive \/ Call \/ Search \/ SkipHeader \/ Length \/ Body \/ UNCHANGED vars
  BY <1>2, Streams DEF Types, Arrive, Call, Search, SkipHeader, Length, Body, vars
<1>3. IsFiniteSet(lost \cup {Current}) /\ lost \cup {Current} \subseteq Nat
  BY FS_AddElement, Counted DEF Types
<1>4. CASE Decoded
  <2>1. Len(buf_recv) >= LenMin
    BY <1>4 DEF Decoded, Reading
  <2>2. BodyOf(buf_recv) \in Seq(Nat) /\ Len(BodyOf(buf_recv)) \in Nat
    BY <2>1, BodyTaken DEF Reading
  <2>3. CASE CrcFits(buf_recv)
    <3>1. got' = Append(got, BodyOf(buf_recv)) /\ UNCHANGED <<type, sent, lost, argc>>
      BY <2>3, <1>4 DEF Decoded
    <3> QED
      BY <3>1, <2>2 DEF Types
  <2>4. CASE ~CrcFits(buf_recv)
    BY <2>2, <2>4, <1>3, <1>4 DEF Decoded, Types
  <2> QED
    BY <2>3, <2>4
<1>5. CASE NotDecoded \/ Timeout
  BY <1>3, <1>5 DEF NotDecoded, Timeout, Types
<1> QED
  BY <1>1, <1>2, <1>4, <1>5 DEF Next
-----------------------------------------------------------------------------
\* What a receive takes from the device.
LEMMA Taken ==
  ASSUME line \in Seq(Nat), arrived \in 0..Len(line), NEW n \in 0..arrived, Take(n)
  PROVE  /\ n \in 0..Len(line) /\ line' = Drop(line, n)
         /\ line' \in Seq(Nat) /\ Len(line') = Len(line) - n
         /\ arrived' \in 0..Len(line') /\ arrived' = arrived - n
         /\ \A i \in 1..Len(line) - n : line'[i] = line[n + i]
<1>1. n \in 0..Len(line) /\ Len(line) \in Nat
  OBVIOUS
<1>2. line' = Drop(line, n) /\ arrived' = arrived - n
  BY DEF Take, Drop
<1>3. /\ Drop(line, n) \in Seq(Nat) /\ Len(Drop(line, n)) = Len(line) - n
      /\ \A i \in 1..Len(line) - n : Drop(line, n)[i] = line[n + i]
  BY <1>1, Dropped, Zenon
<1>4. arrived' \in 0 .. Len(line) - n
  BY <1>1, <1>2
<1> QED
  BY <1>1, <1>2, <1>3, <1>4

\* A receive of the search: what it has looked at (bytes), and how much of that
\* was before the first header.
LEMMA Searched ==
  ASSUME Types, Reading, Search
  PROVE  \E bytes \in Seq(Nat) : \E k \in 0..Len(bytes) :
           /\ FirstHeader(k, bytes) /\ buf_tmp' = Drop(bytes, k)
           /\ type = "TCP" => bytes = Keep(line, arrived) /\ k \in 0..arrived /\ Take(k)
           /\ type = "COM" => bytes = buf_tmp \o Keep(line, arrived) /\ Take(arrived)
<1> DEFINE part == Keep(line, arrived)
           front == IF type = "TCP" THEN <<>> ELSE buf_tmp
           bytes == front \o part
<1>1. part \in Seq(Nat) /\ Len(part) = arrived
  BY Kept, Zenon DEF Reading
<1>2. PICK k \in 0..Len(bytes) :
        /\ FirstHeader(k, bytes) /\ buf_tmp' = Drop(bytes, k)
        /\ Take(IF type = "TCP" THEN k ELSE arrived)
  BY DEF Search, Keep, Drop
<1> HIDE DEF part
<1>3. CASE type = "TCP"
  <2>1. bytes = part
    BY <1>1, <1>3, ConcatEmptySeq
  <2>2. k \in 0..arrived
    BY <2>1, <1>1
  <2> QED
    BY <2>1, <2>2, <1>1, <1>2, <1>3 DEF part
<1>4. CASE type = "COM"
  <2>1. bytes = buf_tmp \o part
    BY <1>4
  <2>2. bytes \in Seq(Nat)
    BY <2>1, <1>1 DEF Reading
  <2> QED
    BY <2>1, <2>2, <1>2, <1>4 DEF part
<1> QED
  BY <1>3, <1>4 DEF Types

\* A packet that is sent, with noise on COM and perhaps spoilt there.
LEMMA SentBytes ==
  ASSUME Types, Reading, NEW body \in Bodies, bcap_send(body)
  PROVE  \E n \in Seq(Nat), ending \in Seq(Nat) :
           /\ line' = line \o (n \o Packet(body, ending))
           /\ Packet(body, ending) \in Seq(Nat)
           /\ Len(ending) = LenMin - 2
           /\ type = "TCP" => n = <<>> /\ ending = Ending(body)
           /\ type = "COM" => /\ Current > Len(sent) /\ Len(body) + LenMin <= LenMax
                              /\ \A i \in 1..Len(n) : n[i] # Header
                              /\ ending \in {Ending(body), <<Spoilt(Sum(body)), Terminator>>,
                                             <<Sum(body), 0>>}
<1>1. body \in Seq(Nat) /\ Len(body) \in Nat
  BY Streams
<1>2. ASSUME NEW ending \in Seq(Nat) PROVE Packet(body, ending) \in Seq(Nat)
  <2>1. <<Header, Len(body) + LenMin>> \in Seq(Nat)
    BY <1>1 DEF Header, LenMin
  <2>2. <<Header, Len(body) + LenMin>> \o body \in Seq(Nat)
    BY <2>1, <1>1, Concat, Zenon
  <2> QED
    BY <2>2, Concat, Zenon DEF Packet
<1>3. CASE type = "TCP"
  <2>1. Ending(body) \in Seq(Nat) /\ Len(Ending(body)) = LenMin - 2
    BY <1>3 DEF Ending, Terminator, LenMin
  <2>2. line' = line \o Packet(body, Ending(body)) /\ Packet(body, Ending(body)) \in Seq(Nat)
    BY <1>2, <1>3, <2>1 DEF bcap_send
  <2>3. <<>> \o Packet(body, Ending(body)) = Packet(body, Ending(body)) /\ <<>> \in Seq(Nat)
    BY <2>2, ConcatEmptySeq
  <2> QED
    BY <1>3, <2>1, <2>2, <2>3
<1>4. CASE type = "COM"
  <2>1. Sum(body) \in Nat
    BY <1>4, Streams DEF Sum, LenMin
  <2>2. PICK n \in Noise, ending \in {Ending(body), <<Spoilt(Sum(body)), Terminator>>,
                                       <<Sum(body), 0>>} :
          line' = line \o n \o Packet(body, ending)
    BY <1>4 DEF bcap_send
  <2>3. ending \in Seq(Nat) /\ Len(ending) = LenMin - 2
    <3>1. \E a, b \in Nat : ending = <<a, b>>
      <4>1. Sum(body) + 1 \in Nat
        BY <2>1
      <4> QED
        BY <1>4, <2>1, <2>2, <4>1 DEF Ending, Terminator, Spoilt
    <3>2. LenMin - 2 = 2
      BY <1>4 DEF LenMin
    <3> QED
      BY <3>1, <3>2
  <2>4. n \in Seq(Nat) /\ \A i \in 1..Len(n) : n[i] # Header
    BY <2>2, Streams
  <2>5. Packet(body, ending) \in Seq(Nat)
    BY <2>3, <1>2
  <2>6. line' = line \o (n \o Packet(body, ending))
    <3>1. line \in Seq(Nat)
      BY DEF Reading
    <3>2. (line \o n) \o Packet(body, ending) = line \o (n \o Packet(body, ending))
      BY <2>4, <2>5, <3>1, ConcatAssociative, SMTT(30)
    <3> QED
      BY <2>2, <3>2
  <2>7. Current > Len(sent) /\ Len(body) + LenMin <= LenMax
    BY <1>4 DEF bcap_send
  <2> QED
    BY <1>4, <2>2, <2>3, <2>4, <2>5, <2>6, <2>7
<1> QED
  BY <1>3, <1>4 DEF Types

\* The first n bytes of a packet, as many as there are or it has.
BytesOfLength(n) ==
    /\ pc = "length" /\ pc' = "body" /\ len_recv' = buf_tmp[2] /\ LengthFits(buf_tmp[2])
    /\ n \in 2..len_recv' /\ len_recv' \in Nat /\ len_recv' >= LenMin
    /\ buf_recv' \in Seq(Nat) /\ Len(buf_recv') = n
    /\ buf_recv'[1] = Header /\ buf_recv'[2] = len_recv'
    /\ line' \in Seq(Nat) /\ arrived' \in 0..Len(line')
    /\ type = "TCP" => n \in 0..Len(line) /\ buf_recv' = Keep(line, n) /\ line' = Drop(line, n)
    /\ type = "COM" => /\ n \in 0..Len(buf_tmp) /\ buf_recv' = Keep(buf_tmp, n)
                       /\ n = Len(buf_tmp) \/ (n = len_recv' /\ n < Len(buf_tmp))
                       /\ line' = line /\ arrived' = arrived
    /\ UNCHANGED <<type, sent, buf_tmp, argc, got, lost>>

LEMMA LengthRead ==
  ASSUME Types, Reading, Length
  PROVE  \E n \in Nat : BytesOfLength(n)
<1>1. /\ buf_tmp[2] \in Nat /\ buf_tmp[2] >= LenMin /\ LenMin >= 3 /\ LenMin \in Nat
      /\ Len(buf_tmp) \in Nat /\ Len(line) \in Nat /\ arrived \in Nat
      /\ LengthFits(buf_tmp[2])
  BY DEF Length, LengthFits, Reading, LenMin
<1>2. CASE type = "TCP"
  <2> DEFINE part == Keep(line, arrived)
             n == Smaller(buf_tmp[2], Len(part))
  <2>1. part \in Seq(Nat) /\ Len(part) = arrived
    BY Kept, Zenon DEF Reading
  <2>2. buf_recv' = Keep(part, n) /\ Take(n)
    BY <1>2 DEF Length, Keep
  <2> HIDE DEF part
  <2>3. /\ n \in 2..buf_tmp[2] /\ n \in 0..arrived /\ n \in Nat /\ n \in 0..Len(line)
        /\ arrived \in 0..Len(line)
    <3>1. arrived >= 2 /\ arrived \in 0..Len(line)
      BY <1>2 DEF Length, Reading
    <3>2. /\ n \in Nat /\ n <= buf_tmp[2] /\ n <= arrived /\ (n = buf_tmp[2] \/ n = arrived)
      BY <1>1, <2>1 DEF Smaller
    <3> HIDE DEF n
    <3>3. buf_tmp[2] >= 3
      BY <1>1
    <3> QED
      BY <1>1, <3>1, <3>2, <3>3
  <2> HIDE DEF n
  <2>a. line \in Seq(Nat)
    BY DEF Reading
  <2>4. buf_recv' = Keep(line, n)
    <3>1. Keep(Keep(line, arrived), n) = Keep(line, n)
      BY <2>a, <2>3, KeptOfKept, Zenon
    <3> QED
      BY <3>1, <2>2 DEF part
  <2>5. /\ Keep(line, n) \in Seq(Nat) /\ Len(Keep(line, n)) = n
        /\ \A i \in 1..n : Keep(line, n)[i] = line[i]
    BY <2>a, <2>3, Kept, Zenon
  <2>6. /\ line' = Drop(line, n) /\ line' \in Seq(Nat) /\ arrived' \in 0..Len(line')
    BY <2>a, <2>2, <2>3, Taken, Zenon
  <2>7. buf_recv'[1] = Header /\ buf_recv'[2] = buf_tmp[2]
    <3>1. line[1] = Header /\ line[2] = buf_tmp[2] /\ 1 \in 1..n /\ 2 \in 1..n
      BY <1>2, <2>3 DEF Length, Reading
    <3> QED
      BY <3>1, <2>4, <2>5
  <2> QED
    BY <1>1, <1>2, <2>3, <2>4, <2>5, <2>6, <2>7 DEF Length, BytesOfLength
<1>3. CASE type = "COM"
  <2> DEFINE n == Smaller(buf_tmp[2], Len(buf_tmp))
  <2>1. /\ n \in 2..buf_tmp[2] /\ n \in Nat /\ n \in 0..Len(buf_tmp)
        /\ n = Len(buf_tmp) \/ (n = buf_tmp[2] /\ n < Len(buf_tmp))
    <3>1. Len(buf_tmp) >= 2
      BY DEF Length, Reading
    <3> QED
      BY <1>1, <3>1 DEF Smaller
  <2>2. buf_recv' = Keep(buf_tmp, n) /\ UNCHANGED <<line, arrived>>
    BY <1>3 DEF Length, Keep
  <2> HIDE DEF n
  <2>3. /\ Keep(buf_tmp, n) \in Seq(Nat) /\ Len(Keep(buf_tmp, n)) = n
        /\ \A i \in 1..n : Keep(buf_tmp, n)[i] = buf_tmp[i]
    <3>1. buf_tmp \in Seq(Nat)
      BY DEF Reading
    <3> QED
      BY <3>1, <2>1, Kept, Zenon
  <2>4. buf_recv'[1] = Header /\ buf_recv'[2] = buf_tmp[2]
    <3>1. buf_tmp[1] = Header /\ 1 \in 1..n /\ 2 \in 1..n
      BY <2>1 DEF Length, Reading
    <3> QED
      BY <3>1, <2>2, <2>3
  <2> QED
    BY <1>1, <1>3, <2>1, <2>2, <2>3, <2>4 DEF Length, BytesOfLength, Reading
<1> QED
  BY <1>2, <1>3 DEF Types

BytesOfBody(n) ==
    /\ pc = "body" /\ pc' = "body" /\ n \in 0..Len(line)
    /\ Len(buf_recv') = Len(buf_recv) + n /\ Len(buf_recv') \in 2..len_recv
    /\ buf_recv' = buf_recv \o Keep(line, n) /\ buf_recv' \in Seq(Nat)
    /\ buf_recv'[1] = Header /\ buf_recv'[2] = len_recv
    /\ line' = Drop(line, n) /\ line' \in Seq(Nat) /\ arrived' \in 0..Len(line')
    /\ UNCHANGED <<type, sent, buf_tmp, len_recv, argc, got, lost>>

LEMMA BodyRead ==
  ASSUME Types, Reading, Body
  PROVE  \E n \in Nat : BytesOfBody(n)
<1> DEFINE n == Smaller(len_recv - Len(buf_recv), arrived)
<1>1. /\ n \in Nat /\ n \in 0..arrived /\ n \in 0..Len(line)
      /\ Len(buf_recv) + n \in 2..len_recv /\ Len(buf_recv) >= 2
  <2>1. /\ arrived \in 0..Len(line) /\ len_recv \in Nat /\ Len(buf_recv) \in 2..len_recv
        /\ Len(line) \in Nat
    BY DEF Body, Reading
  <2> QED
    BY <2>1 DEF Smaller
<1>2. buf_recv' = buf_recv \o Keep(line, n) /\ Take(n)
  BY DEF Body, Keep
<1> HIDE DEF n
<1>a. line \in Seq(Nat) /\ arrived \in 0..Len(line) /\ buf_recv \in Seq(Nat)
  BY DEF Reading
<1>3. Keep(line, n) \in Seq(Nat) /\ Len(Keep(line, n)) = n
  BY <1>a, <1>1, Kept, Zenon
<1>4. /\ buf_recv \o Keep(line, n) \in Seq(Nat)
      /\ Len(buf_recv \o Keep(line, n)) = Len(buf_recv) + Len(Keep(line, n))
      /\ \A i \in 1..Len(buf_recv) : (buf_recv \o Keep(line, n))[i] = buf_recv[i]
  BY <1>a, <1>3, Concat, Zenon
<1>5. buf_recv'[1] = Header /\ buf_recv'[2] = len_recv
  BY <1>1, <1>2, <1>4 DEF Body, Reading
<1>6. /\ line' = Drop(line, n) /\ line' \in Seq(Nat) /\ arrived' \in 0..Len(line')
  BY <1>a, <1>1, <1>2, Taken, Zenon
<1> QED
  BY <1>1, <1>2, <1>3, <1>4, <1>5, <1>6 DEF Body, BytesOfBody

LEMMA ReadingStep ==
  ASSUME Types, Reading, [Next]_vars
  PROVE  Reading'
<1>1. ASSUME NEW body \in Bodies, bcap_send(body) PROVE Reading'
  <2>a. PICK n \in Seq(Nat), ending \in Seq(Nat) :
          line' = line \o (n \o Packet(body, ending)) /\ Packet(body, ending) \in Seq(Nat)
    BY <1>1, SentBytes, Zenon
  <2>b. n \o Packet(body, ending) \in Seq(Nat)
    BY <2>a, Concat, Zenon
  <2>1. PICK more \in Seq(Nat) : line' = line \o more
    BY <2>a, <2>b, Zenon
  <2>2. /\ line' \in Seq(Nat) /\ Len(line) \in Nat /\ Len(line') >= Len(line)
        /\ \A i \in 1..Len(line) : line'[i] = line[i]
    BY <2>1, Concat DEF Reading
  <2>3. UNCHANGED <<type, arrived, pc, buf_tmp, buf_recv, len_recv>>
    BY <1>1 DEF bcap_send
  <2>4. arrived' \in 0..Len(line')
    BY <2>2, <2>3 DEF Reading
  <2>5. pc = "length" /\ type = "TCP" => line'[1] = line[1] /\ line'[2] = line[2]
    <3>1. pc = "length" /\ type = "TCP" => Len(line) >= 2
      BY <2>2 DEF Reading
    <3> QED
      BY <3>1, <2>2
  <2> QED
    BY <2>2, <2>3, <2>4, <2>5 DEF Reading, LenMin
<1>2. CASE Arrive
  BY <1>2 DEF Arrive, Reading, LenMin
<1>3. CASE Call
  BY <1>3 DEF Call, Reading, LenMin
<1>4. CASE Search
  <2>0. PICK bytes \in Seq(Nat) : \E k \in 0..Len(bytes) :
          /\ FirstHeader(k, bytes) /\ buf_tmp' = Drop(bytes, k)
          /\ type = "TCP" => bytes = Keep(line, arrived) /\ k \in 0..arrived /\ Take(k)
          /\ type = "COM" => bytes = buf_tmp \o Keep(line, arrived) /\ Take(arrived)
    BY <1>4, Searched, Zenon
  <2>1. PICK k \in 0..Len(bytes) :
          /\ FirstHeader(k, bytes) /\ buf_tmp' = Drop(bytes, k)
          /\ type = "TCP" => bytes = Keep(line, arrived) /\ k \in 0..arrived /\ Take(k)
          /\ type = "COM" => bytes = buf_tmp \o Keep(line, arrived) /\ Take(arrived)
    BY <2>0
  <2>2. /\ buf_tmp' \in Seq(Nat) /\ Len(bytes) \in Nat /\ Len(buf_tmp') = Len(bytes) - k
        /\ \A i \in 1..Len(bytes) - k : buf_tmp'[i] = bytes[k + i]
    BY <2>1, Dropped, Zenon
  <2>3. buf_tmp' # <<>> => buf_tmp'[1] = Header
    <3>1. buf_tmp' # <<>> => k + 1 \in 1..Len(bytes) /\ k < Len(bytes)
      BY <2>2
    <3>2. buf_tmp' # <<>> => 1 \in 1..Len(bytes) - k
      BY <3>1, <2>2
    <3> QED
      BY <3>1, <3>2, <2>1, <2>2 DEF FirstHeader
  <2>4. line' \in Seq(Nat) /\ arrived' \in 0..Len(line')
    <3>1. line \in Seq(Nat) /\ arrived \in 0..Len(line) /\ arrived \in 0..arrived
      BY DEF Reading
    <3>2. CASE type = "TCP"
      BY <3>1, <3>2, <2>1, Taken, Zenon
    <3>3. CASE type = "COM"
      BY <3>1, <3>3, <2>1, Taken, Zenon
    <3> QED
      BY <3>2, <3>3 DEF Types
  <2>5. /\ pc' = IF Len(buf_tmp') >= 2 THEN "length" ELSE "search"
        /\ UNCHANGED <<type, buf_recv, len_recv>>
    BY <1>4 DEF Search, HeaderAndLength
  <2>6. ASSUME pc' = "length", type = "TCP"
        PROVE  arrived' >= 2 /\ line'[1] = Header /\ line'[2] = buf_tmp'[2]
    <3>0. line \in Seq(Nat) /\ arrived \in 0..Len(line) /\ bytes = Keep(line, arrived)
      BY <2>1, <2>5, <2>6 DEF Reading
    <3>a. /\ Len(bytes) = arrived /\ arrived \in Nat /\ Len(line) \in Nat
          /\ \A i \in 1..arrived : bytes[i] = line[i]
      BY <3>0, Kept, Zenon
    <3>1. /\ Len(bytes) = arrived /\ arrived \in Nat /\ arrived <= Len(line)
          /\ \A i \in 1..arrived : bytes[i] = line[i]
      BY <3>0, <3>a
    <3>b. Take(k) /\ k \in 0..arrived
      BY <2>1, <2>5, <2>6
    <3>c. arrived' = arrived - k /\ \A i \in 1..Len(line) - k : line'[i] = line[k + i]
      BY <3>0, <3>b, Taken, Zenon
    <3>d. k \in Nat
      BY <3>1, <3>b
    <3>2. /\ arrived' = arrived - k /\ Len(line) \in Nat /\ k \in Nat
          /\ \A i \in 1..Len(line) - k : line'[i] = line[k + i]
      BY <3>a, <3>c, <3>d
    <3>3. arrived - k >= 2 /\ Len(line) - k >= 2
      BY <2>2, <2>5, <2>6, <3>1, <3>2
    <3>4. /\ line'[1] = line[k + 1] /\ line'[2] = line[k + 2]
          /\ bytes[k + 1] = line[k + 1] /\ bytes[k + 2] = line[k + 2]
          /\ buf_tmp'[2] = bytes[k + 2]
      BY <2>2, <3>1, <3>2, <3>3
    <3>5. bytes[k + 1] = Header
      BY <2>1, <3>1, <3>2, <3>3 DEF FirstHeader
    <3> QED
      BY <3>2, <3>3, <3>4, <3>5
  <2>7. pc' = "length" => Len(buf_tmp') >= 2 /\ buf_tmp'[1] = Header
    BY <2>2, <2>3, <2>5
  <2> QED
    BY <2>2, <2>3, <2>4, <2>5, <2>6, <2>7 DEF Reading
<1>5. CASE SkipHeader
  <2>1. CASE type = "TCP"
    <3>1. Take(1) /\ 1 \in 0..arrived
      BY <1>5, <2>1 DEF SkipHeader, Reading
    <3>2. line' \in Seq(Nat) /\ arrived' \in 0..Len(line')
      BY <3>1, Taken DEF Reading
    <3> QED
      BY <3>2, <1>5, <2>1 DEF SkipHeader, Reading, LenMin
  <2>2. CASE type = "COM"
    BY <1>5, <2>2 DEF SkipHeader, Reading, LenMin
  <2> QED
    BY <2>1, <2>2 DEF Types
<1>6. CASE Length
  <2>1. PICK n \in Nat : BytesOfLength(n)
    BY <1>6, LengthRead
  <2> QED
    BY <2>1 DEF BytesOfLength, Reading, LenMin
<1>7. CASE Body
  <2>1. PICK n \in Nat : BytesOfBody(n)
    BY <1>7, BodyRead
  <2> QED
    BY <2>1 DEF BytesOfBody, Reading, LenMin
<1>8. CASE Decoded \/ NotDecoded \/ Timeout
  <2>1. /\ pc' \in {"call", "search"} /\ buf_tmp' = <<>> /\ buf_recv' = <<>>
        /\ UNCHANGED <<type, line, arrived, len_recv>>
    BY <1>8 DEF Decoded, NotDecoded, Timeout
  <2> QED
    BY <2>1 DEF Reading
<1>9. CASE UNCHANGED vars
  BY <1>9 DEF vars, Reading, LenMin
<1> QED
  BY <1>1, <1>2, <1>3, <1>4, <1>5, <1>6, <1>7, <1>8, <1>9 DEF Next

LEMMA FittingStep ==
  ASSUME Types, Reading, Fitting, [Next]_vars
  PROVE  Fitting'
<1>1. ASSUME NEW body \in Bodies, bcap_send(body) PROVE Fitting'
  <2>1. type = "COM" => Len(body) + 4 <= LenMax
    BY <1>1 DEF bcap_send, LenMin
  <2>2. /\ sent' = Append(sent, body) /\ type' = type /\ sent \in Seq(Bodies)
    BY <1>1 DEF bcap_send, Types
  <2>3. Len(sent') = Len(sent) + 1 /\ \A n \in 1..Len(sent) : sent'[n] = sent[n]
    BY <2>2
  <2>4. sent'[Len(sent) + 1] = body /\ Len(sent) \in Nat
    BY <2>2
  <2> QED
    BY <2>1, <2>2, <2>3, <2>4 DEF Fitting
<1>2. CASE UNCHANGED <<type, sent>>
  BY <1>2 DEF Fitting
<1> QED
  BY <1>1, <1>2
  DEF Next, Arrive, Call, Search, SkipHeader, Length, Body, Decoded, NotDecoded, Timeout, vars
-----------------------------------------------------------------------------
(***************************************************************************)
(* The bytes that were sent and are not yet used up: those bcap_recv has   *)
(* taken and goes on from, and those on the line.                          *)
(***************************************************************************)

Ahead == IF pc = "body" THEN buf_recv ELSE IF type = "COM" THEN buf_tmp ELSE <<>>
Pending == Ahead \o line

LEMMA PendingType ==
  ASSUME Types, Reading
  PROVE  /\ Ahead \in Seq(Nat) /\ Pending \in Seq(Nat)
         /\ Len(Ahead) \in Nat /\ Len(line) \in Nat /\ Len(Pending) = Len(Ahead) + Len(line)
         /\ \A i \in 1..Len(Ahead) : Pending[i] = Ahead[i]
         /\ \A i \in 1..Len(line) : Pending[Len(Ahead) + i] = line[i]
<1>1. Ahead \in Seq(Nat) /\ line \in Seq(Nat)
  BY DEF Reading, Ahead
<1> QED
  BY <1>1, Concat, Zenon DEF Pending

\* Only bcap_send, a receive of the search, a header that is skipped, a packet
\* that is decoded or not, and a timeout change them.
LEMMA PendingKept ==
  ASSUME Types, Reading, Arrive \/ Call \/ Body \/ (Length /\ type = "TCP") \/ UNCHANGED vars
  PROVE  Pending' = Pending
<1>1. CASE Arrive \/ Call \/ UNCHANGED vars
  BY <1>1 DEF Arrive, Call, vars, Pending, Ahead, Reading
<1>2. CASE Body
  <2>1. PICK n \in Nat : BytesOfBody(n)
    BY <1>2, BodyRead
  <2>2. line \in Seq(Nat) /\ buf_recv \in Seq(Nat) /\ n \in 0..Len(line)
    BY <2>1 DEF Reading, BytesOfBody
  <2>3. (buf_recv \o Keep(line, n)) \o Drop(line, n) = buf_recv \o line
    BY <2>2, TakenOver, Zenon
  <2> QED
    BY <2>1, <2>3 DEF BytesOfBody, Pending, Ahead
<1>3. CASE Length /\ type = "TCP"
  <2>1. PICK n \in Nat : BytesOfLength(n)
    BY <1>3, LengthRead
  <2>2. line \in Seq(Nat) /\ n \in 0..Len(line)
    BY <1>3, <2>1 DEF Reading, BytesOfLength
  <2>3. Keep(line, n) \o Drop(line, n) = line
    BY <2>2, Parted, Zenon
  <2>4. <<>> \o line = line
    BY <2>2, ConcatEmptySeq
  <2>5. Pending = line
    BY <1>3, <2>1, <2>4 DEF BytesOfLength, Pending, Ahead
  <2>6. Pending' = Keep(line, n) \o Drop(line, n)
    BY <1>3, <2>1 DEF BytesOfLength, Pending, Ahead
  <2> QED
    BY <2>3, <2>5, <2>6
<1> QED
  BY <1>1, <1>2, <1>3

\* Bytes that are dropped from the front of those pending.
LEMMA PendingSearched ==
  ASSUME Types, Reading, Search
  PROVE  \E k \in 0..Len(Pending) :
           Pending' = Drop(Pending, k) /\ \A i \in 1..k : Pending[i] # Header
<1>0. PICK bytes \in Seq(Nat) : \E k \in 0..Len(bytes) :
        /\ FirstHeader(k, bytes) /\ buf_tmp' = Drop(bytes, k)
        /\ type = "TCP" => bytes = Keep(line, arrived) /\ k \in 0..arrived /\ Take(k)
        /\ type = "COM" => bytes = buf_tmp \o Keep(line, arrived) /\ Take(arrived)
  BY Searched, Zenon
<1>1. PICK k \in 0..Len(bytes) :
        /\ FirstHeader(k, bytes) /\ buf_tmp' = Drop(bytes, k)
        /\ type = "TCP" => bytes = Keep(line, arrived) /\ k \in 0..arrived /\ Take(k)
        /\ type = "COM" => bytes = buf_tmp \o Keep(line, arrived) /\ Take(arrived)
  BY <1>0
<1>2. /\ line \in Seq(Nat) /\ arrived \in 0..Len(line) /\ buf_tmp \in Seq(Nat)
      /\ arrived \in 0..arrived /\ Len(bytes) \in Nat /\ k \in Nat /\ arrived \in Nat
  BY DEF Reading
<1>3. pc = "search" /\ pc' \in {"search", "length"} /\ type' = type
  BY DEF Search
<1>4. CASE type = "TCP"
  <2>1. line' = Drop(line, k) /\ k \in 0..Len(line)
    BY <1>1, <1>2, <1>4, Taken, Zenon
  <2>2. <<>> \o line = line /\ <<>> \o line' = line'
    <3>1. line' \in Seq(Nat)
      BY <2>1, <1>2, Dropped, Zenon
    <3> QED
      BY <3>1, <1>2, ConcatEmptySeq
  <2>3. Pending = line /\ Pending' = line'
    BY <1>3, <1>4, <2>2 DEF Pending, Ahead
  <2>4. \A i \in 1..arrived : bytes[i] = line[i]
    BY <1>1, <1>2, <1>4, Kept, Zenon
  <2>5. \A i \in 1..k : line[i] # Header
    <3>1. \A i \in 1..k : i \in 1..arrived
      BY <1>1, <1>2, <1>4
    <3>2. \A i \in 1..k : bytes[i] # Header
      BY <1>1 DEF FirstHeader
    <3> QED
      BY <3>1, <3>2, <2>4
  <2> QED
    BY <2>1, <2>3, <2>5
<1>5. CASE type = "COM"
  <2> DEFINE rest == Drop(line, arrived)
  <2>1. line' = rest /\ rest \in Seq(Nat)
    BY <1>1, <1>2, <1>5, Taken, Zenon
  <2>2. Pending = bytes \o rest
    <3>1. (buf_tmp \o Keep(line, arrived)) \o Drop(line, arrived) = buf_tmp \o line
      BY <1>2, TakenOver, Zenon
    <3> QED
      BY <3>1, <1>1, <1>3, <1>5 DEF Pending, Ahead
  <2>3. Pending' = Drop(bytes, k) \o rest
    BY <1>1, <1>3, <1>5, <2>1 DEF Pending, Ahead
  <2> HIDE DEF rest
  <2>4. Drop(bytes \o rest, k) = Drop(bytes, k) \o rest
    BY <2>1, DropFront, Zenon
  <2>5. /\ Len(bytes \o rest) = Len(bytes) + Len(rest) /\ Len(rest) \in Nat
        /\ \A i \in 1..Len(bytes) : (bytes \o rest)[i] = bytes[i]
    BY <2>1, Concat, Zenon
  <2>6. k \in 0..Len(Pending)
    BY <2>2, <2>5, <1>2
  <2>7. \A i \in 1..k : Pending[i] # Header
    BY <2>2, <2>5, <1>1, <1>2 DEF FirstHeader
  <2> QED
    BY <2>2, <2>3, <2>4, <2>6, <2>7
<1> QED
  BY <1>4, <1>5 DEF Types

\* Where all that bcap_recv goes on from is used up.
LEMMA AheadUsedUp ==
  ASSUME Types, Reading, Ahead' = <<>>, line' = line
  PROVE  Len(Ahead) \in 0..Len(Pending) /\ Pending' = Drop(Pending, Len(Ahead))
<1>1. Ahead \in Seq(Nat) /\ line \in Seq(Nat)
  BY PendingType DEF Reading
<1>2. Drop(Ahead \o line, Len(Ahead)) = line
  BY <1>1, DropFirst, Zenon
<1>3. Pending' = <<>> \o line
  BY DEF Pending
<1>4. <<>> \o line = line
  BY <1>1, ConcatEmptySeq
<1>5. Len(Ahead) \in 0..Len(Pending)
  BY PendingType
<1> QED
  BY <1>2, <1>3, <1>4, <1>5 DEF Pending
-----------------------------------------------------------------------------
(***************************************************************************)
(* The packets among those bytes                                           *)
(***************************************************************************)

PlainBodies == {b \in Bodies : Plain(b)}

\* The n bytes of packet, counted from 0, are those of body.
IsPacket(kind, packet, n, body, plain) ==
    /\ n = Len(body) + (IF kind = "COM" THEN 4 ELSE 3)
    /\ packet[0] = Header /\ packet[1] = n
    /\ \A i \in 1..Len(body) : packet[i + 1] = body[i]
    /\ body \in plain => NoPacket(kind, packet, 1, n)

FramedBy(packets, size, at) ==
    /\ size \in [Nat -> Nat] /\ at \in [Nat -> Int]
    /\ Framed(type, packets, size, at, Pending, Len(Pending), Current, Len(sent))
    /\ \A n \in Current..Len(sent) :
         IsPacket(type, packets[n], size[n], sent[n], PlainBodies)

Frames == \E packets, size, at : FramedBy(packets, size, at)

\* None lost that was not sent; on COM one at a time.
InTurn ==
    /\ Current <= Len(sent) + 1
    /\ type = "COM" => Current >= Len(sent)

LEMMA PlainBodiesKept ==
  ASSUME type' = type
  PROVE  PlainBodies' = PlainBodies
  BY DEF PlainBodies, Plain, Packet, Ending, Sum, LenMin

LEMMA PacketSize ==
  ASSUME Types, InTurn, NEW packets, NEW size, NEW at, FramedBy(packets, size, at),
         NEW n \in Current..Len(sent)
  PROVE  /\ n \in Nat /\ n \in 1..Len(sent) /\ sent[n] \in Bodies /\ sent[n] \in Seq(Nat)
         /\ Len(sent[n]) \in Nat
         /\ size[n] \in Nat /\ size[n] >= 3 /\ size[n] = Len(sent[n]) + LenMin
         /\ type = "COM" => size[n] = Len(sent[n]) + 4
         /\ IsPacket(type, packets[n], size[n], sent[n], PlainBodies)
<1>1. n \in Nat /\ n \in 1..Len(sent)
  BY Counted
<1>2. sent[n] \in Bodies
  BY <1>1 DEF Types
<1>3. sent[n] \in Seq(Nat) /\ Len(sent[n]) \in Nat
  BY <1>2, Streams
<1>4. size[n] \in Nat /\ IsPacket(type, packets[n], size[n], sent[n], PlainBodies)
  BY <1>1 DEF FramedBy
<1>5. size[n] = Len(sent[n]) + (IF type = "COM" THEN 4 ELSE 3)
  BY <1>4 DEF IsPacket
<1>6. /\ size[n] >= 3 /\ size[n] = Len(sent[n]) + LenMin
      /\ type = "COM" => size[n] = Len(sent[n]) + 4
  <2> DEFINE L == Len(sent[n])
             z == size[n]
  <2>1. L \in Nat /\ z = L + (IF type = "COM" THEN 4 ELSE 3)
    BY <1>3, <1>5
  <2> HIDE DEF L, z
  <2>2. /\ z >= 3 /\ z = L + LenMin
        /\ type = "COM" => z = L + 4
    BY <2>1 DEF LenMin
  <2> QED
    BY <2>2 DEF L, z
<1> QED
  BY <1>1, <1>2, <1>3, <1>4, <1>6

\* A header that bcap_recv would take for the beginning of a packet is one.
LEMMA AtFront ==
  ASSUME Types, Reading, InTurn,
         NEW packets, NEW size, NEW at, FramedBy(packets, size, at),
         Len(Pending) >= 1, Pending[1] = Header,
         type = "COM" \/ Pending[2] >= 3
  PROVE  /\ at[Current] = 1 /\ Current <= Len(sent)
         /\ \A i \in 0 .. size[Current] - 1 : Pending[1 + i] = packets[Current][i]
         /\ size[Current] <= Len(Pending)
         /\ Current = Len(sent) => size[Current] = Len(Pending)
<1>a. /\ Current \in Nat /\ Current >= 1 /\ Len(sent) \in Nat
  BY Counted, Zenon
<1>b. Pending \in Seq(Nat) /\ Len(Pending) \in Nat
  BY PendingType
<1>c. at \in [Nat -> Int] /\ Current <= Len(sent) + 1 /\ size \in [Nat -> Nat]
  BY DEF FramedBy, InTurn
<1>1. /\ Current \in Nat /\ Current >= 1 /\ Len(sent) \in Nat /\ Len(Pending) \in Nat
      /\ at \in [Nat -> Int] /\ Current <= Len(sent) + 1 /\ size \in [Nat -> Nat]
  BY <1>a, <1>b, <1>c, Zenon
<1>2. /\ at[Current] >= 1 /\ at[Len(sent) + 1] = Len(Pending) + 1
      /\ NoPacket(type, Pending, 1, at[Current])
  BY DEF FramedBy, Framed
<1>3. at[Current] = 1
  <2> SUFFICES ASSUME at[Current] # 1 PROVE FALSE
    OBVIOUS
  <2> DEFINE a == at[Current]
  <2>a. a \in Int /\ a >= 1 /\ a # 1
    BY <1>1, <1>2
  <2> HIDE DEF a
  <2>b. 1 \in 1 .. a - 1
    BY <2>a
  <2>1. 1 \in 1 .. at[Current] - 1
    BY <2>b DEF a
  <2>2. type = "TCP" /\ Pending[1 + 1] < 3
    BY <1>2, <2>1 DEF NoPacket
  <2>3. Pending[2] \in Nat
    <3>1. 2 < at[Current]
      BY <1>2, <2>1 DEF NoPacket
    <3>2. at[Current] <= Len(Pending) + 1
      <4>1. Current \in Current .. Len(sent) + 1 /\ Len(sent) + 1 \in Current .. Len(sent) + 1
        BY <1>1
      <4> QED
        BY <4>1, <1>1, <1>2 DEF FramedBy, Framed
    <3>3. 2 \in 1..Len(Pending)
      BY <3>1, <3>2, <1>1
    <3> QED
      BY <3>3, PendingType
  <2> QED
    BY <2>2, <2>3
<1>4. Current <= Len(sent)
  <2>1. Current # Len(sent) + 1
    BY <1>1, <1>2, <1>3
  <2> DEFINE c == Current
             L == Len(sent)
  <2>2. c \in Nat /\ L \in Nat /\ c <= L + 1 /\ c # L + 1
    BY <2>1, <1>a, <1>c
  <2> HIDE DEF c, L
  <2>3. c <= L
    BY <2>2
  <2> QED
    BY <2>3 DEF c, L
<1>5. Current \in Current..Len(sent)
  BY <1>1, <1>4
<1>6. /\ PacketAt(Pending, at[Current], packets[Current], size[Current])
      /\ at[Current + 1] = at[Current] + size[Current]
  BY <1>5 DEF FramedBy, Framed
<1>7. \A i \in 0 .. size[Current] - 1 : Pending[1 + i] = packets[Current][i]
  BY <1>3, <1>6 DEF PacketAt
<1>8. at[Current + 1] <= Len(Pending) + 1
  <2>1. /\ Current + 1 \in Current .. Len(sent) + 1 /\ Len(sent) + 1 \in Current .. Len(sent) + 1
        /\ Current + 1 <= Len(sent) + 1
    BY <1>1, <1>4
  <2> QED
    BY <2>1, <1>2 DEF FramedBy, Framed
<1>9. size[Current] \in Nat
  BY <1>1
<1>10. Current = Len(sent) => size[Current] = Len(Pending)
  BY <1>1, <1>2, <1>3, <1>6, <1>9
<1> QED
  BY <1>1, <1>3, <1>4, <1>6, <1>7, <1>8, <1>9, <1>10

LEMMA FramesKept ==
  ASSUME Types, Frames, Pending' = Pending, UNCHANGED <<type, sent, got, lost>>
  PROVE  Frames'
<1>1. PlainBodies' = PlainBodies /\ Current' = Current
  BY PlainBodiesKept DEF Current
<1>2. PICK packets, size, at : FramedBy(packets, size, at)
  BY DEF Frames
<1>3. FramedBy(packets, size, at)'
  BY <1>1, <1>2 DEF FramedBy
<1> QED
  BY <1>3 DEF Frames

\* Junk is dropped.
LEMMA FramesJunk ==
  ASSUME Types, Reading, InTurn, UNCHANGED <<type, sent, got, lost>>,
         NEW packets, NEW size, NEW at, FramedBy(packets, size, at),
         NEW k \in 0..Len(Pending), k < at[Current], Pending' = Drop(Pending, k)
  PROVE  Frames'
<1>1. PlainBodies' = PlainBodies /\ Current' = Current
  BY PlainBodiesKept DEF Current
<1>2. /\ Current \in Nat /\ Len(sent) \in Nat /\ Len(Pending) \in Nat /\ k \in Nat
      /\ Current <= Len(sent) + 1 /\ Pending \in Seq(Nat)
      /\ size \in [Nat -> Nat] /\ at \in [Nat -> Int]
  <2>1. Current \in Nat /\ Len(sent) \in Nat
    BY Counted, Zenon
  <2>2. Pending \in Seq(Nat) /\ Len(Pending) \in Nat
    BY PendingType
  <2>3. at \in [Nat -> Int] /\ Current <= Len(sent) + 1 /\ size \in [Nat -> Nat]
    BY DEF FramedBy, InTurn
  <2>4. k \in Nat
    BY <2>2
  <2> QED
    BY <2>1, <2>2, <2>3, <2>4
<1>3. /\ Len(Pending') = Len(Pending) - k /\ Shifted(Pending, Pending', k, Len(Pending))
  BY <1>2, Dropped, Zenon DEF Shifted
<1>4. Framed(type, packets, size, at, Pending, Len(Pending), Current, Len(sent))
  BY DEF FramedBy
<1>5. Framed(type, packets, size, Moved(at, k), Pending', Len(Pending) - k, Current, Len(sent))
  BY <1>2, <1>3, <1>4, JunkDropped, Zenon
<1>6. Moved(at, k) \in [Nat -> Int]
  BY <1>2, MovedType
<1>7. FramedBy(packets, size, Moved(at, k))'
  BY <1>1, <1>2, <1>3, <1>5, <1>6 DEF FramedBy
<1> QED
  BY <1>7 DEF Frames

\* The next packet, or some of it, is dropped.
LEMMA FramesPacket ==
  ASSUME Types, Reading, InTurn, UNCHANGED <<type, sent>>, Current' = Current + 1,
         NEW packets, NEW size, NEW at, FramedBy(packets, size, at),
         at[Current] = 1, Current <= Len(sent),
         NEW k \in 1..size[Current], Pending' = Drop(Pending, k), k <= Len(Pending),
         k = size[Current] \/ sent[Current] \in PlainBodies
  PROVE  Frames'
<1>1. PlainBodies' = PlainBodies
  BY PlainBodiesKept
<1>2. /\ Current \in Nat /\ Len(sent) \in Nat /\ Len(Pending) \in Nat /\ k \in Nat
      /\ Current <= Len(sent) + 1 /\ Pending \in Seq(Nat)
      /\ size \in [Nat -> Nat] /\ at \in [Nat -> Int] /\ k <= size[Current] /\ 1 <= k
      /\ k \in 0..Len(Pending) /\ Current \in Current..Len(sent)
  <2>1. Current \in Nat /\ Len(sent) \in Nat
    BY Counted, Zenon
  <2>2. Pending \in Seq(Nat) /\ Len(Pending) \in Nat
    BY PendingType
  <2>3. at \in [Nat -> Int] /\ Current <= Len(sent) + 1 /\ size \in [Nat -> Nat]
    BY DEF FramedBy, InTurn
  <2>4. k \in Nat /\ k <= size[Current] /\ 1 <= k /\ k \in 0..Len(Pending)
    BY <2>1, <2>2, <2>3
  <2>5. Current \in Current..Len(sent)
    BY <2>1
  <2> QED
    BY <2>1, <2>2, <2>3, <2>4, <2>5
<1>3. /\ Len(Pending') = Len(Pending) - k /\ Shifted(Pending, Pending', k, Len(Pending))
  BY <1>2, Dropped, Zenon DEF Shifted
<1>4. Framed(type, packets, size, at, Pending, Len(Pending), Current, Len(sent))
  BY DEF FramedBy
<1>5. k = size[Current] \/ NoPacket(type, packets[Current], 1, size[Current])
  BY <1>2 DEF FramedBy, IsPacket
<1>6. Framed(type, packets, size, Moved(at, k), Pending', Len(Pending) - k, Current + 1,
             Len(sent))
  BY <1>2, <1>3, <1>4, <1>5, PacketDropped, Zenon
<1>7. Moved(at, k) \in [Nat -> Int]
  BY <1>2, MovedType
<1>8. \A n \in Current + 1 .. Len(sent) :
        IsPacket(type, packets[n], size[n], sent[n], PlainBodies)
  <2>1. \A n \in Current + 1 .. Len(sent) : n \in Current..Len(sent)
    BY <1>2
  <2> QED
    BY <2>1 DEF FramedBy
<1>9. FramedBy(packets, size, Moved(at, k))'
  BY <1>1, <1>2, <1>3, <1>6, <1>7, <1>8 DEF FramedBy
<1> QED
  BY <1>9 DEF Frames

\* The bytes of a packet.
LEMMA PacketBytes ==
  ASSUME Types, NEW body \in Bodies, NEW ending \in Seq(Nat), Len(ending) = LenMin - 2,
         Packet(body, ending) \in Seq(Nat)
  PROVE  /\ Len(body) \in Nat /\ LenMin \in {3, 4}
         /\ Len(Packet(body, ending)) = Len(body) + LenMin
         /\ Packet(body, ending)[1] = Header
         /\ Packet(body, ending)[2] = Len(body) + LenMin
         /\ \A i \in 1..Len(body) : Packet(body, ending)[i + 2] = body[i]
         /\ \A i \in 1 .. LenMin - 2 : Packet(body, ending)[Len(body) + 2 + i] = ending[i]
<1> DEFINE head == <<Header, Len(body) + LenMin>>
           front == head \o body
<1>1. body \in Seq(Nat) /\ Len(body) \in Nat /\ LenMin \in {3, 4}
  BY Streams DEF LenMin
<1>2. /\ head \in Seq(Nat) /\ Len(head) = 2
      /\ head[1] = Header /\ head[2] = Len(body) + LenMin
  BY <1>1 DEF Header
<1> HIDE DEF head
<1>3. /\ front \in Seq(Nat) /\ Len(front) = Len(head) + Len(body)
      /\ \A i \in 1..Len(head) : front[i] = head[i]
      /\ \A i \in 1..Len(body) : front[Len(head) + i] = body[i]
  BY <1>1, <1>2, Concat, Zenon
<1>4. Packet(body, ending) = front \o ending
  BY DEF Packet, head
<1> HIDE DEF front
<1>5. /\ Len(front \o ending) = Len(front) + Len(ending)
      /\ \A i \in 1..Len(front) : (front \o ending)[i] = front[i]
      /\ \A i \in 1..Len(ending) : (front \o ending)[Len(front) + i] = ending[i]
  BY <1>3, Concat, Zenon
<1> DEFINE p == Packet(body, ending)
<1>6. /\ Len(front) = 2 + Len(body) /\ Len(p) = Len(front) + Len(ending)
      /\ \A i \in 1..Len(front) : p[i] = front[i]
      /\ \A i \in 1..Len(ending) : p[Len(front) + i] = ending[i]
  BY <1>2, <1>3, <1>4, <1>5
<1> HIDE DEF p
<1>7. Len(p) = Len(body) + LenMin
  BY <1>1, <1>6
<1>8. p[1] = Header /\ p[2] = Len(body) + LenMin
  <2>1. 1 \in 1..Len(front) /\ 2 \in 1..Len(front)
    BY <1>1, <1>6
  <2> QED
    BY <2>1, <1>2, <1>3, <1>6
<1>9. ASSUME NEW i \in 1..Len(body) PROVE p[i + 2] = body[i]
  <2>1. i + 2 \in 1..Len(front) /\ i + 2 = Len(head) + i
    BY <1>1, <1>2, <1>6
  <2> QED
    BY <2>1, <1>3, <1>6
<1>10. \A i \in 1 .. LenMin - 2 : p[Len(body) + 2 + i] = ending[i]
  <2>1. Len(front) = Len(body) + 2
    BY <1>1, <1>6
  <2> QED
    BY <2>1, <1>6
<1> QED
  BY <1>1, <1>7, <1>8, <1>9, <1>10 DEF p

\* Of a Plain body none of the bytes but the first can be taken for the beginning
\* of a packet, spoilt or not.
LEMMA PlainPacket ==
  ASSUME Types, NEW body \in Bodies, Plain(body), NEW ending \in Seq(Nat),
         Len(ending) = LenMin - 2, Packet(body, ending) \in Seq(Nat),
         Packet(body, Ending(body)) \in Seq(Nat), Ending(body) \in Seq(Nat),
         type = "TCP" => ending = Ending(body),
         type = "COM" => ending \in {Ending(body), <<Spoilt(Sum(body)), Terminator>>,
                                     <<Sum(body), 0>>}
  PROVE  \A i \in 2 .. Len(body) + LenMin :
           Packet(body, ending)[i] = Header =>
             /\ type = "TCP" /\ i < Len(body) + LenMin
             /\ Packet(body, ending)[i + 1] < 3
<1> DEFINE p == Packet(body, ending)
           q == Packet(body, Ending(body))
<1>1. Len(Ending(body)) = LenMin - 2
  BY DEF Types, Ending, LenMin
<1>2. /\ Len(body) \in Nat /\ LenMin \in {3, 4} /\ Len(q) = Len(body) + LenMin
      /\ \A i \in 1..Len(body) : q[i + 2] = body[i]
      /\ \A i \in 1 .. LenMin - 2 : q[Len(body) + 2 + i] = Ending(body)[i]
      /\ q[2] = Len(body) + LenMin
  BY <1>1, PacketBytes, Zenon
<1>3. /\ \A i \in 1..Len(body) : p[i + 2] = body[i]
      /\ \A i \in 1 .. LenMin - 2 : p[Len(body) + 2 + i] = ending[i]
      /\ p[2] = Len(body) + LenMin
  BY PacketBytes, Zenon
<1> SUFFICES ASSUME NEW i \in 2 .. Len(body) + LenMin, p[i] = Header
             PROVE  type = "TCP" /\ i < Len(body) + LenMin /\ p[i + 1] < 3
  OBVIOUS
<1>4. CASE type = "TCP"
  <2>1. p = q /\ LenMin = 3
    BY <1>4 DEF LenMin
  <2>2. \A j \in 2 .. Len(q) - 1 : q[j] = Header => q[j + 1] < 3
    BY <1>4, <2>1 DEF Plain
  <2>3. q[Len(body) + 3] # Header
    <3>1. Ending(body)[1] = 4
      BY <1>4 DEF Ending, Terminator
    <3>2. q[Len(body) + 2 + 1] = Ending(body)[1] /\ Len(body) + 2 + 1 = Len(body) + 3
      BY <1>2, <2>1
    <3> QED
      BY <3>1, <3>2 DEF Header
  <2> HIDE DEF p, q
  <2>4. i # Len(body) + 3
    BY <2>1, <2>3
  <2>5. i \in 2 .. Len(q) - 1
    BY <2>1, <2>4, <1>2
  <2> QED
    BY <2>1, <2>2, <2>5, <1>2, <1>4
<1>5. CASE type = "COM"
  <2>1. LenMin = 4
    BY <1>5 DEF LenMin
  <2>2. (\A j \in 2..Len(q) : q[j] # Header) /\ Spoilt(Sum(body)) # Header
    BY <1>5 DEF Plain
  <2> HIDE DEF p, q
  <2>3. Sum(body) # Header
    <3>1. Ending(body)[1] = Sum(body)
      BY <1>5 DEF Ending
    <3>2. q[Len(body) + 2 + 1] = Ending(body)[1] /\ Len(body) + 2 + 1 \in 2..Len(q)
      BY <1>2, <2>1
    <3> QED
      BY <3>1, <3>2, <2>2
  <2>4. ending[1] # Header /\ ending[2] # Header
    BY <1>5, <2>2, <2>3 DEF Ending, Terminator, Header
  <2>5. CASE i = 2
    BY <2>2, <2>5, <1>2, <1>3
  <2>6. CASE i \in 3 .. Len(body) + 2
    <3>1. i - 2 \in 1..Len(body) /\ (i - 2) + 2 = i
      BY <2>6, <1>2
    <3>2. p[(i - 2) + 2] = body[i - 2] /\ q[(i - 2) + 2] = body[i - 2]
      BY <3>1, <1>2, <1>3
    <3>3. i \in 2..Len(q)
      <4>1. Len(q) = Len(body) + 4 /\ Len(body) \in Nat
        BY <2>1, <1>2
      <4> QED
        BY <4>1, <2>6
    <3> QED
      BY <3>1, <3>2, <3>3, <2>2
  <2>7. CASE i = Len(body) + 3 \/ i = Len(body) + 4
    <3>1. p[Len(body) + 2 + 1] = ending[1] /\ p[Len(body) + 2 + 2] = ending[2]
      BY <1>3, <2>1
    <3>2. Len(body) + 2 + 1 = Len(body) + 3 /\ Len(body) + 2 + 2 = Len(body) + 4
      BY <1>2
    <3> QED
      BY <3>1, <3>2, <2>4, <2>7
  <2>8. i = 2 \/ i \in 3 .. Len(body) + 2 \/ i = Len(body) + 3 \/ i = Len(body) + 4
    <3>1. i \in 2 .. Len(body) + 4 /\ Len(body) \in Nat
      BY <2>1, <1>2
    <3> QED
      BY <3>1
  <2> QED
    BY <2>5, <2>6, <2>7, <2>8
<1> QED
  BY <1>4, <1>5 DEF Types

LEMMA EndingBytes ==
  ASSUME Types, NEW body \in Bodies
  PROVE  Packet(body, Ending(body)) \in Seq(Nat) /\ Ending(body) \in Seq(Nat)
<1>1. body \in Seq(Nat) /\ Len(body) \in Nat
  BY Streams
<1>2. type = "COM" => Sum(body) \in Nat
  BY Streams DEF Sum, LenMin
<1>3. Ending(body) \in Seq(Nat)
  BY <1>2 DEF Ending, Terminator
<1>4. <<Header, Len(body) + LenMin>> \in Seq(Nat)
  BY <1>1 DEF Header, LenMin
<1>5. <<Header, Len(body) + LenMin>> \o body \in Seq(Nat)
  BY <1>1, <1>4, Concat, Zenon
<1> QED
  BY <1>3, <1>5, Concat, Zenon DEF Packet

\* A packet comes behind those there are.
LEMMA FramesSent ==
  ASSUME Types, Reading, InTurn, Frames, NEW body \in Bodies, bcap_send(body)
  PROVE  Frames'
<1>1. PICK noise \in Seq(Nat), ending \in Seq(Nat) :
        /\ line' = line \o (noise \o Packet(body, ending))
        /\ Packet(body, ending) \in Seq(Nat)
        /\ Len(ending) = LenMin - 2
        /\ type = "TCP" => noise = <<>> /\ ending = Ending(body)
        /\ type = "COM" => /\ Current > Len(sent) /\ Len(body) + LenMin <= LenMax
                           /\ \A i \in 1..Len(noise) : noise[i] # Header
                           /\ ending \in {Ending(body), <<Spoilt(Sum(body)), Terminator>>,
                                          <<Sum(body), 0>>}
  BY SentBytes, Zenon
<1>2. PICK packets, size, at : FramedBy(packets, size, at)
  BY DEF Frames
<1> DEFINE P == Packet(body, ending)
           more == noise \o P
           N == Len(Pending)
           last == Len(sent)
<1>3. /\ UNCHANGED <<type, got, lost>> /\ sent' = Append(sent, body)
      /\ Ahead' = Ahead /\ Current' = Current /\ PlainBodies' = PlainBodies
  BY PlainBodiesKept DEF bcap_send, Ahead, Current
<1>4. /\ Len(body) \in Nat /\ LenMin \in {3, 4} /\ Len(P) = Len(body) + LenMin
      /\ P[1] = Header /\ P[2] = Len(body) + LenMin
      /\ \A i \in 1..Len(body) : P[i + 2] = body[i]
  BY <1>1, PacketBytes, Zenon
<1>5. /\ more \in Seq(Nat) /\ Len(noise) \in Nat /\ Len(P) \in Nat
      /\ Len(more) = Len(noise) + Len(P)
      /\ \A i \in 1..Len(noise) : more[i] = noise[i]
      /\ \A i \in 1..Len(P) : more[Len(noise) + i] = P[i]
  BY <1>1, Concat, Zenon
<1>6. Pending' = Pending \o more
  <2>1. Ahead \in Seq(Nat) /\ line \in Seq(Nat)
    BY PendingType DEF Reading
  <2> HIDE DEF more
  <2>2. (Ahead \o line) \o more = Ahead \o (line \o more)
    BY <2>1, <1>5, ConcatAssociative, SMTT(30)
  <2>3. Pending' = Ahead' \o line' /\ line' = line \o more
    BY <1>1 DEF Pending, more
  <2> QED
    BY <2>2, <2>3, <1>3 DEF Pending
<1>7. Pending \in Seq(Nat) /\ N \in Nat
  BY PendingType
<1>8. /\ Len(Pending \o more) = N + Len(more)
      /\ \A i \in 1..N : (Pending \o more)[i] = Pending[i]
      /\ \A i \in 1..Len(more) : (Pending \o more)[N + i] = more[i]
  <2> HIDE DEF more
  <2> QED
    BY <1>5, <1>7, Concat, Zenon
<1> HIDE DEF more
<1> DEFINE t == Pending'
<1>9. /\ Len(t) = N + Len(noise) + Len(P)
      /\ \A i \in 1..N : t[i] = Pending[i]
      /\ \A i \in 1..Len(noise) + Len(P) : t[N + i] = more[i]
  BY <1>5, <1>6, <1>7, <1>8
<1> HIDE DEF t, N, P
<1>10. \A i \in 1..Len(noise) : t[N + i] = noise[i]
  <2>1. \A i \in 1..Len(noise) : i \in 1..Len(noise) + Len(P)
    BY <1>5
  <2> QED
    BY <2>1, <1>5, <1>9
<1>11. \A i \in 1..Len(P) : t[N + Len(noise) + i] = P[i]
  <2> SUFFICES ASSUME NEW i \in 1..Len(P) PROVE t[N + Len(noise) + i] = P[i]
    OBVIOUS
  <2>1. Len(noise) + i \in 1..Len(noise) + Len(P) /\ N + (Len(noise) + i) = N + Len(noise) + i
    BY <1>5, <1>7
  <2> QED
    BY <2>1, <1>5, <1>9
<1>12. /\ Current \in Nat /\ Current >= 1 /\ last \in Nat /\ Current <= last + 1
       /\ last + 1 \in Nat
  BY Counted DEF InTurn
<1>13. /\ Len(sent') = last + 1 /\ sent'[last + 1] = body
       /\ \A n \in 1..last : sent'[n] = sent[n]
  BY <1>3 DEF Types
<1> HIDE DEF last
<1>14. /\ size \in [Nat -> Nat] /\ at \in [Nat -> Int]
       /\ Framed(type, packets, size, at, Pending, N, Current, last)
       /\ \A n \in Current..last : IsPacket(type, packets[n], size[n], sent[n], PlainBodies)
  BY <1>2 DEF FramedBy, N, last
<1>a. PICK packets2 : packets2 = [n \in Nat |-> IF n = last + 1 THEN [i \in Nat |-> P[i + 1]]
                                                              ELSE packets[n]]
  OBVIOUS
<1>b. PICK size2 : size2 = [n \in Nat |-> IF n = last + 1 THEN Len(P) ELSE size[n]]
  OBVIOUS
<1>15. /\ size2 \in [Nat -> Nat]
       /\ size2[last + 1] = Len(P) /\ packets2[last + 1] = [i \in Nat |-> P[i + 1]]
       /\ \A n \in Current..last : packets2[n] = packets[n] /\ size2[n] = size[n]
  <2>1. \A n \in Current..last : n \in Nat /\ n # last + 1
    BY <1>12
  <2>2. \A n \in Current..last : packets2[n] = packets[n] /\ size2[n] = size[n]
    BY <1>a, <1>b, <2>1
  <2>3. size2 \in [Nat -> Nat]
    BY <1>b, <1>5, <1>14
  <2> QED
    BY <2>2, <2>3, <1>12, <1>a, <1>b
<1>16. NoPacket(type, t, N + 1, N + Len(noise) + 1)
  <2>1. CASE type = "TCP"
    <3>1. Len(noise) = 0
      BY <1>1, <2>1
    <3> QED
      BY <3>1, <1>7 DEF NoPacket
  <2>2. CASE type = "COM"
    <3> SUFFICES ASSUME NEW j \in N + 1 .. N + Len(noise) PROVE t[j] # Header
      BY <1>5, <1>7 DEF NoPacket
    <3>1. j - N \in 1..Len(noise) /\ N + (j - N) = j
      BY <1>5, <1>7
    <3>2. t[N + (j - N)] = noise[j - N] /\ noise[j - N] # Header
      BY <3>1, <1>1, <1>10, <2>2
    <3> QED
      BY <3>1, <3>2
  <2> QED
    BY <2>1, <2>2 DEF Types
<1>17. Len(noise) = 0 \/ Current = last + 1
  <2>1. CASE type = "TCP"
    BY <1>1, <2>1
  <2>2. CASE type = "COM"
    BY <1>1, <1>12, <2>2 DEF last
  <2> QED
    BY <2>1, <2>2 DEF Types
<1>18. PacketAt(t, N + Len(noise) + 1, packets2[last + 1], size2[last + 1])
  <2> SUFFICES ASSUME NEW i \in 0 .. Len(P) - 1 PROVE t[N + Len(noise) + 1 + i] = P[i + 1]
    BY <1>5, <1>15 DEF PacketAt
  <2>1. i + 1 \in 1..Len(P) /\ N + Len(noise) + (i + 1) = N + Len(noise) + 1 + i
    BY <1>5, <1>7
  <2> QED
    BY <2>1, <1>11
<1>19. PICK to \in [Nat -> Int] :
         Framed(type, packets2, size2, to, t, N + Len(noise) + size2[last + 1], Current,
                last + 1)
  <2>1. /\ N \in Nat /\ Len(noise) \in Nat /\ Current \in Nat /\ last \in Nat
        /\ Current <= last + 1
        /\ size \in [Nat -> Nat] /\ at \in [Nat -> Int] /\ size2 \in [Nat -> Nat]
    BY <1>5, <1>7, <1>12, <1>14, <1>15
  <2>2. Framed(type, packets, size, at, Pending, N, Current, last)
    BY <1>14
  <2>3. Extended(Pending, t, N)
    BY <1>9 DEF Extended
  <2>4. SamePackets(packets, size, packets2, size2, Current, last)
    BY <1>15 DEF SamePackets
  <2>5. NoiseAlone(Len(noise), Current, last)
    BY <1>17 DEF NoiseAlone
  <2> QED
    BY <2>1, <2>2, <2>3, <2>4, <2>5, <1>16, <1>18, PacketSent, ZenonT(60)
<1>20. ASSUME NEW n \in Current .. last + 1
       PROVE  IsPacket(type, packets2[n], size2[n], sent'[n], PlainBodies)
  <2>1. CASE n \in Current..last
    <3>1. n \in 1..last
      BY <2>1, <1>12
    <3> QED
      BY <2>1, <3>1, <1>13, <1>14, <1>15
  <2>2. CASE n = last + 1
    <3> DEFINE p == [i \in Nat |-> P[i + 1]]
    <3>1. /\ p[0] = Header /\ p[1] = Len(P) /\ Len(P) = Len(body) + LenMin
          /\ \A i \in 1..Len(body) : p[i + 1] = body[i]
      <4>1. p[0] = P[0 + 1] /\ p[1] = P[1 + 1] /\ 0 + 1 = 1 /\ 1 + 1 = 2
        OBVIOUS
      <4>2. ASSUME NEW i \in 1..Len(body) PROVE p[i + 1] = body[i]
        <5>1. i + 1 \in Nat /\ (i + 1) + 1 = i + 2
          BY <1>4
        <5> QED
          BY <5>1, <1>4
      <4> QED
        BY <4>1, <4>2, <1>4
    <3>2. body \in PlainBodies => NoPacket(type, p, 1, Len(P))
      <4> SUFFICES ASSUME Plain(body), NEW j \in 1 .. Len(P) - 1, p[j] = Header
                   PROVE  type = "TCP" /\ j + 1 < Len(P) /\ p[j + 1] < 3
        BY DEF NoPacket, PlainBodies
      <4>1. j \in Nat /\ j + 1 \in 2 .. Len(body) + LenMin /\ j + 1 \in Nat
        BY <1>4
      <4>2. P[j + 1] = Header
        BY <4>1
      <4>3. Packet(body, Ending(body)) \in Seq(Nat) /\ Ending(body) \in Seq(Nat)
        BY EndingBytes
      <4>4. type = "TCP" /\ j + 1 < Len(body) + LenMin /\ P[(j + 1) + 1] < 3
        BY <4>1, <4>2, <4>3, <1>1, PlainPacket DEF P
      <4> QED
        BY <4>1, <4>4, <1>4
    <3>3. IsPacket(type, p, Len(P), body, PlainBodies)
      BY <3>1, <3>2 DEF IsPacket, LenMin
    <3> QED
      BY <3>3, <2>2, <1>13, <1>15
  <2> QED
    BY <2>1, <2>2, <1>12
<1>21. FramedBy(packets2, size2, to)'
  <2>1. N + Len(noise) + size2[last + 1] = Len(t)
    BY <1>9, <1>15
  <2>2. Framed(type, packets2, size2, to, t, Len(t), Current, last + 1)
    BY <1>19, <2>1
  <2>3. /\ type' = type /\ Current' = Current /\ Len(sent') = last + 1
        /\ PlainBodies' = PlainBodies
    BY <1>3, <1>13
  <2>4. Framed(type', packets2, size2, to, t, Len(t), Current', Len(sent'))
    BY <2>2, <2>3
  <2>5. Framed(type', packets2, size2, to, Pending', Len(Pending'), Current', Len(sent'))
    BY <2>4 DEF t
  <2>6. \A n \in Current' .. Len(sent') :
          IsPacket(type', packets2[n], size2[n], sent'[n], PlainBodies')
    BY <2>3, <1>20
  <2>7. size2 \in [Nat -> Nat] /\ to \in [Nat -> Int]
    BY <1>15
  <2> QED
    BY <2>5, <2>6, <2>7 DEF FramedBy
<1> QED
  BY <1>21 DEF Frames
-----------------------------------------------------------------------------
(***************************************************************************)
(* Where bcap_recv is among the packets                                    *)
(***************************************************************************)

\* What is read as a packet is the next one.
LEMMA BodyFront ==
  ASSUME Types, Reading, InTurn,
         NEW packets, NEW size, NEW at, FramedBy(packets, size, at), pc = "body"
  PROVE  /\ at[Current] = 1 /\ Current <= Len(sent) /\ size[Current] = len_recv
         /\ size[Current] <= Len(Pending)
         /\ \A i \in 1..Len(buf_recv) : buf_recv[i] = packets[Current][i - 1]
<1>1. /\ Ahead = buf_recv /\ Len(buf_recv) \in 2..len_recv /\ len_recv \in Nat
      /\ len_recv >= 3 /\ buf_recv[1] = Header /\ buf_recv[2] = len_recv
  BY DEF Reading, Ahead, LenMin
<1>2. /\ Len(Pending) = Len(buf_recv) + Len(line) /\ Len(line) \in Nat
      /\ \A i \in 1..Len(buf_recv) : Pending[i] = buf_recv[i]
  BY <1>1, PendingType
<1>3. Len(Pending) >= 1 /\ Pending[1] = Header /\ Pending[2] = len_recv /\ Pending[2] >= 3
  BY <1>1, <1>2
<1>4. /\ at[Current] = 1 /\ Current <= Len(sent)
      /\ \A i \in 0 .. size[Current] - 1 : Pending[1 + i] = packets[Current][i]
      /\ size[Current] <= Len(Pending)
  BY <1>3, AtFront, Zenon
<1>5. Current \in Current..Len(sent)
  BY <1>4, Counted
<1>6. /\ size[Current] \in Nat /\ size[Current] >= 3
      /\ IsPacket(type, packets[Current], size[Current], sent[Current], PlainBodies)
  BY <1>5, PacketSize
<1>7. size[Current] = len_recv
  <2>1. Pending[1 + 1] = packets[Current][1]
    BY <1>4, <1>6
  <2>2. packets[Current][1] = size[Current]
    BY <1>6 DEF IsPacket
  <2> QED
    BY <2>1, <2>2, <1>3
<1>8. ASSUME NEW i \in 1..Len(buf_recv) PROVE buf_recv[i] = packets[Current][i - 1]
  <2>1. i - 1 \in 0 .. size[Current] - 1 /\ 1 + (i - 1) = i
    BY <1>1, <1>7
  <2> QED
    BY <2>1, <1>2, <1>4
<1> QED
  BY <1>4, <1>7, <1>8

\* So are the bytes that the search has kept on COM, where no other follows.
LEMMA ComFront ==
  ASSUME Types, Reading, InTurn, type = "COM", pc \in {"search", "length"}, buf_tmp # <<>>,
         NEW packets, NEW size, NEW at, FramedBy(packets, size, at)
  PROVE  /\ at[Current] = 1 /\ Current = Len(sent) /\ Ahead = buf_tmp
         /\ Len(buf_tmp) \in 1..size[Current] /\ size[Current] = Len(Pending)
         /\ Len(buf_tmp) >= 2 => buf_tmp[2] = size[Current]
<1>1. Ahead = buf_tmp /\ buf_tmp \in Seq(Nat) /\ buf_tmp[1] = Header
  BY DEF Reading, Ahead
<1>2. Len(buf_tmp) \in Nat /\ Len(buf_tmp) >= 1
  BY <1>1, EmptySeq
<1>3. /\ Len(Pending) = Len(buf_tmp) + Len(line) /\ Len(line) \in Nat
      /\ \A i \in 1..Len(buf_tmp) : Pending[i] = buf_tmp[i]
  BY <1>1, PendingType
<1>4. Len(Pending) >= 1 /\ Pending[1] = Header
  BY <1>1, <1>2, <1>3
<1>5. /\ at[Current] = 1 /\ Current <= Len(sent)
      /\ \A i \in 0 .. size[Current] - 1 : Pending[1 + i] = packets[Current][i]
      /\ Current = Len(sent) => size[Current] = Len(Pending)
  BY <1>4, AtFront, Zenon
<1>6. Current = Len(sent) /\ Current \in Current..Len(sent)
  BY <1>5, Counted DEF InTurn
<1>7. size[Current] = Len(Pending)
  BY <1>5, <1>6
<1>8. /\ size[Current] \in Nat /\ size[Current] >= 3
      /\ IsPacket(type, packets[Current], size[Current], sent[Current], PlainBodies)
  BY <1>6, PacketSize
<1>9. ASSUME Len(buf_tmp) >= 2 PROVE buf_tmp[2] = size[Current]
  <2>1. Pending[1 + 1] = packets[Current][1]
    BY <1>5, <1>8
  <2>2. packets[Current][1] = size[Current]
    BY <1>8 DEF IsPacket
  <2>3. Pending[2] = buf_tmp[2]
    BY <1>2, <1>3, <1>9
  <2> QED
    BY <2>1, <2>2, <2>3
<1>10. Len(buf_tmp) \in 1..size[Current]
  BY <1>2, <1>3, <1>7
<1> QED
  BY <1>1, <1>5, <1>6, <1>7, <1>9, <1>10

\* The search drops none of the next packet.
LEMMA SearchedBefore ==
  ASSUME Types, Reading, InTurn,
         NEW packets, NEW size, NEW at, FramedBy(packets, size, at),
         NEW k \in 0..Len(Pending), \A i \in 1..k : Pending[i] # Header
  PROVE  k < at[Current]
<1>1. /\ Current \in Nat /\ Len(sent) \in Nat /\ Current <= Len(sent) + 1
      /\ Len(Pending) \in Nat /\ k \in Nat /\ k <= Len(Pending)
  BY Counted, PendingType DEF InTurn
<1>2. at[Current] \in Int /\ at[Current] >= 1 /\ at[Len(sent) + 1] = Len(Pending) + 1
  BY <1>1 DEF FramedBy, Framed
<1>3. CASE Current = Len(sent) + 1
  BY <1>1, <1>2, <1>3
<1>4. CASE Current \in Current..Len(sent)
  <2>1. /\ size[Current] \in Nat /\ size[Current] >= 3
        /\ IsPacket(type, packets[Current], size[Current], sent[Current], PlainBodies)
    BY <1>4, PacketSize
  <2>2. PacketAt(Pending, at[Current], packets[Current], size[Current])
    BY <1>4 DEF FramedBy, Framed
  <2>3. Pending[at[Current] + 0] = Header
    <3>1. 0 \in 0 .. size[Current] - 1
      BY <2>1
    <3> QED
      BY <3>1, <2>1, <2>2 DEF PacketAt, IsPacket
  <2>4. Pending[at[Current]] = Header
    BY <2>3, <1>2
  <2> QED
    BY <2>4, <1>1, <1>2
<1> QED
  BY <1>1, <1>3, <1>4

\* bcap_recv skips no header of a packet.
LEMMA SkippedBefore ==
  ASSUME Types, Reading, InTurn, Fitting, SkipHeader,
         NEW packets, NEW size, NEW at, FramedBy(packets, size, at)
  PROVE  /\ 1 \in 0..Len(Pending) /\ 1 < at[Current] /\ Pending' = Drop(Pending, 1)
<1>0. /\ pc = "length" /\ ~LengthFits(buf_tmp[2]) /\ buf_tmp \in Seq(Nat)
      /\ Len(buf_tmp) >= 2 /\ buf_tmp[2] \in Nat /\ Len(buf_tmp) \in Nat
  BY DEF SkipHeader, Reading
<1>1. type = "TCP"
  <2> SUFFICES ASSUME type = "COM" PROVE FALSE
    BY DEF Types
  <2>1. buf_tmp # <<>>
    BY <1>0
  <2>2. Current = Len(sent) /\ buf_tmp[2] = size[Current]
    BY <2>1, <1>0, ComFront
  <2>3. Current \in Current..Len(sent)
    BY <2>2, Counted
  <2>4. Current \in 1..Len(sent) /\ size[Current] = Len(sent[Current]) + 4
        /\ Len(sent[Current]) \in Nat
    BY <2>3, PacketSize
  <2>5. Len(sent[Current]) + 4 <= LenMax
    BY <2>4 DEF Fitting
  <2> QED
    BY <2>2, <2>4, <2>5, <1>0 DEF LengthFits, LenMin
<1>2. /\ line \in Seq(Nat) /\ arrived \in 0..Len(line) /\ arrived >= 2 /\ line[1] = Header
      /\ line[2] = buf_tmp[2] /\ Len(line) \in Nat
  BY <1>0, <1>1 DEF Reading
<1>3. Pending = line /\ Len(line) >= 2 /\ 1 \in 0..arrived
  <2>1. <<>> \o line = line
    BY <1>2, ConcatEmptySeq
  <2> QED
    BY <2>1, <1>0, <1>1, <1>2 DEF Pending, Ahead
<1>4. Take(1) /\ pc' = "search" /\ type' = type
  BY <1>1 DEF SkipHeader
<1>5. line' = Drop(line, 1) /\ line' \in Seq(Nat)
  BY <1>2, <1>3, <1>4, Taken, Zenon
<1>6. Pending' = Drop(Pending, 1)
  <2>1. <<>> \o line' = line'
    BY <1>5, ConcatEmptySeq
  <2> QED
    BY <2>1, <1>1, <1>3, <1>4, <1>5 DEF Pending, Ahead
<1>7. 1 < at[Current]
  <2>1. /\ Current \in Nat /\ Len(sent) \in Nat /\ Current <= Len(sent) + 1
    BY Counted DEF InTurn
  <2>2. at[Current] \in Int /\ at[Current] >= 1 /\ at[Len(sent) + 1] = Len(Pending) + 1
    BY <2>1 DEF FramedBy, Framed
  <2>3. CASE Current = Len(sent) + 1
    BY <2>2, <2>3, <1>2, <1>3
  <2>4. CASE Current \in Current..Len(sent)
    <3> SUFFICES ASSUME at[Current] = 1 PROVE FALSE
      BY <2>2
    <3>1. /\ size[Current] \in Nat /\ size[Current] >= 3
          /\ IsPacket(type, packets[Current], size[Current], sent[Current], PlainBodies)
      BY <2>4, PacketSize
    <3>2. PacketAt(Pending, at[Current], packets[Current], size[Current])
      BY <2>4 DEF FramedBy, Framed
    <3>3. Pending[1 + 1] = size[Current]
      <4>1. 1 \in 0 .. size[Current] - 1
        BY <3>1
      <4> QED
        BY <4>1, <3>1, <3>2 DEF PacketAt, IsPacket
    <3> QED
      BY <3>1, <3>3, <1>0, <1>1, <1>2, <1>3 DEF LengthFits, LenMin
  <2> QED
    BY <2>1, <2>3, <2>4
<1> QED
  BY <1>2, <1>3, <1>6, <1>7

\* On COM nothing comes behind the packet that would be dropped with it.
LEMMA ComLengthRead ==
  ASSUME Types, Reading, InTurn, Frames, type = "COM", Length
  PROVE  Pending' = Pending
<1>1. PICK packets, size, at : FramedBy(packets, size, at)
  BY DEF Frames
<1>2. PICK n \in Nat : BytesOfLength(n)
  BY LengthRead
<1>3. /\ pc = "length" /\ pc' = "body" /\ len_recv' = buf_tmp[2]
      /\ buf_tmp \in Seq(Nat) /\ Len(buf_tmp) >= 2 /\ Len(buf_tmp) \in Nat
      /\ buf_recv' = Keep(buf_tmp, n) /\ line' = line
      /\ n = Len(buf_tmp) \/ (n = len_recv' /\ n < Len(buf_tmp))
  BY <1>2 DEF BytesOfLength, Reading
<1>4. /\ Len(buf_tmp) \in 1..size[Current] /\ size[Current] = Len(Pending)
      /\ buf_tmp[2] = size[Current]
  <2>1. buf_tmp # <<>>
    BY <1>3
  <2> QED
    BY <2>1, <1>1, <1>3, ComFront
<1>5. n = Len(buf_tmp)
  BY <1>3, <1>4
<1>6. Keep(buf_tmp, n) = buf_tmp
  <2>1. n \in 0..Len(buf_tmp)
    BY <1>3, <1>5
  <2>2. /\ Keep(buf_tmp, n) \in Seq(Nat) /\ Len(Keep(buf_tmp, n)) = n
        /\ \A i \in 1..n : Keep(buf_tmp, n)[i] = buf_tmp[i]
    BY <2>1, <1>3, Kept, Zenon
  <2> QED
    BY <2>2, <1>3, <1>5, Same
<1> QED
  BY <1>3, <1>6 DEF Pending, Ahead

\* A packet that is decoded, or cannot be, is the next one, and all of it is used.
LEMMA WholePacket ==
  ASSUME Types, Reading, InTurn, Decoded \/ NotDecoded,
         NEW packets, NEW size, NEW at, FramedBy(packets, size, at)
  PROVE  /\ at[Current] = 1 /\ Current <= Len(sent)
         /\ size[Current] \in 1..size[Current] /\ size[Current] <= Len(Pending)
         /\ Pending' = Drop(Pending, size[Current])
         /\ BodyOf(buf_recv) = sent[Current]
<1>1. /\ pc = "body" /\ Len(buf_recv) = len_recv /\ pc' \in {"call", "search"}
      /\ buf_tmp' = <<>> /\ buf_recv' = <<>> /\ UNCHANGED <<type, line>>
  BY DEF Decoded, NotDecoded
<1>2. /\ at[Current] = 1 /\ Current <= Len(sent) /\ size[Current] = len_recv
      /\ size[Current] <= Len(Pending)
      /\ \A i \in 1..Len(buf_recv) : buf_recv[i] = packets[Current][i - 1]
  BY <1>1, BodyFront, Zenon
<1>3. Current \in Current..Len(sent)
  BY <1>2, Counted
<1>4. /\ sent[Current] \in Seq(Nat) /\ Len(sent[Current]) \in Nat
      /\ size[Current] \in Nat /\ size[Current] >= 3
      /\ size[Current] = Len(sent[Current]) + LenMin
      /\ IsPacket(type, packets[Current], size[Current], sent[Current], PlainBodies)
  BY <1>3, PacketSize
<1>5. Ahead = buf_recv /\ Ahead' = <<>>
  BY <1>1 DEF Ahead
<1>6. Pending' = Drop(Pending, Len(buf_recv))
  BY <1>1, <1>5, AheadUsedUp
<1>7. BodyOf(buf_recv) = sent[Current]
  <2>1. buf_recv \in Seq(Nat) /\ Len(buf_recv) >= LenMin /\ LenMin \in {3, 4}
    BY <1>1 DEF Reading, LenMin
  <2>2. /\ BodyOf(buf_recv) \in Seq(Nat)
        /\ Len(BodyOf(buf_recv)) = Len(buf_recv) - LenMin
        /\ \A i \in 1..Len(buf_recv) - LenMin : BodyOf(buf_recv)[i] = buf_recv[i + 2]
    BY <2>1, BodyTaken, Zenon
  <2>3. Len(buf_recv) - LenMin = Len(sent[Current])
    BY <2>1, <1>1, <1>2, <1>4
  <2>4. ASSUME NEW i \in 1..Len(sent[Current]) PROVE BodyOf(buf_recv)[i] = sent[Current][i]
    <3>1. i + 2 \in 1..Len(buf_recv) /\ (i + 2) - 1 = i + 1
      BY <2>1, <2>3, <1>4
    <3>2. buf_recv[i + 2] = packets[Current][i + 1]
      BY <3>1, <1>2
    <3>3. packets[Current][i + 1] = sent[Current][i]
      BY <1>4 DEF IsPacket
    <3> QED
      BY <3>2, <3>3, <2>2, <2>3
  <2> DEFINE b == BodyOf(buf_recv)
             p == sent[Current]
  <2>5. /\ b \in Seq(Nat) /\ p \in Seq(Nat) /\ Len(b) = Len(p)
        /\ \A i \in 1..Len(b) : b[i] = p[i]
    BY <2>2, <2>3, <2>4, <1>4
  <2> HIDE DEF b, p
  <2>6. b = p
    BY <2>5, Same, Zenon
  <2> QED
    BY <2>6 DEF b, p
<1>8. size[Current] \in 1..size[Current]
  BY <1>4
<1>9. Pending' = Drop(Pending, size[Current])
  BY <1>1, <1>2, <1>6
<1> QED
  BY <1>2, <1>7, <1>8, <1>9

\* What a timeout throws away is the front of the next packet.
LEMMA CutPacket ==
  ASSUME Types, Reading, InTurn, Timeout,
         pc = "body" \/ (type = "COM" /\ buf_tmp # <<>>),
         NEW packets, NEW size, NEW at, FramedBy(packets, size, at)
  PROVE  /\ at[Current] = 1 /\ Current <= Len(sent)
         /\ Len(Ahead) \in 1..size[Current] /\ Len(Ahead) <= Len(Pending)
         /\ Pending' = Drop(Pending, Len(Ahead))
<1>1. /\ pc \in {"search", "body"} /\ pc' = "call" /\ Ahead' = <<>> /\ line' = line
  BY DEF Timeout, Ahead
<1>2. Len(Ahead) <= Len(Pending) /\ Pending' = Drop(Pending, Len(Ahead))
  <2>1. Len(Ahead) \in 0..Len(Pending) /\ Pending' = Drop(Pending, Len(Ahead))
    BY <1>1, AheadUsedUp
  <2> QED
    BY <2>1
<1>3. CASE pc = "body"
  <2>1. at[Current] = 1 /\ Current <= Len(sent) /\ size[Current] = len_recv
    BY <1>3, BodyFront, Zenon
  <2>2. Ahead = buf_recv /\ Len(buf_recv) \in 2..len_recv /\ len_recv \in Nat
    BY <1>3 DEF Reading, Ahead
  <2> QED
    BY <2>1, <2>2, <1>2
<1>4. CASE pc = "search" /\ type = "COM" /\ buf_tmp # <<>>
  <2>1. /\ at[Current] = 1 /\ Current = Len(sent) /\ Ahead = buf_tmp
        /\ Len(buf_tmp) \in 1..size[Current]
    BY <1>4, ComFront
  <2>2. Current <= Len(sent)
    BY <2>1, Counted
  <2> QED
    BY <2>1, <2>2, <1>2
<1> QED
  BY <1>1, <1>3, <1>4

\* Otherwise nothing is thrown away.
LEMMA NothingCut ==
  ASSUME Types, Reading, Timeout, ~(pc = "body" \/ (type = "COM" /\ buf_tmp # <<>>))
  PROVE  Pending' = Pending /\ UNCHANGED <<type, sent, got, lost>>
<1>1. pc = "search" /\ (type = "COM" => buf_tmp = <<>>)
  BY DEF Timeout
<1>2. pc' = "call" /\ buf_tmp' = <<>> /\ UNCHANGED <<type, sent, line, got, lost>>
  BY <1>1 DEF Timeout
<1> QED
  BY <1>1, <1>2 DEF Pending, Ahead
-----------------------------------------------------------------------------
(***************************************************************************)
(* What was returned                                                       *)
(***************************************************************************)

LostBefore(n) == {m \in lost : m < n}

\* Packet n, unless lost, comes after those before it that were not.
Delivered ==
  /\ lost \subseteq 1 .. Current - 1
  /\ \A n \in 1 .. Current - 1 :
       n \notin lost =>
         /\ n - Cardinality(LostBefore(n)) \in 1..Len(got)
         /\ got[n - Cardinality(LostBefore(n))] = sent[n]

LEMMA DeliveredKept ==
  ASSUME Types, InTurn, Delivered, UNCHANGED <<got, lost>>,
         \A n \in 1..Len(sent) : sent'[n] = sent[n]
  PROVE  Delivered' /\ Current' = Current
<1>1. Current' = Current /\ \A n : LostBefore(n)' = LostBefore(n)
  BY DEF Current, LostBefore
<1>2. \A n \in 1 .. Current - 1 : n \in 1..Len(sent)
  BY Counted DEF InTurn
<1> QED
  BY <1>1, <1>2 DEF Delivered

LEMMA DeliveredNext ==
  ASSUME Types, Delivered, UNCHANGED <<sent, lost>>, got' = Append(got, sent[Current]),
         sent[Current] \in Seq(Nat)
  PROVE  Delivered' /\ Current' = Current + 1
<1>1. /\ Len(got) \in Nat /\ Cardinality(lost) \in Nat /\ Current \in Nat /\ Current >= 1
      /\ Current = Len(got) + Cardinality(lost) + 1 /\ got \in Seq(Seq(Nat))
  BY Counted DEF Current, Types
<1>2. /\ Len(got') = Len(got) + 1 /\ got'[Len(got) + 1] = sent[Current]
      /\ \A i \in 1..Len(got) : got'[i] = got[i]
  BY <1>1
<1>3. Current' = Current + 1
  BY <1>1, <1>2 DEF Current
<1>4. \A n : LostBefore(n)' = LostBefore(n)
  BY DEF LostBefore
<1>a. lost \subseteq 1 .. Current - 1
  BY DEF Delivered
<1>5. LostBefore(Current) = lost
  <2>1. \A m \in lost : m < Current
    BY <1>1, <1>a
  <2> QED
    BY <2>1 DEF LostBefore
<1>6. lost' \subseteq 1 .. Current' - 1
  BY <1>1, <1>3, <1>a
<1>7. ASSUME NEW n \in 1 .. Current' - 1, n \notin lost'
      PROVE  /\ n - Cardinality(LostBefore(n)') \in 1..Len(got')
             /\ got'[n - Cardinality(LostBefore(n)')] = sent'[n]
  <2>1. CASE n = Current
    <3>1. n - Cardinality(LostBefore(n)') = Len(got) + 1
      BY <2>1, <1>1, <1>4, <1>5
    <3> QED
      BY <3>1, <2>1, <1>1, <1>2
  <2>2. CASE n \in 1 .. Current - 1
    <3> DEFINE i == n - Cardinality(LostBefore(n))
    <3>1. i \in 1..Len(got) /\ got[i] = sent[n]
      BY <2>2, <1>7 DEF Delivered
    <3>2. n - Cardinality(LostBefore(n)') = i
      BY <1>4
    <3> HIDE DEF i
    <3>3. i \in 1..Len(got') /\ got'[i] = sent'[n]
      BY <3>1, <1>1, <1>2
    <3> QED
      BY <3>2, <3>3
  <2> QED
    BY <2>1, <2>2, <1>1, <1>3
<1> QED
  BY <1>3, <1>6, <1>7 DEF Delivered

LEMMA DeliveredBut ==
  ASSUME Types, Delivered, UNCHANGED <<sent, got>>, lost' = lost \cup {Current}
  PROVE  Delivered' /\ Current' = Current + 1
<1>1. /\ Len(got) \in Nat /\ Cardinality(lost) \in Nat /\ Current \in Nat /\ Current >= 1
      /\ Current = Len(got) + Cardinality(lost) + 1
  BY Counted DEF Current
<1>2. Current \notin lost
  BY <1>1 DEF Delivered
<1>3. Cardinality(lost') = Cardinality(lost) + 1
  BY <1>2, FS_AddElement DEF Types
<1>4. Current' = Current + 1
  BY <1>1, <1>3 DEF Current
<1>5. \A n \in 1 .. Current - 1 : LostBefore(n)' = LostBefore(n)
  <2> SUFFICES ASSUME NEW n \in 1 .. Current - 1 PROVE LostBefore(n)' = LostBefore(n)
    OBVIOUS
  <2>1. ~(Current < n)
    BY <1>1
  <2> QED
    BY <2>1 DEF LostBefore
<1>6. lost' \subseteq 1 .. Current' - 1
  <2>1. lost \subseteq 1 .. Current - 1
    BY DEF Delivered
  <2>2. \A m \in lost \cup {Current} : m \in 1 .. (Current + 1) - 1
    BY <2>1, <1>1
  <2> QED
    BY <2>2, <1>4
<1>7. ASSUME NEW n \in 1 .. Current' - 1, n \notin lost'
      PROVE  /\ n - Cardinality(LostBefore(n)') \in 1..Len(got')
             /\ got'[n - Cardinality(LostBefore(n)')] = sent'[n]
  <2>1. n \in 1 .. Current - 1 /\ n \notin lost
    BY <1>1, <1>4, <1>7
  <2> QED
    BY <2>1, <1>5 DEF Delivered
<1> QED
  BY <1>4, <1>6, <1>7 DEF Delivered
-----------------------------------------------------------------------------
(***************************************************************************)
(* The steps                                                               *)
(***************************************************************************)

\* What the packets are like as long as no rest of one is taken for another.
Orderly == Frames /\ InTurn /\ Delivered

LEMMA SendStep ==
  ASSUME Types, Reading, Orderly, NEW body \in Bodies, bcap_send(body)
  PROVE  Orderly'
<1>1. Frames'
  BY FramesSent, Zenon DEF Orderly
<1>2. /\ sent' = Append(sent, body) /\ UNCHANGED <<type, got, lost>>
      /\ type = "COM" => Current > Len(sent)
  BY DEF bcap_send
<1>3. /\ Len(sent) \in Nat /\ Len(sent') = Len(sent) + 1
      /\ \A n \in 1..Len(sent) : sent'[n] = sent[n]
  BY <1>2 DEF Types
<1>4. Delivered' /\ Current' = Current
  BY <1>2, <1>3, DeliveredKept DEF Orderly
<1>5. InTurn'
  BY <1>2, <1>3, <1>4, Counted DEF InTurn, Orderly
<1> QED
  BY <1>1, <1>4, <1>5 DEF Orderly

\* Reading and searching change nothing of what was sent and returned.
LEMMA QuietStep ==
  ASSUME Types, Reading, Fitting, Orderly,
         Arrive \/ Call \/ Search \/ SkipHeader \/ Length \/ Body \/ UNCHANGED vars
  PROVE  Orderly' /\ UNCHANGED <<type, sent, got, lost>>
<1>0. Frames /\ InTurn /\ Delivered
  BY DEF Orderly
<1>a. type = "TCP" \/ type = "COM"
  BY DEF Types
<1>1. UNCHANGED <<type, sent, got, lost>>
  BY DEF Arrive, Call, Search, SkipHeader, Length, Body, vars
<1>2. Delivered' /\ Current' = Current
  BY <1>0, <1>1, DeliveredKept
<1>3. InTurn'
  BY <1>0, <1>1, <1>2 DEF InTurn
<1>4. PICK packets, size, at : FramedBy(packets, size, at)
  BY <1>0 DEF Frames
<1>5. ASSUME Arrive \/ Call \/ Body \/ (Length /\ type = "TCP") \/ UNCHANGED vars PROVE Frames'
  <2>1. Pending' = Pending
    BY <1>5, PendingKept
  <2> QED
    BY <2>1, <1>0, <1>1, FramesKept
<1>6. ASSUME Length /\ type = "COM" PROVE Frames'
  <2>1. Pending' = Pending
    BY <1>0, <1>6, ComLengthRead
  <2> QED
    BY <2>1, <1>0, <1>1, FramesKept
<1>7. ASSUME Search PROVE Frames'
  <2>1. PICK k \in 0..Len(Pending) :
          Pending' = Drop(Pending, k) /\ \A i \in 1..k : Pending[i] # Header
    BY <1>7, PendingSearched
  <2>2. k < at[Current]
    BY <2>1, <1>0, <1>4, SearchedBefore, Zenon
  <2> QED
    BY <2>1, <2>2, <1>0, <1>1, <1>4, FramesJunk, Zenon
<1>8. ASSUME SkipHeader PROVE Frames'
  <2>1. 1 \in 0..Len(Pending) /\ 1 < at[Current] /\ Pending' = Drop(Pending, 1)
    BY <1>0, <1>4, <1>8, SkippedBefore, Zenon
  <2> QED
    BY <2>1, <1>0, <1>1, <1>4, FramesJunk, Zenon
<1>9. Frames'
  BY <1>5, <1>6, <1>7, <1>8, <1>a
<1> QED
  BY <1>1, <1>2, <1>3, <1>9 DEF Orderly

LEMMA NextInTurn ==
  ASSUME Types, InTurn, UNCHANGED <<type, sent>>, Current <= Len(sent), Current' = Current + 1
  PROVE  InTurn'
BY Counted DEF InTurn

\* A packet that was read whole is returned, or lost.
LEMMA WholeStep ==
  ASSUME Types, Reading, Orderly, Decoded \/ NotDecoded
  PROVE  /\ Orderly' /\ Current <= Len(sent) /\ UNCHANGED <<type, sent>>
         /\ \/ got' = Append(got, sent[Current]) /\ lost' = lost
            \/ lost' = lost \cup {Current} /\ got' = got
<1>0. Frames /\ InTurn /\ Delivered
  BY DEF Orderly
<1>1. PICK packets, size, at : FramedBy(packets, size, at)
  BY <1>0 DEF Frames
<1>2. /\ at[Current] = 1 /\ Current <= Len(sent)
      /\ size[Current] \in 1..size[Current] /\ size[Current] <= Len(Pending)
      /\ Pending' = Drop(Pending, size[Current])
      /\ BodyOf(buf_recv) = sent[Current]
  BY <1>0, <1>1, WholePacket, Zenon
<1>3. /\ UNCHANGED <<type, sent>>
      /\ \/ got' = Append(got, sent[Current]) /\ lost' = lost
         \/ lost' = lost \cup {Current} /\ got' = got
  BY <1>2 DEF Decoded, NotDecoded
<1>4. sent[Current] \in Seq(Nat)
  <2>1. Current \in Current..Len(sent)
    BY <1>2, Counted
  <2> QED
    BY <2>1, <1>0, <1>1, PacketSize
<1>5. Delivered' /\ Current' = Current + 1
  BY <1>0, <1>3, <1>4, DeliveredNext, DeliveredBut, Zenon
<1>6. InTurn'
  BY <1>0, <1>2, <1>3, <1>5, NextInTurn
<1>7. Frames'
  <2> DEFINE k == size[Current]
  <2>1. /\ k \in 1..size[Current] /\ k <= Len(Pending) /\ Pending' = Drop(Pending, k)
        /\ k = size[Current] \/ sent[Current] \in PlainBodies
    BY <1>2
  <2> HIDE DEF k
  <2> QED
    BY <2>1, <1>0, <1>1, <1>2, <1>3, <1>5, FramesPacket, Zenon
<1> QED
  BY <1>2, <1>3, <1>5, <1>6, <1>7 DEF Orderly

\* A timeout loses the packet of which something was read, if any.
LEMMA TimeoutStep ==
  ASSUME Types, Reading, Orderly, Timeout
  PROVE  /\ UNCHANGED <<type, sent, got>>
         /\ \/ lost' = lost /\ Orderly'
            \/ /\ Current <= Len(sent) /\ lost' = lost \cup {Current}
               /\ sent[Current] \in PlainBodies => Orderly'
<1>0. Frames /\ InTurn /\ Delivered
  BY DEF Orderly
<1>1. UNCHANGED <<type, sent, got>>
  BY DEF Timeout
<1>2. CASE ~(pc = "body" \/ (type = "COM" /\ buf_tmp # <<>>))
  <2>1. Pending' = Pending /\ UNCHANGED <<type, sent, got, lost>>
    BY <1>2, NothingCut
  <2>2. Frames'
    BY <2>1, <1>0, FramesKept
  <2>3. Delivered' /\ Current' = Current
    BY <2>1, <1>0, DeliveredKept
  <2>4. InTurn'
    BY <2>1, <2>3, <1>0 DEF InTurn
  <2> QED
    BY <2>1, <2>2, <2>3, <2>4 DEF Orderly
<1>3. CASE pc = "body" \/ (type = "COM" /\ buf_tmp # <<>>)
  <2>1. PICK packets, size, at : FramedBy(packets, size, at)
    BY <1>0 DEF Frames
  <2>2. /\ at[Current] = 1 /\ Current <= Len(sent)
        /\ Len(Ahead) \in 1..size[Current] /\ Len(Ahead) <= Len(Pending)
        /\ Pending' = Drop(Pending, Len(Ahead))
    BY <2>1, <1>0, <1>3, CutPacket, Zenon
  <2>3. lost' = lost \cup {Current}
    BY <1>3 DEF Timeout
  <2>4. Delivered' /\ Current' = Current + 1
    BY <2>3, <1>0, <1>1, DeliveredBut
  <2>5. InTurn'
    BY <2>2, <2>4, <1>0, <1>1, NextInTurn
  <2>6. ASSUME sent[Current] \in PlainBodies PROVE Frames'
    BY <2>1, <2>2, <2>4, <2>6, <1>0, <1>1, FramesPacket, Zenon
  <2> QED
    BY <2>2, <2>3, <2>4, <2>5, <2>6, <1>1 DEF Orderly
<1> QED
  BY <1>1, <1>2, <1>3

\* Once a packet was lost and one may mislead, it stays so.
LEMMA SafeBefore ==
  ASSUME Types, [Next]_vars, Safe'
  PROVE  Safe
<1>1. type' = type /\ lost \subseteq lost'
  BY DEF Next, bcap_send, Arrive, Call, Search, SkipHeader, Length, Body, Decoded, NotDecoded,
         Timeout, vars
<1>2. \A n \in DOMAIN sent : n \in DOMAIN sent' /\ sent'[n] = sent[n]
  <2>1. ASSUME NEW body \in Bodies, sent' = Append(sent, body)
        PROVE  \A n \in DOMAIN sent : n \in DOMAIN sent' /\ sent'[n] = sent[n]
    BY <2>1 DEF Types
  <2>2. CASE sent' = sent
    BY <2>2
  <2>3. sent' = sent \/ \E body \in Bodies : sent' = Append(sent, body)
    BY DEF Next, bcap_send, Arrive, Call, Search, SkipHeader, Length, Body, Decoded,
           NotDecoded, Timeout, vars
  <2> QED
    BY <2>1, <2>2, <2>3
<1>3. CASE lost' = {}
  BY <1>1, <1>3 DEF Safe
<1>4. CASE lost' # {}
  <2> SUFFICES ASSUME NEW n \in DOMAIN sent PROVE Plain(sent[n])
    BY DEF Safe
  <2>1. n \in DOMAIN sent' /\ sent'[n] = sent[n]
    BY <1>2
  <2>2. Plain(sent[n])'
    BY <1>4, <2>1 DEF Safe
  <2> QED
    BY <2>1, <2>2, <1>1 DEF Plain, Packet, Ending, Sum, LenMin
<1> QED
  BY <1>3, <1>4
-----------------------------------------------------------------------------
(***************************************************************************)
(* The theorems                                                            *)
(***************************************************************************)

\* The inductive invariant: types, what bcap_recv knows of the bytes it has read,
\* and, as long as nothing misleads it, where the packets are among the bytes that
\* are not used up and that those used up were returned, or lost.
IInv == Types /\ Reading /\ Fitting /\ (Safe => Orderly)

LEMMA IInvInit ==
  ASSUME Init
  PROVE  IInv
<1>1. /\ Types /\ Reading /\ Fitting
  <2>1. Types
    BY Streams, FS_EmptySet DEF Init, Types
  <2>2. Reading
    BY DEF Init, Reading
  <2> QED
    BY <2>1, <2>2 DEF Init, Fitting
<1>2. Cardinality({}) = 0 /\ Current = 1 /\ Len(sent) = 0 /\ lost = {}
  <2>1. Cardinality({}) = 0
    BY FS_EmptySet
  <2> QED
    BY <2>1 DEF Init, Current
<1>3. InTurn
  BY <1>2 DEF InTurn
<1>4. Delivered
  BY <1>2 DEF Delivered
<1>5. Frames
  <2>1. PICK packets, size, at : size = [n \in Nat |-> 0] /\ at = [n \in Nat |-> 1]
    OBVIOUS
  <2>2. size \in [Nat -> Nat] /\ at \in [Nat -> Int] /\ at[1] = 1
    BY <2>1
  <2>3. Pending = <<>> /\ Len(Pending) = 0
    BY DEF Init, Pending, Ahead
  <2>4. Framed(type, packets, size, at, Pending, 0, 1, 0)
    BY <2>2 DEF Framed, NoPacket
  <2>5. FramedBy(packets, size, at)
    BY <1>2, <2>2, <2>3, <2>4 DEF FramedBy
  <2> QED
    BY <2>5 DEF Frames
<1> QED
  BY <1>1, <1>3, <1>4, <1>5 DEF IInv, Orderly

LEMMA IInvNext ==
  ASSUME IInv, [Next]_vars
  PROVE  IInv'
<1>1. Types /\ Reading /\ Fitting /\ (Safe => Orderly)
  BY DEF IInv
<1>2. Types' /\ Reading' /\ Fitting'
  BY <1>1, TypesStep, ReadingStep, FittingStep
<1>3. ASSUME Safe' PROVE Orderly'
  <2>0. Orderly
    BY <1>1, <1>3, SafeBefore
  <2>1. ASSUME NEW body \in Bodies, bcap_send(body) PROVE Orderly'
    BY <2>0, <2>1, <1>1, SendStep
  <2>2. CASE Arrive \/ Call \/ Search \/ SkipHeader \/ Length \/ Body \/ UNCHANGED vars
    BY <2>0, <2>2, <1>1, QuietStep
  <2>3. CASE Decoded \/ NotDecoded
    BY <2>0, <2>3, <1>1, WholeStep
  <2>4. CASE Timeout
    <3>1. \/ Orderly'
          \/ /\ Current <= Len(sent) /\ lost' = lost \cup {Current} /\ UNCHANGED <<type, sent>>
             /\ sent[Current] \in PlainBodies => Orderly'
      BY <2>0, <2>4, <1>1, TimeoutStep
    <3>2. ASSUME Current <= Len(sent), lost' = lost \cup {Current}, UNCHANGED <<type, sent>>
          PROVE  sent[Current] \in PlainBodies
      <4>1. Current \in DOMAIN sent /\ sent[Current] \in Bodies
        BY <1>1, <3>2, Counted DEF Types
      <4>2. Plain(sent[Current])
        BY <1>3, <3>2, <4>1 DEF Safe, Plain, Packet, Ending, Sum, LenMin
      <4> QED
        BY <4>1, <4>2 DEF PlainBodies
    <3> QED
      BY <3>1, <3>2
  <2> QED
    BY <2>1, <2>2, <2>3, <2>4 DEF Next
<1> QED
  BY <1>2, <1>3 DEF IInv

THEOREM Invariance == Spec => []IInv
<1>1. Init => IInv
  BY IInvInit
<1>2. IInv /\ [Next]_vars => IInv'
  BY IInvNext
<1> QED
  BY <1>1, <1>2, PTL DEF Spec

\* bcap_recv keeps to its buffers and counts: in every state the variables have
\* their types, and no more bytes have arrived than were sent.
THEOREM TypeCorrect == Spec => []TypeOK
<1>1. IInv => TypeOK
  BY DEF IInv, Types, Reading, TypeOK
<1> QED
  BY <1>1, Invariance, PTL

\* Whatever is sent, however it arrives, and whichever receives time out between
\* two bytes, what bcap_recv returns is in order what was sent without the packets
\* that were lost, as long as no rest of a cut packet can be taken for a packet.
THEOREM PacketsInOrder == Spec => []OthersIntact
<1>1. IInv => OthersIntact
  BY DEF IInv, Orderly, InTurn, Delivered, LostBefore, OthersIntact
<1> QED
  BY <1>1, Invariance, PTL
-----------------------------------------------------------------------------
(***************************************************************************)
(* The channel                                                             *)
(***************************************************************************)

LEMMA ChannelInit ==
  ASSUME Init
  PROVE  Channel!Init
BY DEF Init, Channel!Init

LEMMA ChannelNext ==
  ASSUME IInv, [Next]_vars
  PROVE  [Channel!Next]_(Channel!vars)
<1>1. Types /\ Reading /\ Fitting /\ (Safe => Orderly)
  BY DEF IInv
<1>2. type' = type /\ lost \subseteq lost'
  BY DEF Next, bcap_send, Arrive, Call, Search, SkipHeader, Length, Body, Decoded, NotDecoded,
         Timeout, vars
<1>3. {b \in Bodies : ~Plain(b)}' = {b \in Bodies : ~Plain(b)}
  BY <1>2 DEF Plain, Packet, Ending, Sum, LenMin
<1>a. Channel!Coming = Current
  <2>1. Channel!Cardinality(lost) = Cardinality(lost)
    BY DEF Channel!Cardinality, Cardinality
  <2> QED
    BY <2>1 DEF Channel!Coming, Current
<1>4. ASSUME NEW body \in Bodies, bcap_send(body) PROVE Channel!Send(body)
  BY <1>3, <1>4 DEF bcap_send, Channel!Send
<1>5. CASE ~Safe /\ UNCHANGED sent
  <2>1. lost # {} /\ \E n \in DOMAIN sent : sent[n] \in {b \in Bodies : ~Plain(b)}
    BY <1>1, <1>5 DEF Safe, Types
  <2>2. Channel!Misled
    BY <2>1, <1>2, <1>3, <1>5 DEF Channel!Misled
  <2> QED
    BY <2>2 DEF Channel!Next
<1>6. CASE Safe /\ (Decoded \/ NotDecoded)
  <2>1. /\ Current <= Len(sent) /\ UNCHANGED sent
        /\ \/ got' = Append(got, sent[Current]) /\ lost' = lost
           \/ lost' = lost \cup {Current} /\ got' = got
    BY <1>1, <1>6, WholeStep
  <2>2. Channel!Deliver \/ Channel!Lose
    BY <2>1, <1>3, <1>a DEF Channel!Deliver, Channel!Lose
  <2> QED
    BY <2>2 DEF Channel!Next
<1>7. CASE Safe /\ Timeout
  <2>1. /\ UNCHANGED <<sent, got>>
        /\ lost' = lost \/ (Current <= Len(sent) /\ lost' = lost \cup {Current})
    BY <1>1, <1>7, TimeoutStep
  <2>2. Channel!Lose \/ UNCHANGED Channel!vars
    BY <2>1, <1>3, <1>a DEF Channel!Lose, Channel!vars
  <2> QED
    BY <2>2 DEF Channel!Next
<1>8. CASE Arrive \/ Call \/ Search \/ SkipHeader \/ Length \/ Body \/ UNCHANGED vars
  <2>1. UNCHANGED <<sent, got, lost>>
    BY <1>8 DEF Arrive, Call, Search, SkipHeader, Length, Body, vars
  <2> QED
    BY <2>1, <1>3 DEF Channel!vars
<1>9. Decoded \/ NotDecoded \/ Timeout => UNCHANGED sent
  BY DEF Decoded, NotDecoded, Timeout
<1> QED
  BY <1>4, <1>5, <1>6, <1>7, <1>8, <1>9 DEF Next, Channel!Next

\* bcap_send and bcap_recv over a stream of bytes implement a channel that keeps
\* the order: each step of theirs sends a packet, returns or loses the next one,
\* or is none of the channel's.
THEOREM KeepsOrder == Spec => ImplementsChannel
<1>1. Init => Channel!Init
  BY ChannelInit
<1>2. IInv /\ [Next]_vars => [Channel!Next]_(Channel!vars)
  BY ChannelNext
<1> QED
  BY <1>1, <1>2, Invariance, PTL DEF Spec, ImplementsChannel, Channel!Spec
=============================================================================
