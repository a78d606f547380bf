-------------------------- MODULE NetkitEventsProofs --------------------------
(***************************************************************************)
(* What netkit-ipv6 prints, proved for any number of CPUs, any frames and  *)
(* any size of the ring.                                                   *)
(***************************************************************************)
EXTENDS HookPrograms, SequenceTheorems, TLAPS

BothEnds == {"primary", "peer"}
LineType ==
  [dir : BothEnds, src : [1 .. 16 -> Octet], dst : [1 .. 16 -> Octet],
   next : Octet, len : Nat, ttl : Octet]

-----------------------------------------------------------------------------
(* The record and the line it becomes *)

(* Where the elements of a concatenation come from.                        *)
LEMMA Joined ==
  \A S : \A a, b \in Seq(S) :
     /\ a \o b \in Seq(S) /\ Len(a \o b) = Len(a) + Len(b)
     /\ \A i \in 1 .. Len(a) : (a \o b)[i] = a[i]
     /\ \A i \in 1 .. Len(b) : (a \o b)[Len(a) + i] = b[i]
BY ConcatProperties

(* Two addresses of 16 bytes, one byte, two and two: their lengths, and    *)
(* where each part is in the whole.                                        *)
PartLengths(a, b, c, e, g) ==
  Len(a) = 16 /\ Len(b) = 16 /\ Len(c) = 1 /\ Len(e) = 2 /\ Len(g) = 2

Parts(s, a, b, c, e, g) ==
  /\ Len(s) = 37
  /\ \A i \in 1 .. 16 : s[i] = a[i] /\ s[16 + i] = b[i]
  /\ s[33] = c[1] /\ s[34] = e[1] /\ s[35] = e[2]
  /\ s[36] = g[1] /\ s[37] = g[2]

LEMMA FiveParts ==
  ASSUME NEW S, NEW a \in Seq(S), NEW b \in Seq(S),
         NEW c \in Seq(S), NEW e \in Seq(S), NEW g \in Seq(S),
         PartLengths(a, b, c, e, g)
  PROVE  /\ a \o b \o c \o e \o g \in Seq(S)
         /\ Parts(a \o b \o c \o e \o g, a, b, c, e, g)
<1>0. Len(a) = 16 /\ Len(b) = 16 /\ Len(c) = 1 /\ Len(e) = 2 /\ Len(g) = 2
  BY DEF PartLengths
<1> DEFINE x2 == a \o b
           x3 == x2 \o c
           x4 == x3 \o e
           x5 == x4 \o g
<1>1. /\ x2 \in Seq(S) /\ Len(x2) = 32
      /\ \A i \in 1 .. 16 : x2[i] = a[i]
      /\ \A i \in 1 .. 16 : x2[16 + i] = b[i]
  <2>1. /\ x2 \in Seq(S) /\ Len(x2) = Len(a) + Len(b)
        /\ \A i \in 1 .. Len(a) : x2[i] = a[i]
        /\ \A i \in 1 .. Len(b) : x2[Len(a) + i] = b[i]
    BY Joined, SMT
  <2> HIDE DEF x2
  <2> QED
    BY <1>0, <2>1
<1> HIDE DEF x2
<1>2. /\ x3 \in Seq(S) /\ Len(x3) = 33
      /\ \A i \in 1 .. 32 : x3[i] = x2[i]
      /\ \A i \in 1 .. 1 : x3[32 + i] = c[i]
  <2>0. x2 \in Seq(S)
    BY <1>1
  <2>1. /\ x3 \in Seq(S) /\ Len(x3) = Len(x2) + Len(c)
        /\ \A i \in 1 .. Len(x2) : x3[i] = x2[i]
        /\ \A i \in 1 .. Len(c) : x3[Len(x2) + i] = c[i]
    BY <2>0, Joined, SMT
  <2> HIDE DEF x3
  <2> QED
    BY <1>0, <1>1, <2>1
<1> HIDE DEF x3
<1>3. /\ x4 \in Seq(S) /\ Len(x4) = 35
      /\ \A i \in 1 .. 33 : x4[i] = x3[i]
      /\ \A i \in 1 .. 2 : x4[33 + i] = e[i]
  <2>0. x3 \in Seq(S)
    BY <1>2
  <2>1. /\ x4 \in Seq(S) /\ Len(x4) = Len(x3) + Len(e)
        /\ \A i \in 1 .. Len(x3) : x4[i] = x3[i]
        /\ \A i \in 1 .. Len(e) : x4[Len(x3) + i] = e[i]
    BY <2>0, Joined, SMT
  <2> HIDE DEF x4
  <2> QED
    BY <1>0, <1>2, <2>1
<1> HIDE DEF x4
<1>4. /\ x5 \in Seq(S) /\ Len(x5) = 37
      /\ \A i \in 1 .. 35 : x5[i] = x4[i]
      /\ \A i \in 1 .. 2 : x5[35 + i] = g[i]
  <2>0. x4 \in Seq(S)
    BY <1>3
  <2>1. /\ x5 \in Seq(S) /\ Len(x5) = Len(x4) + Len(g)
        /\ \A i \in 1 .. Len(x4) : x5[i] = x4[i]
        /\ \A i \in 1 .. Len(g) : x5[Len(x4) + i] = g[i]
    BY <2>0, Joined, SMT
  <2> HIDE DEF x5
  <2> QED
    BY <1>0, <1>3, <2>1
<1> HIDE DEF x5
<1>5. ASSUME NEW i \in 1 .. 32 PROVE x5[i] = x2[i]
  <2>1. i \in 1 .. 33 /\ i \in 1 .. 35
    OBVIOUS
  <2>2. x5[i] = x4[i] /\ x4[i] = x3[i] /\ x3[i] = x2[i]
    BY <1>2, <1>3, <1>4, <2>1
  <2> QED
    BY <2>2
<1>6. ASSUME NEW i \in 1 .. 16 PROVE x5[i] = a[i] /\ x5[16 + i] = b[i]
  <2>1. i \in 1 .. 32 /\ 16 + i \in 1 .. 32
    OBVIOUS
  <2>2. x5[16 + i] = x2[16 + i] /\ x5[i] = x2[i]
    BY <1>5, <2>1
  <2> QED
    BY <1>1, <2>2
<1>7. x5[33] = c[1]
  <2>1. x5[33] = x4[33] /\ x4[33] = x3[33] /\ x3[32 + 1] = c[1]
    BY <1>2, <1>3, <1>4
  <2> QED
    BY <2>1
<1>8. x5[34] = e[1] /\ x5[35] = e[2]
  <2>1. x5[34] = x4[34] /\ x5[35] = x4[35]
    BY <1>4
  <2>2. x4[33 + 1] = e[1] /\ x4[33 + 2] = e[2]
    BY <1>3
  <2> QED
    BY <2>1, <2>2
<1>9. x5[36] = g[1] /\ x5[37] = g[2]
  <2>1. x5[35 + 1] = g[1] /\ x5[35 + 2] = g[2]
    BY <1>4
  <2> QED
    BY <2>1
<1>10. x5 \in Seq(S) /\ Parts(x5, a, b, c, e, g)
  BY <1>4, <1>6, <1>7, <1>8, <1>9 DEF Parts
<1> QED
  BY <1>10, Zenon DEF x5, x4, x3, x2

(* Short sequences, and those of sixteen. *)
LEMMA FunctionIsSeq ==
  ASSUME NEW S, NEW n \in Nat, NEW w \in [1 .. n -> S]
  PROVE  w \in Seq(S) /\ Len(w) = n
<1>1. w \in Seq(S)
  BY SeqDef
<1>2. Len(w) \in Nat /\ DOMAIN w = 1 .. Len(w)
  BY <1>1, LenProperties
<1>3. DOMAIN w = 1 .. n
  OBVIOUS
<1>4. ASSUME NEW k \in Nat, NEW m \in Nat, 1 .. k = 1 .. m PROVE k = m
  BY <1>4
<1> QED
  BY <1>1, <1>2, <1>3, <1>4, Zenon

LEMMA SixteenLong ==
  ASSUME NEW S, NEW w \in [1 .. 16 -> S]
  PROVE  w \in Seq(S) /\ Len(w) = 16
<1> DEFINE n == 16
<1>1. n \in Nat
  OBVIOUS
<1>2. w \in [1 .. n -> S]
  OBVIOUS
<1> HIDE DEF n
<1>3. w \in Seq(S) /\ Len(w) = n
  BY <1>1, <1>2, FunctionIsSeq, Zenon
<1> QED
  BY <1>3 DEF n

LEMMA ShortSeq ==
  ASSUME NEW S, NEW p \in S, NEW q \in S
  PROVE  /\ <<p>> \in Seq(S) /\ Len(<<p>>) = 1 /\ <<p>>[1] = p
         /\ <<p, q>> \in Seq(S) /\ Len(<<p, q>>) = 2 /\ <<p, q>>[1] = p /\ <<p, q>>[2] = q
OBVIOUS

(* The two addresses, cut out of the record. *)
BeginsWith(s, v, w) == \A i \in 1 .. 16 : s[i] = v[i] /\ s[16 + i] = w[i]

LEMMA TwoSlices ==
  ASSUME NEW S, NEW s \in Seq(S),
         NEW v \in [1 .. 16 -> S], NEW w \in [1 .. 16 -> S], BeginsWith(s, v, w)
  PROVE  SubSeq(s, 1, 16) = v /\ SubSeq(s, 17, 32) = w
<1>1. SubSeq(s, 1, 16) = [i \in 1 .. 16 |-> s[i]]
  OBVIOUS
<1>2. SubSeq(s, 17, 32) = [i \in 1 .. 16 |-> s[16 + i]]
  OBVIOUS
<1>3. SubSeq(s, 1, 16) = v
  BY <1>1 DEF BeginsWith
<1>4. SubSeq(s, 17, 32) = w
  BY <1>2 DEF BeginsWith
<1> QED
  BY <1>3, <1>4

(* A number below 2^16 and its two halves. *)
Halves(n, p, q) ==
  n \in Nat /\ p \in 0 .. 255 /\ q \in 0 .. 255 /\ p + 256 * q = n

LEMMA TwoBytes ==
  ASSUME NEW x \in 0 .. 255, NEW y \in 0 .. 255
  PROVE  Halves(x * 256 + y, (x * 256 + y) % 256, (x * 256 + y) \div 256)
<1> DEFINE n == x * 256 + y
<1>1. n \in Nat /\ n <= 65535
  OBVIOUS
<1>2. n % 256 = y
  OBVIOUS
<1>3. n \div 256 = x
  OBVIOUS
<1> QED
  BY <1>1, <1>2, <1>3 DEF Halves

(* Each field at the offset that the packed struct gives it.               *)
Fields(s, f, d) ==
  /\ s \in Seq(Octet) /\ Len(s) = 37
  /\ \A i \in 1 .. 16 : s[i] = f.saddr[i] /\ s[16 + i] = f.daddr[i]
  /\ s[33] = f.nexthdr /\ s[36] = f.hop_limit /\ s[37] = d
  /\ Halves(f.payload_len[1] * 256 + f.payload_len[2], s[34], s[35])

LEMMA EventBytes ==
  ASSUME NEW f \in FrameType, NEW d \in Octet
  PROVE  Fields(Event(f, d), f, d)
<1> DEFINE x == f.payload_len[1]
           y == f.payload_len[2]
           n == x * 256 + y
           p == n % 256
           q == n \div 256
           a == f.saddr
           b == f.daddr
           c == <<f.nexthdr>>
           e == <<p, q>>
           g == <<f.hop_limit, d>>
           s == a \o b \o c \o e \o g
<1>1. /\ a \in [1 .. 16 -> Octet] /\ b \in [1 .. 16 -> Octet]
      /\ f.nexthdr \in Octet /\ f.hop_limit \in Octet /\ x \in Octet /\ y \in Octet
  BY DEF FrameType
<1>2. s = Event(f, d)
  BY Zenon DEF Event, LittleEndian, Ntohs
<1> HIDE DEF x, y, a, b
<1>3. Halves(n, p, q)
  <2>1. x \in 0 .. 255 /\ y \in 0 .. 255
    BY <1>1 DEF Octet
  <2> QED
    BY <2>1, TwoBytes, ZenonT(60)
<1> HIDE DEF n, p, q
<1>4. p \in Octet /\ q \in Octet
  BY <1>3, Zenon DEF Halves, Octet
<1>5. /\ a \in Seq(Octet) /\ Len(a) = 16
      /\ b \in Seq(Octet) /\ Len(b) = 16
  BY <1>1, SixteenLong, Zenon
<1>6. c \in Seq(Octet) /\ Len(c) = 1 /\ c[1] = f.nexthdr
  BY <1>1, ShortSeq, Zenon
<1>7. e \in Seq(Octet) /\ Len(e) = 2 /\ e[1] = p /\ e[2] = q
  BY <1>4, ShortSeq, Zenon
<1>8. g \in Seq(Octet) /\ Len(g) = 2 /\ g[1] = f.hop_limit /\ g[2] = d
  BY <1>1, ShortSeq, Zenon
<1> HIDE DEF c, e, g
<1>9. PartLengths(a, b, c, e, g)
  BY <1>5, <1>6, <1>7, <1>8, Zenon DEF PartLengths
<1>10. s \in Seq(Octet) /\ Parts(s, a, b, c, e, g)
  <2>1. /\ a \in Seq(Octet) /\ b \in Seq(Octet) /\ c \in Seq(Octet)
        /\ e \in Seq(Octet) /\ g \in Seq(Octet)
    BY <1>5, <1>6, <1>7, <1>8, Zenon
  <2> QED
    BY <1>9, <2>1, FiveParts, Zenon
<1> HIDE DEF s
<1>11. s[34] = p /\ s[35] = q /\ s[33] = f.nexthdr /\ s[36] = f.hop_limit /\ s[37] = d
  BY <1>6, <1>7, <1>8, <1>10, Zenon DEF Parts
<1>12. Fields(s, f, d)
  <2>1. Halves(n, s[34], s[35])
    BY <1>3, <1>11, Zenon
  <2> QED
    BY <1>10, <1>11, <2>1, Zenon DEF Parts, Fields, n, x, y, a, b
<1> QED
  BY <1>2, <1>12, Zenon

(* Both sides agree on the layout: the line shows the fields of the frame. *)
LEMMA LineOfRecord ==
  ASSUME NEW f \in Frames, NEW end \in BothEnds
  PROVE  /\ Event(f, Dir(end)) \in Seq(Octet) /\ Len(Event(f, Dir(end))) = 37
         /\ Line(Event(f, Dir(end))) = TrueLine(f, end)
         /\ TrueLine(f, end) \in LineType
<1> DEFINE d == Dir(end)
           s == Event(f, d)
           a == f.saddr
           b == f.daddr
           n == f.payload_len[1] * 256 + f.payload_len[2]
<1>1. f \in FrameType /\ d \in Octet /\ (d = 1 <=> end = "peer")
  BY EventsAssumption DEF BothEnds, Dir, Octet
<1>2. /\ a \in [1 .. 16 -> Octet] /\ b \in [1 .. 16 -> Octet]
      /\ f.nexthdr \in Octet /\ f.hop_limit \in Octet
  BY <1>1 DEF FrameType
<1> HIDE DEF d
<1>3. Fields(s, f, d)
  BY <1>1, EventBytes, Zenon
<1> HIDE DEF s
<1>4. s \in Seq(Octet) /\ BeginsWith(s, a, b)
  BY <1>3, Zenon DEF Fields, BeginsWith
<1> HIDE DEF a, b
<1>5. SubSeq(s, 1, 16) = a /\ SubSeq(s, 17, 32) = b
  <2>1. a \in [1 .. 16 -> Octet] /\ b \in [1 .. 16 -> Octet]
    BY <1>2, Zenon
  <2> QED
    BY <1>4, <2>1, TwoSlices, Zenon
<1>6. (IF s[37] = 1 THEN "peer" ELSE "primary") = end
  <2>1. s[37] = d
    BY <1>3, Zenon DEF Fields
  <2> QED
    BY <1>1, <2>1 DEF BothEnds
<1>7. n \in Nat /\ s[34] + 256 * s[35] = n
  BY <1>3, Zenon DEF Fields, Halves
<1> HIDE DEF n
<1>8. s[33] = f.nexthdr /\ s[36] = f.hop_limit
  BY <1>3, Zenon DEF Fields
<1>9. Line(s) = TrueLine(f, end)
  <2>1. Line(s) = [dir |-> end, src |-> a, dst |-> b, next |-> f.nexthdr,
                   len |-> n, ttl |-> f.hop_limit]
    BY <1>5, <1>6, <1>7, <1>8, Zenon DEF Line
  <2> QED
    BY <2>1, Zenon DEF TrueLine, a, b, n
<1>10. TrueLine(f, end) \in LineType
  <2>1. [dir |-> end, src |-> a, dst |-> b, next |-> f.nexthdr,
         len |-> n, ttl |-> f.hop_limit] \in LineType
    BY <1>2, <1>7 DEF LineType
  <2> QED
    BY <2>1, Zenon DEF TrueLine, a, b, n
<1>11. Len(s) = 37
  BY <1>3, Zenon DEF Fields
<1> QED
  BY <1>4, <1>9, <1>10, <1>11, Zenon DEF s, d

-----------------------------------------------------------------------------
(* The ring holds what is owed and not yet printed *)

Slot   == CPUs \cup Seq(Octet)
Packet == Frames \X BothEnds

InHand == IF record = Nothing THEN 0 ELSE 1

(* The line that a slot of the ring is going to give. *)
LineOfSlot(x) ==
  IF x \in CPUs THEN TrueLine(cpu[x][1], cpu[x][2]) ELSE Line(x)

EventTypes ==
  /\ owed \in Seq(LineType) /\ printed \in Seq(LineType) /\ ring \in Seq(Slot)
  /\ cpu \in [CPUs -> Packet \cup {Nothing}]
  /\ record # Nothing => Len(record) = 37
  /\ \A i \in 1 .. Len(ring) : ring[i] \notin CPUs => Len(ring[i]) = 37

(* Nothing owed is lost or out of its turn. *)
NothingLost ==
  /\ Len(owed) = Len(printed) + InHand + Len(ring)
  /\ \A i \in 1 .. Len(printed) : owed[i] = printed[i]
  /\ record # Nothing => owed[Len(printed) + 1] = Line(record)
  /\ \A i \in 1 .. Len(ring) : owed[Len(printed) + InHand + i] = LineOfSlot(ring[i])

(* A CPU holds at most one slot, and then it has the packet for it. *)
OneSlotPerCPU ==
  /\ \A i \in 1 .. Len(ring) : ring[i] \in CPUs => cpu[ring[i]] # Nothing
  /\ \A i, j \in 1 .. Len(ring) : ring[i] \in CPUs /\ ring[i] = ring[j] => i = j

EventsInv == EventTypes /\ NothingLost /\ OneSlotPerCPU

eventData == <<cpu, ring, record, printed, owed>>

LEMMA Packets ==
  ASSUME NEW p \in Packet
  PROVE  /\ p # Nothing /\ p[1] \in Frames /\ p[2] \in BothEnds
         /\ \A f \in Frames, end \in BothEnds : <<f, end>> \in Packet
                                  /\ <<f, end>>[1] = f /\ <<f, end>>[2] = end
<1>1. /\ p[1] \in Frames /\ p[2] \in BothEnds /\ p = <<p[1], p[2]>>
  BY DEF Packet
<1>2. <<p[1], p[2]>> # <<>>
  OBVIOUS
<1> QED
  BY <1>1, <1>2 DEF Packet, Nothing

(* Every frame the program reports has the header, and the other way round.*)
LEMMA ReportsHeaders ==
  ASSUME NEW f \in Frames
  PROVE  Reportable(f) <=> HasIPv6Header(f)
<1>1. f.size \in Nat
  BY EventsAssumption DEF FrameType
<1> QED
  BY <1>1 DEF Reportable, HasIPv6Header, EthLen, Ip6Len

LEMMA ArriveInv ==
  ASSUME EventsInv, NEW c \in CPUs, NEW f \in Frames, NEW end \in BothEnds,
         Arrive(c, f, end)
  PROVE  EventsInv'
<1> DEFINE l == TrueLine(f, end)
<1>1. CASE UNCHANGED eventData
  BY <1>1 DEF eventData, EventsInv, EventTypes, NothingLost, OneSlotPerCPU, InHand, LineOfSlot
<1>2. CASE ~ UNCHANGED eventData
  <2>1. /\ owed' = Append(owed, l) /\ ring' = Append(ring, c)
        /\ cpu' = [cpu EXCEPT ![c] = <<f, end>>] /\ cpu[c] = Nothing
        /\ record' = record /\ printed' = printed
    BY <1>2, ReportsHeaders DEF Arrive, eventData
  <2>2. l \in LineType
    BY LineOfRecord
  <2> HIDE DEF l
  <2> DEFINE n == Len(ring)
             m == Len(owed)
  <2>3. /\ n \in Nat /\ m \in Nat /\ Len(printed) \in Nat
        /\ owed' \in Seq(LineType) /\ Len(owed') = m + 1 /\ owed'[m + 1] = l
        /\ \A i \in 1 .. m : owed'[i] = owed[i]
    BY <2>1, <2>2, AppendProperties, LenProperties DEF EventsInv, EventTypes
  <2>4. /\ ring' \in Seq(Slot) /\ Len(ring') = n + 1 /\ ring'[n + 1] = c
        /\ \A i \in 1 .. n : ring'[i] = ring[i]
    <3>1. ring \in Seq(Slot) /\ c \in Slot
      BY DEF EventsInv, EventTypes, Slot
    <3> QED
      BY <2>1, <3>1, AppendProperties
  <2>5. /\ cpu' \in [CPUs -> Packet \cup {Nothing}] /\ cpu'[c] = <<f, end>>
        /\ cpu'[c] # Nothing /\ cpu'[c][1] = f /\ cpu'[c][2] = end
        /\ \A o \in CPUs : o # c => cpu'[o] = cpu[o]
    <3>1. <<f, end>> \in Packet
      BY DEF Packet
    <3>2. <<f, end>> # Nothing /\ <<f, end>>[1] = f /\ <<f, end>>[2] = end
      BY <3>1, Packets
    <3> QED
      BY <2>1, <3>1, <3>2 DEF EventsInv, EventTypes
  <2>6. \A i \in 1 .. n : ring[i] # c
    BY <2>1 DEF EventsInv, OneSlotPerCPU
  <2>7. InHand' = InHand /\ InHand \in {0, 1}
    BY <2>1 DEF InHand
  <2>8. m = Len(printed) + InHand + n
    BY DEF EventsInv, NothingLost
  <2>9. c \notin Seq(Octet)
    BY EventsAssumption
  <2> HIDE DEF n, m
  <2>10. EventTypes'
    <3>1. ASSUME NEW i \in 1 .. n + 1, ring'[i] \notin CPUs PROVE Len(ring'[i]) = 37
      <4>1. i \in 1 .. n /\ ring'[i] = ring[i]
        BY <2>3, <2>4, <3>1
      <4> QED
        BY <3>1, <4>1 DEF EventsInv, EventTypes, n
    <3> QED
      BY <2>1, <2>3, <2>4, <2>5, <3>1 DEF EventsInv, EventTypes
  <2>11. OneSlotPerCPU'
    <3>1. ASSUME NEW i \in 1 .. n + 1, ring'[i] \in CPUs PROVE cpu'[ring'[i]] # Nothing
      <4>1. CASE i = n + 1
        BY <2>4, <2>5, <4>1
      <4>2. CASE i # n + 1
        <5>1. i \in 1 .. n /\ ring'[i] = ring[i]
          BY <2>3, <2>4, <4>2
        <5> QED
          BY <2>5, <2>6, <3>1, <5>1 DEF EventsInv, OneSlotPerCPU, n
      <4> QED
        BY <4>1, <4>2
    <3>2. ASSUME NEW i \in 1 .. n + 1, NEW j \in 1 .. n + 1,
                 ring'[i] \in CPUs, ring'[i] = ring'[j]
          PROVE  i = j
      <4>1. CASE i \in 1 .. n /\ j \in 1 .. n
        BY <2>4, <3>2, <4>1 DEF EventsInv, OneSlotPerCPU, n
      <4>2. CASE i = n + 1 \/ j = n + 1
        BY <2>3, <2>4, <2>6, <3>2, <4>2
      <4> QED
        BY <2>3, <4>1, <4>2
    <3> QED
      BY <2>4, <3>1, <3>2 DEF OneSlotPerCPU
  <2>12. NothingLost'
    <3> DEFINE k == Len(printed) + InHand
    <3>1. Len(owed') = Len(printed') + InHand' + Len(ring')
      <4>1. ASSUME NEW a \in Nat, NEW b \in {0, 1} PROVE a + b + n + 1 = a + b + (n + 1)
        BY <2>3
      <4>2. Len(owed') = Len(printed) + InHand + n + 1
        BY <2>3, <2>8, Zenon
      <4> QED
        BY <2>1, <2>3, <2>4, <2>7, <4>1, <4>2, Zenon
    <3>2. ASSUME NEW i \in 1 .. Len(printed) PROVE owed'[i] = printed[i]
      <4>1. i \in 1 .. m
        BY <2>3, <2>7, <2>8
      <4> QED
        BY <2>3, <4>1 DEF EventsInv, NothingLost
    <3>3. ASSUME record # Nothing PROVE owed'[Len(printed) + 1] = Line(record)
      <4>1. Len(printed) + 1 \in 1 .. m
        BY <2>3, <2>8, <3>3 DEF InHand
      <4> QED
        BY <2>3, <3>3, <4>1 DEF EventsInv, NothingLost
    <3>4. ASSUME NEW i \in 1 .. n + 1 PROVE owed'[k + i] = LineOfSlot(ring[i])'
      <4>1. CASE i = n + 1
        <5>1. k + i = m + 1 /\ ring'[i] = c
          BY <2>3, <2>4, <2>7, <2>8, <4>1
        <5>2. LineOfSlot(ring[i])' = l
          BY <2>5, <5>1 DEF LineOfSlot, l
        <5> QED
          BY <2>3, <5>1, <5>2
      <4>2. CASE i # n + 1
        <5>1. i \in 1 .. n /\ ring'[i] = ring[i] /\ k + i \in 1 .. m
          BY <2>3, <2>4, <2>7, <2>8, <4>2
        <5>2. owed[k + i] = LineOfSlot(ring[i])
          BY <5>1 DEF EventsInv, NothingLost, n
        <5>3. LineOfSlot(ring[i])' = LineOfSlot(ring[i])
          BY <2>5, <2>6, <5>1 DEF LineOfSlot
        <5> QED
          BY <2>3, <5>1, <5>2, <5>3
      <4> QED
        BY <4>1, <4>2
    <3> QED
      BY <2>1, <2>4, <2>7, <3>1, <3>2, <3>3, <3>4 DEF NothingLost
  <2> QED
    BY <2>10, <2>11, <2>12 DEF EventsInv
<1> QED
  BY <1>1, <1>2

LEMMA SubmitInv ==
  ASSUME EventsInv, NEW c \in CPUs, Submit(c)
  PROVE  EventsInv'
<1> DEFINE f == cpu[c][1]
           end == cpu[c][2]
           r == Event(f, Dir(end))
           n == Len(ring)
<1>1. PICK s \in 1 .. n : ring[s] = c /\ ring' = [ring EXCEPT ![s] = r]
  BY DEF Submit
<1>2. /\ cpu[c] # Nothing /\ cpu' = [cpu EXCEPT ![c] = Nothing]
      /\ record' = record /\ printed' = printed /\ owed' = owed
  BY DEF Submit
<1>3. f \in Frames /\ end \in BothEnds
  <2>1. cpu[c] \in Packet
    BY <1>2 DEF EventsInv, EventTypes
  <2> QED
    BY <2>1, Packets
<1> HIDE DEF f, end
<1>4. /\ r \in Seq(Octet) /\ Len(r) = 37 /\ Line(r) = TrueLine(f, end)
  BY <1>3, LineOfRecord
<1> HIDE DEF r
<1>5. r \notin CPUs /\ r \in Slot
  BY <1>4, EventsAssumption DEF Slot
<1>6. /\ ring \in Seq(Slot) /\ n \in Nat
      /\ ring' \in Seq(Slot) /\ Len(ring') = n /\ ring'[s] = r
      /\ \A i \in 1 .. n : i # s => ring'[i] = ring[i]
  <2>1. ring \in Seq(Slot)
    BY DEF EventsInv, EventTypes
  <2> QED
    BY <1>1, <1>5, <2>1, ExceptSeq, LenProperties
<1>7. \A i \in 1 .. n : i # s => ring[i] # c
  BY <1>1 DEF EventsInv, OneSlotPerCPU
<1>8. /\ cpu' \in [CPUs -> Packet \cup {Nothing}]
      /\ \A o \in CPUs : o # c => cpu'[o] = cpu[o]
  BY <1>2 DEF EventsInv, EventTypes
<1>9. InHand' = InHand
  BY <1>2 DEF InHand
<1> HIDE DEF n
<1>10. EventTypes'
  <2>1. ASSUME NEW i \in 1 .. n, ring'[i] \notin CPUs PROVE Len(ring'[i]) = 37
    <3>1. CASE i = s
      BY <1>4, <1>6, <3>1
    <3>2. CASE i # s
      BY <1>6, <2>1, <3>2 DEF EventsInv, EventTypes, n
    <3> QED
      BY <3>1, <3>2
  <2> QED
    BY <1>2, <1>6, <1>8, <2>1 DEF EventsInv, EventTypes
<1>11. OneSlotPerCPU'
  <2>1. ASSUME NEW i \in 1 .. n, ring'[i] \in CPUs
        PROVE  i # s /\ ring'[i] = ring[i] /\ cpu'[ring'[i]] # Nothing
    <3>1. i # s
      BY <1>5, <1>6, <2>1
    <3>2. ring'[i] = ring[i] /\ ring[i] # c
      BY <1>6, <1>7, <3>1
    <3> QED
      BY <1>8, <2>1, <3>1, <3>2 DEF EventsInv, OneSlotPerCPU, n
  <2>2. ASSUME NEW i \in 1 .. n, NEW j \in 1 .. n,
               ring'[i] \in CPUs, ring'[i] = ring'[j]
        PROVE  i = j
    <3>1. ring'[i] = ring[i] /\ ring'[j] = ring[j]
      BY <2>1, <2>2
    <3> QED
      BY <2>2, <3>1 DEF EventsInv, OneSlotPerCPU, n
  <2> QED
    BY <1>6, <2>1, <2>2 DEF OneSlotPerCPU
<1>12. NothingLost'
  <2>1. ASSUME NEW i \in 1 .. n PROVE LineOfSlot(ring[i])' = LineOfSlot(ring[i])
    <3>1. CASE i = s
      <4>1. LineOfSlot(ring[i]) = TrueLine(f, end)
        BY <1>1, <3>1 DEF LineOfSlot, f, end
      <4>2. LineOfSlot(ring[i])' = Line(r)
        BY <1>5, <1>6, <3>1 DEF LineOfSlot
      <4> QED
        BY <1>4, <4>1, <4>2
    <3>2. CASE i # s
      BY <1>6, <1>7, <1>8, <3>2 DEF LineOfSlot
    <3> QED
      BY <3>1, <3>2
  <2> QED
    BY <1>2, <1>6, <1>9, <2>1 DEF EventsInv, NothingLost, n
<1> QED
  BY <1>10, <1>11, <1>12 DEF EventsInv

LEMMA ReadInv ==
  ASSUME EventsInv, Read
  PROVE  EventsInv'
<1>1. /\ record = Nothing /\ ring # <<>> /\ Head(ring) \notin CPUs
      /\ record' = Head(ring) /\ ring' = Tail(ring)
      /\ cpu' = cpu /\ printed' = printed /\ owed' = owed
  BY DEF Read
<1> DEFINE n == Len(ring)
<1>2. /\ ring \in Seq(Slot) /\ n \in Nat /\ n > 0 /\ Head(ring) = ring[1]
      /\ ring' \in Seq(Slot) /\ Len(ring') = n - 1
      /\ \A i \in 1 .. n - 1 : ring'[i] = ring[i + 1]
  <2>1. ring \in Seq(Slot)
    BY DEF EventsInv, EventTypes
  <2> QED
    BY <1>1, <2>1, HeadTailProperties, EmptySeq, LenProperties
<1> HIDE DEF n
<1>3. 1 \in 1 .. n /\ \A i \in 1 .. n - 1 : i + 1 \in 1 .. n
  BY <1>2
<1>4. Len(record') = 37 /\ record' # Nothing
  <2>1. Len(record') = 37
    BY <1>1, <1>2, <1>3 DEF EventsInv, EventTypes, n
  <2>2. Len(<<>>) = 0
    OBVIOUS
  <2> QED
    BY <2>1, <2>2 DEF Nothing
<1>5. InHand = 0 /\ InHand' = 1
  BY <1>1, <1>4 DEF InHand
<1>6. Len(printed) \in Nat
  BY LenProperties DEF EventsInv, EventTypes
<1>7. EventTypes'
  <2>1. ASSUME NEW i \in 1 .. n - 1, ring'[i] \notin CPUs PROVE Len(ring'[i]) = 37
    BY <1>2, <1>3, <2>1 DEF EventsInv, EventTypes, n
  <2> QED
    BY <1>1, <1>2, <1>4, <2>1 DEF EventsInv, EventTypes
<1>8. OneSlotPerCPU'
  <2>1. ASSUME NEW i \in 1 .. n - 1, ring'[i] \in CPUs PROVE cpu'[ring'[i]] # Nothing
    BY <1>1, <1>2, <1>3, <2>1 DEF EventsInv, OneSlotPerCPU, n
  <2>2. ASSUME NEW i \in 1 .. n - 1, NEW j \in 1 .. n - 1,
               ring'[i] \in CPUs, ring'[i] = ring'[j]
        PROVE  i = j
    <3>1. ring[i + 1] \in CPUs /\ ring[i + 1] = ring[j + 1]
      BY <1>2, <2>2
    <3>2. i + 1 = j + 1
      BY <1>3, <3>1 DEF EventsInv, OneSlotPerCPU, n
    <3> QED
      BY <3>2
  <2> QED
    BY <1>2, <2>1, <2>2 DEF OneSlotPerCPU
<1>9. NothingLost'
  <2>1. Len(owed) = Len(printed) + 1 + (n - 1)
    BY <1>2, <1>5, <1>6 DEF EventsInv, NothingLost, n
  <2>2. owed[Len(printed) + 1] = Line(record')
    <3>1. owed[Len(printed) + 0 + 1] = LineOfSlot(ring[1])
      BY <1>3, <1>5 DEF EventsInv, NothingLost, n
    <3>2. LineOfSlot(ring[1]) = Line(ring[1])
      BY <1>1, <1>2 DEF LineOfSlot
    <3> QED
      BY <1>1, <1>2, <1>6, <3>1, <3>2
  <2>3. ASSUME NEW i \in 1 .. n - 1
        PROVE  owed[Len(printed) + 1 + i] = LineOfSlot(ring[i])'
    <3>1. owed[Len(printed) + 0 + (i + 1)] = LineOfSlot(ring[i + 1])
      BY <1>3, <1>5 DEF EventsInv, NothingLost, n
    <3>2. LineOfSlot(ring[i])' = LineOfSlot(ring[i + 1])
      BY <1>1, <1>2 DEF LineOfSlot
    <3>3. Len(printed) + 0 + (i + 1) = Len(printed) + 1 + i
      BY <1>6
    <3> QED
      BY <3>1, <3>2, <3>3
  <2> QED
    BY <1>1, <1>2, <1>5, <2>1, <2>2, <2>3 DEF EventsInv, NothingLost
<1> QED
  BY <1>7, <1>8, <1>9 DEF EventsInv

LEMMA PrintInv ==
  ASSUME EventsInv, PrintEvent
  PROVE  EventsInv'
<1> DEFINE l == Line(record)
           k == Len(printed)
<1>1. /\ record # Nothing /\ record' = Nothing /\ printed' = Append(printed, l)
      /\ cpu' = cpu /\ ring' = ring /\ owed' = owed
  <2>1. record # Nothing /\ Len(record) = 37
    BY Zenon DEF PrintEvent, EventsInv, EventTypes
  <2>2. ~(37 < 37)
    OBVIOUS
  <2> QED
    BY <2>1, <2>2, Zenon DEF PrintEvent
<1>2. InHand = 1 /\ InHand' = 0
  BY <1>1 DEF InHand
<1>3. /\ owed \in Seq(LineType) /\ printed \in Seq(LineType)
      /\ k \in Nat /\ Len(ring) \in Nat /\ Len(owed) = k + 1 + Len(ring)
      /\ owed[k + 1] = l
  BY <1>1, <1>2, LenProperties DEF EventsInv, EventTypes, NothingLost
<1> HIDE DEF l, k
<1>4. l \in LineType
  <2>1. k + 1 \in 1 .. Len(owed)
    BY <1>3
  <2> QED
    BY <1>3, <2>1, ElementOfSeq
<1>5. /\ printed' \in Seq(LineType) /\ Len(printed') = k + 1 /\ printed'[k + 1] = l
      /\ \A i \in 1 .. k : printed'[i] = printed[i]
  BY <1>1, <1>3, <1>4, AppendProperties DEF k
<1>6. ASSUME NEW i \in 1 .. k + 1 PROVE owed[i] = printed'[i]
  <2>1. CASE i = k + 1
    BY <1>3, <1>5, <2>1
  <2>2. CASE i # k + 1
    <3>1. i \in 1 .. k
      BY <1>3, <2>2
    <3> QED
      BY <1>5, <3>1 DEF EventsInv, NothingLost, k
  <2> QED
    BY <2>1, <2>2
<1>7. ASSUME NEW i \in 1 .. Len(ring)
      PROVE  owed[k + 1 + 0 + i] = LineOfSlot(ring[i])'
  <2>1. owed[k + 1 + i] = LineOfSlot(ring[i])
    BY <1>2 DEF EventsInv, NothingLost, k
  <2>2. LineOfSlot(ring[i])' = LineOfSlot(ring[i])
    BY <1>1 DEF LineOfSlot
  <2> QED
    BY <1>3, <2>1, <2>2
<1>8. EventTypes' /\ OneSlotPerCPU'
  BY <1>1, <1>5 DEF EventsInv, EventTypes, OneSlotPerCPU
<1>9. NothingLost'
  <2>1. Len(owed) = Len(printed') + InHand' + Len(ring)
    BY <1>2, <1>3, <1>5
  <2> QED
    BY <1>1, <1>2, <1>5, <1>6, <1>7, <2>1 DEF NothingLost
<1> QED
  BY <1>8, <1>9 DEF EventsInv

LEMMA NextEvents == EventsInv /\ [Next]_vars => EventsInv'
<1> SUFFICES ASSUME EventsInv, [Next]_vars PROVE EventsInv'
  OBVIOUS
<1>1. CASE UNCHANGED eventData
  BY <1>1 DEF eventData, EventsInv, EventTypes, NothingLost, OneSlotPerCPU, InHand, LineOfSlot
<1>2. CASE EventsNext
  <2>1. ASSUME NEW c \in CPUs, Submit(c) PROVE EventsInv'
    BY <2>1, SubmitInv
  <2>2. ASSUME NEW c \in CPUs, NEW f \in Frames, NEW end \in BothEnds, Arrive(c, f, end)
        PROVE  EventsInv'
    BY <2>2, ArriveInv
  <2>3. CASE Interrupt \/ ReadFails
    BY <1>1, <2>3 DEF Interrupt, ReadFails, eventData
  <2>4. CASE MainStep
    BY <1>1, <2>4 DEF MainStep, AttachEnd, OpenReader, CloseReader, DetachEnd, ExitEvents,
                      eventData
  <2> QED
    BY <1>2, <2>1, <2>2, <2>3, <2>4, ReadInv, PrintInv DEF EventsNext, BothEnds
<1> QED
  BY <1>1, <1>2 DEF Next, vars, evVars, eventData

LEMMA InitEvents == Init => EventsInv
<1> SUFFICES ASSUME Init PROVE EventsInv
  OBVIOUS
<1>1. /\ cpu = [c \in CPUs |-> Nothing] /\ ring = <<>> /\ record = Nothing
      /\ printed = <<>> /\ owed = <<>>
  BY DEF Init, EventsInit
<1> QED
  BY <1>1 DEF EventsInv, EventTypes, NothingLost, OneSlotPerCPU, InHand

(* Whatever the order in which the CPUs submit: the lines printed are, in  *)
(* their order, those of the packets that found room, with the fields at   *)
(* the offsets of the packed struct (netkit_ipv6.c:26-64, main.go:105-148).*)
THEOREM PrintsInOrder == Spec => []PrintsWhatPassed
<1>2. EventsInv => PrintsWhatPassed
  <2> SUFFICES ASSUME EventsInv PROVE IsPrefix(printed, owed)
    BY DEF PrintsWhatPassed
  <2> DEFINE k == Len(printed)
  <2>1. /\ printed \in Seq(LineType) /\ owed \in Seq(LineType)
        /\ k \in Nat /\ Len(owed) \in Nat /\ k <= Len(owed)
        /\ \A i \in 1 .. k : owed[i] = printed[i]
    BY LenProperties DEF EventsInv, EventTypes, NothingLost, InHand
  <2> HIDE DEF k
  <2>2. SubSeq(printed, 1, k) = SubSeq(owed, 1, k)
    <3>1. SubSeq(printed, 1, k) = [i \in 1 .. k |-> printed[i]]
      BY <2>1
    <3>2. SubSeq(owed, 1, k) = [i \in 1 .. k |-> owed[i]]
      BY <2>1
    <3> QED
      BY <2>1, <3>1, <3>2
  <2> QED
    BY <2>1, <2>2 DEF IsPrefix, k
<1> QED
  BY <1>2, InitEvents, NextEvents, PTL DEF Spec
-----------------------------------------------------------------------------
(* Who holds back the reader *)

(* A CPU at work has its record in the ring. *)
WorkersHaveSlots ==
  \A c \in CPUs : cpu[c] # Nothing => \E i \in 1 .. Len(ring) : ring[i] = c

WaitInv == EventsInv /\ EventsTypeOK /\ WorkersHaveSlots

(* What EventTypes says of ring and CPUs in the words of EventsTypeOK.      *)
SlotsTyped(r) == \A i \in 1 .. Len(r) : r[i] \in CPUs \cup Seq(Octet)
PacketsTyped(b) == \A c \in CPUs : b[c] = Nothing \/ b[c] \in Frames \X {"primary", "peer"}

LEMMA Typed ==
  /\ \A r \in Seq(Slot) : SlotsTyped(r)
  /\ \A b \in [CPUs -> Packet \cup {Nothing}] : PacketsTyped(b)
<1>1. ASSUME NEW r \in Seq(Slot) PROVE SlotsTyped(r)
  BY ElementOfSeq, Zenon DEF Slot, SlotsTyped
<1>2. ASSUME NEW b \in [CPUs -> Packet \cup {Nothing}] PROVE PacketsTyped(b)
  BY DEF Packet, BothEnds, PacketsTyped
<1> QED
  BY <1>1, <1>2

LEMMA ArriveWait ==
  ASSUME WaitInv, NEW c \in CPUs, NEW f \in Frames, NEW end \in BothEnds,
         Arrive(c, f, end)
  PROVE  EventsTypeOK' /\ WorkersHaveSlots'
<1>1. UNCHANGED <<stage, hooked, interrupted, rd, record>>
  BY DEF Arrive
<1>2. ring \in Seq(Slot) /\ Len(ring) \in Nat /\ c \in Slot /\ Len(ring) <= Slots
  BY LenProperties DEF WaitInv, EventsInv, EventTypes, EventsTypeOK, Slot
<1>3. CASE UNCHANGED <<ring, cpu>>
  BY <1>1, <1>3 DEF WaitInv, EventsTypeOK, WorkersHaveSlots
<1>4. CASE Len(ring) < Slots /\ ring' = Append(ring, c) /\ cpu' = [cpu EXCEPT ![c] = <<f, end>>]
  <2>1. /\ Len(ring') = Len(ring) + 1 /\ ring'[Len(ring) + 1] = c
        /\ \A i \in 1 .. Len(ring) : ring'[i] = ring[i]
    BY <1>2, <1>4, AppendProperties
  <2>2. Len(ring') <= Slots
    BY <1>2, <1>4, <2>1, EventsAssumption
  <2>3. EventTypes'
    BY ArriveInv DEF WaitInv, EventsInv
  <2>4. EventsTypeOK'
    <3>1. SlotsTyped(ring') /\ PacketsTyped(cpu')
      BY <2>3, Typed DEF EventTypes
    <3> QED
      BY <1>1, <2>2, <3>1 DEF WaitInv, EventsTypeOK, SlotsTyped, PacketsTyped
  <2>5. WorkersHaveSlots'
    <3> SUFFICES ASSUME NEW o \in CPUs, cpu'[o] # Nothing
                 PROVE  \E i \in 1 .. Len(ring') : ring'[i] = o
      BY DEF WorkersHaveSlots
    <3>1. CASE o = c
      <4>1. Len(ring) + 1 \in 1 .. Len(ring')
        BY <1>2, <2>1
      <4> QED
        BY <2>1, <3>1, <4>1
    <3>2. CASE o # c
      <4>1. cpu[o] # Nothing
        BY <1>4, <3>2 DEF WaitInv, EventsInv, EventTypes
      <4>2. PICK i \in 1 .. Len(ring) : ring[i] = o
        BY <4>1 DEF WaitInv, WorkersHaveSlots
      <4>3. i \in 1 .. Len(ring') /\ ring'[i] = o
        BY <1>2, <2>1, <4>2
      <4> QED
        BY <4>3
    <3> QED
      BY <3>1, <3>2
  <2> QED
    BY <2>4, <2>5
<1> QED
  BY <1>3, <1>4 DEF Arrive

LEMMA SubmitWait ==
  ASSUME WaitInv, NEW c \in CPUs, Submit(c)
  PROVE  EventsTypeOK' /\ WorkersHaveSlots'
<1>1. /\ UNCHANGED <<stage, hooked, interrupted, rd, record>>
      /\ cpu' = [cpu EXCEPT ![c] = Nothing]
  BY DEF Submit
<1>2. PICK s \in 1 .. Len(ring) :
        ring[s] = c /\ ring' = [ring EXCEPT ![s] = Event(cpu[c][1], Dir(cpu[c][2]))]
  BY DEF Submit
<1>3. ring \in Seq(Slot) /\ Len(ring) \in Nat /\ Len(ring) <= Slots
  BY LenProperties DEF WaitInv, EventsInv, EventTypes, EventsTypeOK
<1>4. EventTypes'
  BY SubmitInv DEF WaitInv, EventsInv
<1>5. Len(ring') = Len(ring) /\ \A i \in 1 .. Len(ring) : i # s => ring'[i] = ring[i]
  BY <1>2, <1>3
<1>6. EventsTypeOK'
  <2>1. SlotsTyped(ring') /\ PacketsTyped(cpu')
    BY <1>4, Typed DEF EventTypes
  <2> QED
    BY <1>1, <1>3, <1>5, <2>1 DEF WaitInv, EventsTypeOK, SlotsTyped, PacketsTyped
<1>7. WorkersHaveSlots'
  <2> SUFFICES ASSUME NEW o \in CPUs, cpu'[o] # Nothing
               PROVE  \E i \in 1 .. Len(ring') : ring'[i] = o
    BY DEF WorkersHaveSlots
  <2>1. o # c /\ cpu[o] # Nothing
    BY <1>1 DEF WaitInv, EventsInv, EventTypes
  <2>2. PICK i \in 1 .. Len(ring) : ring[i] = o
    BY <2>1 DEF WaitInv, WorkersHaveSlots
  <2>3. i # s
    BY <1>2, <2>1, <2>2
  <2> QED
    BY <1>5, <2>2, <2>3
<1> QED
  BY <1>6, <1>7

LEMMA ReadWait ==
  ASSUME WaitInv, Read
  PROVE  EventsTypeOK' /\ WorkersHaveSlots'
<1>1. /\ ring # <<>> /\ Head(ring) \notin CPUs
      /\ record' = Head(ring) /\ ring' = Tail(ring)
      /\ UNCHANGED <<stage, hooked, interrupted, rd, cpu>>
  BY DEF Read
<1> DEFINE n == Len(ring)
<1>2. /\ ring \in Seq(Slot) /\ n \in Nat /\ n > 0 /\ n <= Slots /\ Head(ring) = ring[1]
      /\ Head(ring) \in Slot /\ Len(ring') = n - 1
      /\ \A i \in 1 .. n - 1 : ring'[i] = ring[i + 1]
  <2>1. ring \in Seq(Slot) /\ Len(ring) <= Slots
    BY DEF WaitInv, EventsInv, EventTypes, EventsTypeOK
  <2> QED
    BY <1>1, <2>1, HeadTailProperties, EmptySeq, LenProperties
<1> HIDE DEF n
<1>3. record' \in Seq(Octet) /\ Len(ring') <= Slots
  BY <1>1, <1>2, EventsAssumption DEF Slot
<1>4. EventTypes'
  BY ReadInv DEF WaitInv, EventsInv
<1>5. EventsTypeOK'
  <2>1. SlotsTyped(ring') /\ PacketsTyped(cpu')
    BY <1>4, Typed DEF EventTypes
  <2> QED
    BY <1>1, <1>3, <2>1 DEF WaitInv, EventsTypeOK, SlotsTyped, PacketsTyped
<1>6. WorkersHaveSlots'
  <2> SUFFICES ASSUME NEW o \in CPUs, cpu'[o] # Nothing
               PROVE  \E i \in 1 .. n - 1 : ring'[i] = o
    BY <1>2 DEF WorkersHaveSlots
  <2>1. cpu[o] # Nothing
    BY <1>1
  <2>2. PICK i \in 1 .. n : ring[i] = o
    BY <2>1 DEF WaitInv, WorkersHaveSlots, n
  <2>3. i # 1
    BY <1>1, <1>2, <2>2
  <2>4. i - 1 \in 1 .. n - 1 /\ (i - 1) + 1 = i
    BY <1>2, <2>3
  <2> QED
    BY <1>2, <2>2, <2>4
<1> QED
  BY <1>5, <1>6

LEMMA NextWait == WaitInv /\ [Next]_vars => WaitInv'
<1> SUFFICES ASSUME WaitInv, [Next]_vars PROVE EventsTypeOK' /\ WorkersHaveSlots'
  BY NextEvents DEF WaitInv
<1>1. CASE UNCHANGED evVars
  BY <1>1 DEF evVars, WaitInv, EventsTypeOK, WorkersHaveSlots
<1>2. CASE PrintEvent
  <2>1. Nothing \in Seq(Octet)
    BY DEF Nothing
  <2> QED
    BY <1>2, <2>1 DEF PrintEvent, WaitInv, EventsTypeOK, WorkersHaveSlots
<1>3. CASE Interrupt \/ ReadFails \/ MainStep
  BY <1>3 DEF Interrupt, ReadFails, MainStep, AttachEnd, OpenReader, CloseReader, DetachEnd, ExitEvents,
              Proceed, WaitInv, EventsTypeOK, WorkersHaveSlots
<1>4. CASE EventsNext
  BY <1>2, <1>3, <1>4, ArriveWait, SubmitWait, ReadWait DEF EventsNext, BothEnds
<1> QED
  BY <1>1, <1>4 DEF Next, vars

LEMMA InitWait == Init => WaitInv
<1> SUFFICES ASSUME Init PROVE WaitInv
  OBVIOUS
<1>1. /\ stage = "loaded" /\ hooked = {} /\ interrupted = FALSE
      /\ cpu = [c \in CPUs |-> Nothing] /\ ring = <<>> /\ rd = "none" /\ record = Nothing
  BY DEF Init, EventsInit
<1>2. EventsInv
  BY InitEvents
<1>3. Len(ring) <= Slots /\ record \in Seq(Octet)
  BY <1>1, EventsAssumption DEF Nothing
<1>4. EventsTypeOK
  <2>1. SlotsTyped(ring) /\ PacketsTyped(cpu)
    BY <1>2, Typed DEF EventsInv, EventTypes
  <2> QED
    BY <1>1, <1>3, <2>1, Zenon DEF EventsTypeOK, SlotsTyped, PacketsTyped
<1>5. WorkersHaveSlots
  BY <1>1 DEF WorkersHaveSlots
<1> QED
  BY <1>2, <1>4, <1>5 DEF WaitInv

(* The ring never holds more than it has room for, a slot of it is reserved*)
(* or holds bytes, and what the goroutine has in hand are bytes            *)
(* (netkit_ipv6.c:47-61, main.go:105-114).                                 *)
THEOREM EventsTypeCorrect == Spec => []EventsTypeOK
<1>1. WaitInv => EventsTypeOK
  BY DEF WaitInv
<1> QED
  BY <1>1, InitWait, NextWait, PTL DEF Spec

(* A record that holds back the reader is one that a CPU is still at work  *)
(* on, and each CPU at work has one record to submit, so that neither      *)
(* waits for what is not to come (netkit_ipv6.c:47-61, main.go:105-110).   *)
HeldBackOnlyByWorkers ==
  \A c \in CPUs :
    /\ (\E i \in 1 .. Len(ring) : ring[i] = c) <=> cpu[c] # Nothing
    /\ \A i, j \in 1 .. Len(ring) : ring[i] = c /\ ring[j] = c => i = j

(* A record still reserved is that of a CPU at work, one record a CPU, and *)
(* a CPU at work has one (netkit_ipv6.c:47-61): of a reader that is open,  *)
(* this is what may keep it waiting.  It says nothing of one that is closed*)
(* or has ended.                                                           *)
THEOREM ReaderWaitsForWorkers == Spec => []HeldBackOnlyByWorkers
<1>1. WaitInv => HeldBackOnlyByWorkers
  BY DEF WaitInv, WorkersHaveSlots, EventsInv, OneSlotPerCPU, HeldBackOnlyByWorkers
<1> QED
  BY <1>1, InitWait, NextWait, PTL DEF Spec
=============================================================================
