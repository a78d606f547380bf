-------------------------- MODULE FlatProgramProofs --------------------------
(***************************************************************************)
(* flat, its wire format and the flow hash proved for any packets without  *)
(* IPv4 options, on machines of either byte order.                         *)
(***************************************************************************)
EXTENDS FlatProgram, SequenceTheorems, TLAPS

Octet   == 0 .. 255
ByteSeq == Seq(Octet)
Words   == [0 .. 11 -> ByteSeq]
Blank   == <<0, 0, 0, 0>>

-----------------------------------------------------------------------------
(* What packet_t holds, word by word *)

(* After the network stage.  The 0xffff that is meant for src_ip is in     *)
(* dst_ip; protocol and TTL are stored over the half of the other one.     *)
IsPadded(p, s) ==
  /\ p \in Words
  /\ \A w \in {0, 1, 2, 4, 6, 8, 10, 11} : p[w] = Blank
  /\ p[3] = s.src /\ p[7] = s.dst /\ p[5] = Ones
  /\ p[9] = <<s.proto, s.ttl, Ones[3], Ones[4]>>

FlagsOf(s) == IF s.proto = TCP THEN <<s.proto, s.ttl, s.syn, s.ack>>
                               ELSE <<s.proto, s.ttl, Ones[3], Ones[4]>>

TsBytes(s) == IF bigEndian THEN Reverse(s.ts) ELSE s.ts

(* When it is put out. *)
IsWire(p, s) ==
  /\ p \in Words
  /\ \A w \in {0, 1, 2, 4, 6} : p[w] = Blank
  /\ p[3] = s.src /\ p[7] = s.dst /\ p[5] = Ones
  /\ p[8] = s.sport \o s.dport
  /\ p[9] = FlagsOf(s)
  /\ p[10] = SubSeq(TsBytes(s), 1, 4) /\ p[11] = SubSeq(TsBytes(s), 5, 8)

(* What has been established about the packet before each stage.           *)
Headed(s) ==
  s.pulled /\ s.cast = "host" /\ s.ether \in {"IPv4", "IPv6"} /\ s.size >= EthernetHeader

Chosen(s) == s.ether = "IPv4" /\ s.proto \in {TCP, UDP}

Reported == [skb : Traffic, pkt : Words]

(* At every stage packet_t and offset are what the stages before have made *)
(* of the packet, and every report is that of a packet worth reporting.    *)
StageInv ==
  /\ bigEndian \in BOOLEAN /\ pc \in {"idle", "link", "network", "transport"}
  /\ skb \in Traffic
  /\ pc \in {"idle", "link"} => offset = 0 /\ pkt = Zero
  /\ pc = "network" =>
       Headed(skb) /\ offset = EthernetHeader + NetworkHeader(skb.ether) /\ pkt = Zero
  /\ pc = "transport" =>
       Headed(skb) /\ Chosen(skb) /\ offset = 34 /\ IsPadded(pkt, skb)

ReportsInv ==
  /\ reports \in Seq(Reported) /\ Len(reports) <= MaxReports
  /\ pc # "idle" => Len(reports) < MaxReports
  /\ \A i \in DOMAIN reports :
       Chosen(reports[i].skb) /\ IsWire(reports[i].pkt, reports[i].skb)

FlatInv == StageInv /\ ReportsInv

-----------------------------------------------------------------------------
(* Bytes *)

LEMMA FunctionIsSeq ==
  ASSUME NEW S, NEW n \in Nat, NEW w \in [1 .. n -> S]
  PROVE  w \in Seq(S) /\ Len(w) = n
<1>1. w \in Seq(S)
  BY SeqDef
<1>2. Len(w) \in Nat /\ DOMAIN w = 1 .. Len(w)
  BY <1>1, LenProperties
<1>3. DOMAIN w = 1 .. n
  OBVIOUS
<1>4. ASSUME NEW k \in Nat, NEW m \in Nat, 1 .. k = 1 .. m PROVE k = m
  BY <1>4
<1> QED
  BY <1>1, <1>2, <1>3, <1>4, Zenon

LEMMA ReversedBytes ==
  ASSUME NEW s \in Seq(Octet)
  PROVE  Reverse(s) \in Seq(Octet) /\ Len(Reverse(s)) = Len(s)
<1>1. Len(s) \in Nat
  BY LenProperties
<1>2. Reverse(s) \in [1 .. Len(s) -> Octet]
  BY DEF Reverse
<1> QED
  BY <1>1, <1>2, FunctionIsSeq

LEMMA PacketBytes ==
  ASSUME NEW s \in Traffic
  PROVE  /\ s.src \in Seq(Octet) /\ Len(s.src) = 4
         /\ s.dst \in Seq(Octet) /\ Len(s.dst) = 4
         /\ s.sport \in Seq(Octet) /\ Len(s.sport) = 2
         /\ s.dport \in Seq(Octet) /\ Len(s.dport) = 2
         /\ s.ts \in Seq(Octet) /\ Len(s.ts) = 8
         /\ s.proto \in Octet /\ s.ttl \in Octet /\ s.syn \in {0, 1} /\ s.ack \in {0, 1}
         /\ s.size \in Nat
         /\ s.proto # TCP => s.syn = 0 /\ s.ack = 0
BY TrafficAssumption DEF Skb, Bytes, Octet

LEMMA FourBytes ==
  ASSUME NEW S, NEW a \in S, NEW b \in S, NEW c \in S, NEW d \in S
  PROVE  /\ <<a, b, c, d>> \in Seq(S) /\ Len(<<a, b, c, d>>) = 4
         /\ <<a, b, c, d>>[1] = a /\ <<a, b, c, d>>[2] = b
         /\ <<a, b, c, d>>[3] = c /\ <<a, b, c, d>>[4] = d
OBVIOUS

LEMMA WordBytes ==
  /\ Blank \in Seq(Octet) /\ Len(Blank) = 4 /\ Blank[1] = 0 /\ Blank[3] = 0
  /\ Ones \in Seq(Octet) /\ Len(Ones) = 4
  /\ Ones[3] \in Octet \ {1} /\ Ones[4] \in Octet \ {1}
  /\ Ones[1] = 255 \/ Ones[3] = 255
<1>1. 0 \in Octet /\ 255 \in Octet /\ 0 # 1 /\ 255 # 1
  BY DEF Octet
<1>2. CASE bigEndian
  <2>1. Ones = <<0, 0, 255, 255>>
    BY <1>2 DEF Ones
  <2> QED
    BY <1>1, <2>1, FourBytes DEF Blank
<1>3. CASE ~bigEndian
  <2>1. Ones = <<255, 255, 0, 0>>
    BY <1>3 DEF Ones
  <2> QED
    BY <1>1, <2>1, FourBytes DEF Blank
<1> QED
  BY <1>2, <1>3

LEMMA HalvesOfTs ==
  ASSUME NEW s \in Traffic, bigEndian \in BOOLEAN
  PROVE  /\ TsBytes(s) \in Seq(Octet) /\ Len(TsBytes(s)) = 8
         /\ SubSeq(TsBytes(s), 1, 4) \in Seq(Octet) /\ Len(SubSeq(TsBytes(s), 1, 4)) = 4
         /\ SubSeq(TsBytes(s), 5, 8) \in Seq(Octet) /\ Len(SubSeq(TsBytes(s), 5, 8)) = 4
         /\ \A i \in 1 .. 4 : /\ SubSeq(TsBytes(s), 1, 4)[i] = TsBytes(s)[i]
                              /\ SubSeq(TsBytes(s), 5, 8)[i] = TsBytes(s)[4 + i]
<1> DEFINE t == TsBytes(s)
<1>1. t \in Seq(Octet) /\ Len(t) = 8
  BY PacketBytes, ReversedBytes DEF TsBytes
<1> HIDE DEF t
<1>2. /\ \A i \in 1 .. 4 : t[i] \in Octet
      /\ \A i \in 5 .. 8 : t[i] \in Octet
  <2>1. \A i \in 1 .. 8 : t[i] \in Octet
    BY <1>1, ElementOfSeq
  <2> QED
    BY <2>1
<1>3. /\ SubSeq(t, 1, 4) \in Seq(Octet) /\ Len(SubSeq(t, 1, 4)) = 4
      /\ \A i \in 1 .. 4 : SubSeq(t, 1, 4)[i] = t[i]
  BY <1>2, SubSeqProperties
<1>4. /\ SubSeq(t, 5, 8) \in Seq(Octet) /\ Len(SubSeq(t, 5, 8)) = 4
      /\ \A i \in 1 .. 4 : SubSeq(t, 5, 8)[i] = t[4 + i]
  BY <1>2, SubSeqProperties
<1> QED
  BY <1>1, <1>3, <1>4 DEF t

-----------------------------------------------------------------------------
(* The stages *)

LEMMA ZeroWords == Zero \in Words /\ \A w \in 0 .. 11 : Zero[w] = Blank
BY WordBytes DEF Zero, Words, Blank, ByteSeq

LEMMA InitFlat == Init => FlatInv
BY TrafficAssumption DEF Init, NoPacket, FlatInv, StageInv, ReportsInv, Reported

(* The packet goes on its way: nothing is left of it. *)
LEMMA PassStage ==
  ASSUME StageInv, Pass, UNCHANGED bigEndian
  PROVE  StageInv' /\ pc' = "idle"
BY TrafficAssumption DEF StageInv, Pass, NoPacket

LEMMA SameReports ==
  ASSUME ReportsInv, UNCHANGED <<bigEndian, reports>>,
         pc' # "idle" => Len(reports) < MaxReports
  PROVE  ReportsInv'
<1>1. ASSUME NEW i \in DOMAIN reports
      PROVE  Chosen(reports[i].skb)' /\ IsWire(reports[i].pkt, reports[i].skb)'
  <2>1. Chosen(reports[i].skb) /\ IsWire(reports[i].pkt, reports[i].skb)
    BY DEF ReportsInv
  <2>2. reports' = reports /\ bigEndian' = bigEndian
    OBVIOUS
  <2>3. TsBytes(reports[i].skb)' = TsBytes(reports[i].skb)
    BY <2>2 DEF TsBytes
  <2>4. FlagsOf(reports[i].skb)' = FlagsOf(reports[i].skb) /\ Ones' = Ones
    BY <2>2 DEF FlagsOf, Ones
  <2> QED
    BY <2>1, <2>2, <2>3, <2>4 DEF IsWire, Chosen
<1> QED
  BY <1>1 DEF ReportsInv

LEMMA ArriveFlat ==
  ASSUME FlatInv, NEW p \in Traffic, Arrive(p), UNCHANGED bigEndian
  PROVE  FlatInv'
<1>1. StageInv'
  BY DEF FlatInv, StageInv, Arrive
<1>2. ReportsInv'
  BY SameReports DEF FlatInv, Arrive
<1> QED
  BY <1>1, <1>2 DEF FlatInv

LEMMA LinkFlat ==
  ASSUME FlatInv, Link, UNCHANGED bigEndian
  PROVE  FlatInv'
<1>1. CASE Pass
  BY <1>1, PassStage, SameReports DEF FlatInv, ReportsInv, Link
<1>2. CASE ~Pass
  <2>1. /\ pc = "link" /\ Headed(skb) /\ pc' = "network"
        /\ offset' = EthernetHeader + NetworkHeader(skb.ether)
        /\ UNCHANGED <<skb, pkt, reports>>
    BY <1>2, PacketBytes, TrafficAssumption
       DEF Link, Headed, FlatInv, StageInv, Skb, EthernetHeader
  <2>2. StageInv'
    BY <2>1 DEF FlatInv, StageInv
  <2> QED
    BY <2>1, <2>2, SameReports DEF FlatInv, ReportsInv
<1> QED
  BY <1>1, <1>2

LEMMA NetworkFlat ==
  ASSUME FlatInv, Network, UNCHANGED bigEndian
  PROVE  FlatInv'
<1>1. CASE Pass
  BY <1>1, PassStage, SameReports DEF FlatInv, ReportsInv, Network
<1>2. CASE ~Pass
  <2> DEFINE z == Padded(pkt)
             p == [z EXCEPT ![9] = <<skb.proto, skb.ttl, z[9][3], z[9][4]>>]
  <2>1. /\ pc = "network" /\ pc' = "transport" /\ pkt' = p
        /\ ~Rejected(skb.ether, skb.proto)
        /\ UNCHANGED <<skb, offset, reports>>
    BY <1>2 DEF Network, FlagWord
  <2>2. /\ skb \in Traffic /\ Headed(skb) /\ pkt = Zero
        /\ offset = EthernetHeader + NetworkHeader(skb.ether)
    BY <2>1 DEF FlatInv, StageInv
  <2>3. Chosen(skb)
    BY <2>1, <2>2 DEF Rejected, Chosen, Headed, TCP, UDP
  <2>4. offset = 34
    BY <2>2, <2>3 DEF Chosen, EthernetHeader, NetworkHeader
  <2>5. IsPadded(p, skb)
    <3>1. z = [w \in 0 .. 11 |->
                 IF w = 9 \/ w = 5 THEN Ones ELSE IF w = 7 THEN skb.dst
                 ELSE IF w = 3 THEN skb.src ELSE Blank]
      BY <2>2 DEF Padded, Zero, Blank, Src, Dst
    <3> HIDE DEF z
    <3>2. z[9] = Ones
      BY <3>1
    <3>3. p = [w \in 0 .. 11 |->
                 IF w = 9 THEN <<skb.proto, skb.ttl, Ones[3], Ones[4]>>
                 ELSE IF w = 5 THEN Ones ELSE IF w = 7 THEN skb.dst
                 ELSE IF w = 3 THEN skb.src ELSE Blank]
      BY <3>1, <3>2
    <3> HIDE DEF p
    <3>4. <<skb.proto, skb.ttl, Ones[3], Ones[4]>> \in Seq(Octet)
      BY <2>2, PacketBytes, WordBytes, FourBytes
    <3>5. p \in Words
      BY <2>2, <3>3, <3>4, PacketBytes, WordBytes DEF Words, ByteSeq
    <3> QED
      BY <3>3, <3>5 DEF IsPadded
  <2> HIDE DEF p, z
  <2>6. StageInv'
    <3>1. IsPadded(pkt, skb)'
      BY <2>1, <2>5 DEF IsPadded, Ones
    <3> QED
      BY <2>1, <2>2, <2>3, <2>4, <3>1 DEF FlatInv, StageInv
  <2> QED
    BY <2>1, <2>6, SameReports DEF FlatInv, ReportsInv
<1> QED
  BY <1>1, <1>2

LEMMA PortBytes ==
  ASSUME NEW s \in Traffic
  PROVE  /\ s.sport \o s.dport \in Seq(Octet) /\ Len(s.sport \o s.dport) = 4
         /\ (s.sport \o s.dport)[1] = s.sport[1] /\ (s.sport \o s.dport)[2] = s.sport[2]
         /\ (s.sport \o s.dport)[3] = s.dport[1] /\ (s.sport \o s.dport)[4] = s.dport[2]
<1> DEFINE a == s.sport
           b == s.dport
<1>1. a \in Seq(Octet) /\ Len(a) = 2 /\ b \in Seq(Octet) /\ Len(b) = 2
  BY PacketBytes
<1> HIDE DEF a, b
<1>2. /\ a \o b \in Seq(Octet) /\ Len(a \o b) = Len(a) + Len(b)
      /\ \A i \in 1 .. Len(a) + Len(b) :
           (a \o b)[i] = IF i <= Len(a) THEN a[i] ELSE b[i - Len(a)]
  BY <1>1, ConcatProperties
<1>3. a \o b \in Seq(Octet) /\ Len(a \o b) = 4
      /\ (a \o b)[1] = a[1] /\ (a \o b)[2] = a[2]
      /\ (a \o b)[3] = b[1] /\ (a \o b)[4] = b[2]
  BY <1>1, <1>2
<1> QED
  BY <1>3 DEF a, b

(* Ports and flags, then the timestamp: the packet is as it is put out. *)
LEMMA StampedIsWire ==
  ASSUME NEW p, NEW flags, skb \in Traffic, bigEndian \in BOOLEAN, IsPadded(p, skb),
         flags = FlagsOf(skb), flags \in ByteSeq
  PROVE  IsWire(Stamped([p EXCEPT ![PortWord] = Ports, ![FlagWord] = flags]), skb)
<1> DEFINE q  == [p EXCEPT ![8] = Ports, ![9] = flags]
           lo == SubSeq(TsBytes(skb), 1, 4)
           hi == SubSeq(TsBytes(skb), 5, 8)
           r  == [q EXCEPT ![10] = lo, ![11] = hi]
<1>1. Stamped([p EXCEPT ![PortWord] = Ports, ![FlagWord] = flags]) = r
  BY DEF Stamped, TsBytes, PortWord, FlagWord
<1>2. lo \in ByteSeq /\ hi \in ByteSeq
  BY HalvesOfTs DEF ByteSeq
<1> HIDE DEF lo, hi
<1>3. Ports \in ByteSeq
  BY PortBytes DEF Ports, ByteSeq
<1>4. p \in Words
  BY DEF IsPadded
<1>5. q \in Words /\ q[8] = Ports /\ q[9] = flags
      /\ \A w \in 0 .. 7 : q[w] = p[w]
  BY <1>3, <1>4 DEF Words
<1> HIDE DEF q
<1>6. r \in Words /\ r[10] = lo /\ r[11] = hi /\ \A w \in 0 .. 9 : r[w] = q[w]
  BY <1>2, <1>5 DEF Words
<1> HIDE DEF r
<1>7. \A w \in 0 .. 7 : r[w] = p[w]
  BY <1>5, <1>6
<1>8. r[8] = skb.sport \o skb.dport /\ r[9] = FlagsOf(skb)
  <2>1. r[8] = q[8] /\ r[9] = q[9]
    BY <1>6
  <2>2. r[8] = Ports /\ r[9] = flags
    BY <1>5, <2>1, Zenon
  <2> QED
    BY <2>2, Zenon DEF Ports
<1>9. /\ \A w \in {0, 1, 2, 4, 6} : r[w] = Blank
      /\ r[3] = skb.src /\ r[7] = skb.dst /\ r[5] = Ones
  BY <1>7 DEF IsPadded
<1>10. IsWire(r, skb)
  BY <1>6, <1>8, <1>9 DEF IsWire, lo, hi
<1> QED
  BY <1>1, <1>10

LEMMA OneMoreReport ==
  ASSUME FlatInv, Chosen(skb), NEW p, IsWire(p, skb), pc # "idle",
         Report(p), ~full, UNCHANGED bigEndian
  PROVE  FlatInv'
<1> DEFINE r == [skb |-> skb, pkt |-> p]
<1>1. StageInv' /\ pc' = "idle"
  BY PassStage DEF Report, FlatInv
<1>2. r \in Reported
  BY DEF Reported, FlatInv, StageInv, IsWire
<1>3. reports \in Seq(Reported) /\ Len(reports) < MaxReports /\ reports' = Append(reports, r)
  BY DEF FlatInv, ReportsInv, Report
<1>4. MaxReports \in Nat
  BY TrafficAssumption
<1>5. Chosen(r.skb) /\ IsWire(r.pkt, r.skb)
  OBVIOUS
<1> HIDE DEF r
<1>6. /\ reports' \in Seq(Reported) /\ Len(reports') = Len(reports) + 1
      /\ \A i \in 1 .. Len(reports) : reports'[i] = reports[i]
      /\ reports'[Len(reports) + 1] = r
  BY <1>2, <1>3, AppendProperties
<1>7. ASSUME NEW i \in DOMAIN reports'
      PROVE  Chosen(reports'[i].skb) /\ IsWire(reports'[i].pkt, reports'[i].skb)
  <2>1. i \in 1 .. Len(reports) + 1
    BY <1>6
  <2>2. CASE i \in 1 .. Len(reports)
    BY <1>3, <1>6, <2>2 DEF FlatInv, ReportsInv
  <2>3. CASE i = Len(reports) + 1
    BY <1>5, <1>6, <2>3
  <2> QED
    BY <1>3, <2>1, <2>2, <2>3
<1>8. ASSUME NEW i \in DOMAIN reports'
      PROVE  Chosen(reports'[i].skb) /\ IsWire(reports[i].pkt, reports[i].skb)'
  <2> DEFINE t == reports'[i]
  <2>1. Chosen(t.skb) /\ IsWire(t.pkt, t.skb)
    BY <1>7
  <2>2. bigEndian' = bigEndian
    OBVIOUS
  <2>3. TsBytes(reports[i].skb)' = TsBytes(t.skb)
    BY <2>2 DEF TsBytes
  <2>4. FlagsOf(reports[i].skb)' = FlagsOf(t.skb) /\ Ones' = Ones
    BY <2>2 DEF FlagsOf, Ones
  <2> QED
    BY <2>1, <2>3, <2>4 DEF IsWire
<1>9. ReportsInv'
  BY <1>1, <1>3, <1>4, <1>6, <1>8 DEF ReportsInv, Chosen
<1> QED
  BY <1>1, <1>9 DEF FlatInv

LEMMA TransportFlat ==
  ASSUME FlatInv, Transport, UNCHANGED bigEndian
  PROVE  FlatInv'
<1>1. pc = "transport" /\ skb \in Traffic /\ bigEndian \in BOOLEAN /\ Chosen(skb)
      /\ IsPadded(pkt, skb)
  BY DEF Transport, FlatInv, StageInv
<1>2. CASE Pass /\ UNCHANGED reports
  BY <1>1, <1>2, PassStage, SameReports DEF FlatInv, ReportsInv
<1>3. CASE /\ skb.proto = TCP /\ ~full
           /\ Report(Stamped([pkt EXCEPT
                ![PortWord] = Ports,
                ![FlagWord] = <<pkt[FlagWord][1], pkt[FlagWord][2], skb.syn, skb.ack>>]))
  <2> DEFINE flags == <<pkt[FlagWord][1], pkt[FlagWord][2], skb.syn, skb.ack>>
  <2>1. /\ skb.proto \in Octet /\ skb.ttl \in Octet /\ skb.syn \in Octet /\ skb.ack \in Octet
    BY <1>1, PacketBytes DEF Octet
  <2>2. pkt[FlagWord][1] = skb.proto /\ pkt[FlagWord][2] = skb.ttl
    BY <1>1, <2>1, WordBytes, FourBytes DEF IsPadded, FlagWord
  <2>3. flags = FlagsOf(skb) /\ flags \in ByteSeq
    BY <1>3, <2>1, <2>2, FourBytes DEF FlagsOf, ByteSeq
  <2> HIDE DEF flags
  <2>4. IsWire(Stamped([pkt EXCEPT ![PortWord] = Ports, ![FlagWord] = flags]), skb)
    BY <1>1, <2>3, StampedIsWire
  <2>5. Report(Stamped([pkt EXCEPT ![PortWord] = Ports, ![FlagWord] = flags]))
    BY <1>3 DEF flags
  <2> QED
    BY <1>1, <1>3, <2>4, <2>5, OneMoreReport
<1>4. CASE /\ skb.proto = UDP /\ ~full
           /\ Report(Stamped([pkt EXCEPT ![PortWord] = Ports]))
  <2> DEFINE flags == pkt[9]
  <2>1. pkt \in Words /\ Ports \in ByteSeq
    BY <1>1, PortBytes DEF IsPadded, Ports, ByteSeq
  <2>2. flags \in ByteSeq
    BY <2>1 DEF Words
  <2>3. flags = FlagsOf(skb)
    <3>1. skb.proto # TCP
      BY <1>4 DEF TCP, UDP
    <3> QED
      BY <1>1, <3>1, Zenon DEF FlagsOf, IsPadded
  <2>4. IsWire(Stamped([pkt EXCEPT ![PortWord] = Ports, ![FlagWord] = flags]), skb)
    BY <1>1, <2>2, <2>3, StampedIsWire
  <2>5. [pkt EXCEPT ![PortWord] = Ports, ![FlagWord] = flags] = [pkt EXCEPT ![PortWord] = Ports]
    <3> DEFINE q == [pkt EXCEPT ![8] = Ports]
    <3>1. q \in Words /\ q[9] = flags
      BY <2>1 DEF Words
    <3> HIDE DEF q, flags
    <3>2. [q EXCEPT ![9] = flags] = q
      BY <3>1 DEF Words
    <3> QED
      BY <3>2 DEF q, PortWord, FlagWord
  <2> QED
    BY <1>1, <1>4, <2>4, <2>5, OneMoreReport
<1>5. ASSUME full, NEW p, Report(p) PROVE Pass /\ UNCHANGED reports
  BY <1>5 DEF Report
<1> QED
  BY <1>2, <1>3, <1>4, <1>5 DEF Transport

LEMMA NextFlat == FlatInv /\ [Next]_vars => FlatInv'
<1> SUFFICES ASSUME FlatInv, [Next]_vars PROVE FlatInv'
  OBVIOUS
<1>1. CASE UNCHANGED vars
  <2>1. StageInv'
    BY <1>1 DEF vars, FlatInv, StageInv, IsPadded, Ones
  <2> QED
    BY <1>1, <2>1, SameReports DEF vars, FlatInv, ReportsInv
<1>2. CASE Next
  BY <1>2, ArriveFlat, LinkFlat, NetworkFlat, TransportFlat DEF Next
<1> QED
  BY <1>1, <1>2

(* At every stage packet_t is what the stages before have made of the      *)
(* packet, and every report that of a packet worth reporting               *)
(* (flat.c:44-171).                                                        *)
THEOREM StagesHold == Spec => []FlatInv
BY InitFlat, NextFlat, PTL DEF Spec

(* The variables of flat keep their types, packet_t its twelve words.      *)
THEOREM FlatTypeCorrect == Spec => []TypeOK
<1>1. FlatInv /\ full \in BOOLEAN => TypeOK
  <2> SUFFICES ASSUME FlatInv, full \in BOOLEAN PROVE TypeOK
    OBVIOUS
  <2>1. offset \in {0, 34, 54}
    BY DEF FlatInv, StageInv, Headed, EthernetHeader, NetworkHeader
  <2>2. DOMAIN pkt = 0 .. 11 /\ \A w \in 0 .. 11 : Len(pkt[w]) = 4
    <3>1. CASE pkt = Zero
      BY <3>1, ZeroWords, WordBytes DEF Words
    <3>2. CASE IsPadded(pkt, skb) /\ skb \in Traffic
      <4>1. pkt \in Words /\ \A w \in {0, 1, 2, 4, 6, 8, 10, 11} : pkt[w] = Blank
        BY <3>2 DEF IsPadded
      <4>2. Len(pkt[3]) = 4 /\ Len(pkt[7]) = 4 /\ Len(pkt[5]) = 4
        BY <3>2, PacketBytes, WordBytes DEF IsPadded
      <4>3. Len(pkt[9]) = 4
        BY <3>2, PacketBytes, WordBytes, FourBytes DEF IsPadded
      <4>4. \A w \in 0 .. 11 : w \in {0, 1, 2, 4, 6, 8, 10, 11} \/ w \in {3, 5, 7, 9}
        OBVIOUS
      <4> QED
        BY <4>1, <4>2, <4>3, <4>4, WordBytes DEF Words
    <3> QED
      BY <3>1, <3>2 DEF FlatInv, StageInv
  <2> QED
    BY <2>1, <2>2 DEF TypeOK, FlatInv, StageInv, ReportsInv
<1>2. Init => full \in BOOLEAN
  BY DEF Init
<1>3. full \in BOOLEAN /\ [Next]_vars => (full \in BOOLEAN)'
  BY DEF Next, vars
<1> QED
  BY <1>1, <1>2, <1>3, StagesHold, PTL DEF Spec

-----------------------------------------------------------------------------
(* What is reported *)

(* Nothing else, and only at the end of the way. *)
LEMMA NothingElse ==
  ASSUME FlatInv, Next, Reports
  PROVE  Finishes /\ Reportable(skb) /\ skb.ether = "IPv4" /\ skb.size >= 54 /\ ~full
<1>1. Transport
  BY DEF Next, Arrive, Link, Network, Reports
<1>2. /\ Headed(skb) /\ Chosen(skb) /\ offset = 34 /\ skb.size \in Nat
      /\ skb \in Traffic
  BY <1>1, PacketBytes DEF Transport, FlatInv, StageInv
<1>3. /\ 34 + TcpHeader <= skb.size
      /\ skb.proto = UDP \/ (skb.proto = TCP /\ skb.syn = 1)
  BY <1>1, <1>2 DEF Transport, Reports, TcpHeader, UdpHeader
<1>4. Reportable(skb) /\ skb.ether = "IPv4" /\ skb.size >= 54
  BY <1>2, <1>3 DEF Reportable, Headed, Chosen, HeadersEnd, EthernetHeader,
                    NetworkHeader, TcpHeader, UdpHeader
<1>5. Finishes /\ ~full
  BY <1>1 DEF Transport, Report, Pass, Finishes, Reports
<1> QED
  BY <1>4, <1>5

(* Nothing less. *)
LEMMA NothingLess ==
  ASSUME FlatInv, Next, Finishes, Reportable(skb), skb.ether = "IPv4", skb.size >= 54, ~full
  PROVE  Reports
<1>1. skb \in Traffic /\ skb.size \in Nat /\ skb.proto \in {TCP, UDP}
  BY PacketBytes DEF FlatInv, StageInv, Reportable
<1>2. ~Link
  BY <1>1 DEF Link, Finishes, Reportable, EthernetHeader
<1>3. ~Network
  <2>1. ASSUME Network PROVE FALSE
    <3>1. offset = 34
      BY <2>1 DEF Network, FlatInv, StageInv, EthernetHeader, NetworkHeader
    <3>2. ~Rejected(skb.ether, skb.proto)
      BY <1>1 DEF Rejected
    <3> QED
      BY <1>1, <2>1, <3>1, <3>2 DEF Network, Finishes
  <2> QED
    BY <2>1
<1>4. Transport
  BY <1>2, <1>3 DEF Next, Arrive, Finishes
<1>5. offset = 34
  BY <1>4 DEF Transport, FlatInv, StageInv
<1>6. PICK p : Report(p)
  <2>1. ~(offset + TcpHeader > skb.size \/ offset + UdpHeader > skb.size)
    BY <1>1, <1>5 DEF TcpHeader, UdpHeader
  <2>2. skb.proto = TCP => skb.syn # 0
    BY DEF Reportable, TCP, UDP
  <2> QED
    BY <1>4, <2>1, <2>2, Zenon DEF Transport
<1>7. reports \in Seq(Reported) /\ [skb |-> skb, pkt |-> p] \in {[skb |-> skb, pkt |-> p]}
  BY DEF FlatInv, ReportsInv
<1>8. reports' = Append(reports, [skb |-> skb, pkt |-> p])
  BY <1>6 DEF Report
<1>9. Append(reports, [skb |-> skb, pkt |-> p]) # reports
  <2> DEFINE r == [skb |-> skb, pkt |-> p]
             X == Reported \cup {r}
  <2>1. reports \in Seq(X) /\ r \in X
    BY <1>7
  <2> HIDE DEF r, X
  <2>2. Len(Append(reports, r)) = Len(reports) + 1 /\ Len(reports) \in Nat
    BY <2>1, AppendProperties, LenProperties
  <2> QED
    BY <2>2 DEF r
<1> QED
  BY <1>8, <1>9 DEF Reports

(* flat reports exactly what it is there for, where a TCP header fits in   *)
(* and the ring has room for the record (flat.c:48-171): nothing else,     *)
(* nothing less, and nothing twice.                                        *)
THEOREM ReportsExactlyRoomyIPv4 == Spec => ReportsExactly
<1>1. FlatInv /\ [Next]_vars =>
        [Reports <=> Finishes /\ Reportable(skb) /\ skb.ether = "IPv4"
                       /\ skb.size >= 54 /\ ~full]_vars
  BY NothingElse, NothingLess
<1> QED
  BY <1>1, StagesHold, PTL DEF Spec, ReportsExactly

-----------------------------------------------------------------------------
(* What arrives in user space *)

(* A concatenation, under a name that the provers do not look behind.      *)
Joined(a, b)          == a \o b
Address(a, b, c, d)   == Joined(Joined(Joined(a, b), c), d)
LastWord(a)           == SubSeq(a, 13, 16)

AreJoined(S, a, b, x) ==
  /\ x \in Seq(S) /\ Len(x) = Len(a) + Len(b)
  /\ \A i \in 1 .. Len(a) : x[i] = a[i]
  /\ \A i \in 1 .. Len(b) : x[Len(a) + i] = b[i]

LEMMA JoinedBytes ==
  ASSUME NEW S, NEW a \in Seq(S), NEW b \in Seq(S)
  PROVE  AreJoined(S, a, b, Joined(a, b))
<1>1. /\ a \o b \in Seq(S) /\ Len(a \o b) = Len(a) + Len(b)
      /\ \A i \in 1 .. Len(a) + Len(b) :
           (a \o b)[i] = IF i <= Len(a) THEN a[i] ELSE b[i - Len(a)]
  BY ConcatProperties
<1> DEFINE x == Joined(a, b)
           m == Len(a)
           n == Len(b)
<1>2. /\ x \in Seq(S) /\ Len(x) = m + n
      /\ \A i \in 1 .. m + n : x[i] = IF i <= m THEN a[i] ELSE b[i - m]
  BY <1>1 DEF Joined
<1>3. m \in Nat /\ n \in Nat
  BY LenProperties
<1> HIDE DEF x, m, n
<1>4. ASSUME NEW i \in 1 .. m PROVE x[i] = a[i]
  BY <1>2, <1>3
<1>5. ASSUME NEW i \in 1 .. n PROVE x[m + i] = b[i]
  <2>1. m + i \in 1 .. m + n /\ ~(m + i <= m) /\ m + i - m = i
    BY <1>3
  <2>2. \A j \in 1 .. m + n : ~(j <= m) => x[j] = b[j - m]
    BY <1>2
  <2> QED
    BY <1>3, <2>1, <2>2
<1> QED
  BY <1>2, <1>4, <1>5 DEF x, m, n, AreJoined

(* An address in user space, its second word and its last. *)
LEMMA AddressBytes ==
  ASSUME NEW S, NEW a \in Seq(S), NEW b \in Seq(S), NEW c \in Seq(S), NEW d \in Seq(S),
         Len(a) = 4, Len(b) = 4, Len(c) = 4, Len(d) = 4
  PROVE  /\ Address(a, b, c, d)[5] = b[1] /\ Address(a, b, c, d)[7] = b[3]
         /\ LastWord(Address(a, b, c, d)) = d
<1>1. PICK x : x = Joined(a, b)
  OBVIOUS
<1>2. x \in Seq(S) /\ Len(x) = 8 /\ x[5] = b[1] /\ x[7] = b[3]
  <2>1. AreJoined(S, a, b, x)
    BY <1>1, JoinedBytes, Zenon
  <2>2. x \in Seq(S) /\ Len(x) = 8 /\ \A i \in 1 .. 4 : x[4 + i] = b[i]
    BY <2>1 DEF AreJoined
  <2>3. x[4 + 1] = b[1] /\ x[4 + 3] = b[3]
    BY <2>2
  <2> QED
    BY <2>2, <2>3
<1>3. PICK y : y = Joined(x, c)
  OBVIOUS
<1>4. y \in Seq(S) /\ Len(y) = 12 /\ \A i \in 1 .. 8 : y[i] = x[i]
  <2>1. AreJoined(S, x, c, y)
    BY <1>2, <1>3, JoinedBytes, Zenon
  <2> QED
    BY <1>2, <2>1 DEF AreJoined
<1>5. PICK z : z = Joined(y, d)
  OBVIOUS
<1>6. /\ z \in Seq(S) /\ Len(z) = 16 /\ \A i \in 1 .. 12 : z[i] = y[i]
      /\ \A i \in 1 .. 4 : z[12 + i] = d[i]
  <2>1. AreJoined(S, y, d, z)
    BY <1>4, <1>5, JoinedBytes, Zenon
  <2> QED
    BY <1>4, <2>1 DEF AreJoined
<1>7. z[5] = b[1] /\ z[7] = b[3]
  <2>1. z[5] = y[5] /\ z[7] = y[7] /\ y[5] = x[5] /\ y[7] = x[7]
    BY <1>4, <1>6
  <2> QED
    BY <1>2, <2>1
<1>8. LastWord(z) = d
  <2>1. \A i \in 13 .. 16 : z[i] \in S
    <3>1. \A i \in 1 .. Len(z) : z[i] \in S
      BY <1>6, ElementOfSeq, Zenon
    <3> QED
      BY <1>6, <3>1
  <2>2. PICK t : t = LastWord(z)
    OBVIOUS
  <2>3. t \in Seq(S) /\ Len(t) = 4 /\ \A i \in 1 .. 4 : t[i] = z[13 + i - 1]
    BY <2>1, <2>2, SubSeqProperties DEF LastWord
  <2>4. \A i \in 1 .. 4 : t[i] = d[i]
    <3>1. \A i \in 1 .. 4 : 13 + i - 1 = 12 + i
      OBVIOUS
    <3> QED
      BY <1>6, <2>3, <3>1
  <2>5. t = d
    BY <2>3, <2>4, SeqEqual
  <2> QED
    BY <2>2, <2>5
<1> QED
  BY <1>1, <1>3, <1>5, <1>7, <1>8, Zenon DEF Address

(* The two addresses as user space has them are spelled differently.       *)
SrcForm(s) == Address(Blank, Blank, Blank, s.src)
DstForm(s) == Address(Blank, Ones, Blank, s.dst)

LEMMA Forms ==
  ASSUME NEW s \in Traffic
  PROVE  /\ LastWord(SrcForm(s)) = s.src /\ LastWord(DstForm(s)) = s.dst
         /\ SrcForm(s)[5] = 0 /\ SrcForm(s)[7] = 0
         /\ DstForm(s)[5] = 255 \/ DstForm(s)[7] = 255
<1>1. /\ Blank \in Seq(Octet) /\ Ones \in Seq(Octet)
      /\ s.src \in Seq(Octet) /\ s.dst \in Seq(Octet)
      /\ Len(Blank) = 4 /\ Len(Ones) = 4 /\ Len(s.src) = 4 /\ Len(s.dst) = 4
  BY PacketBytes, WordBytes
<1>2. /\ SrcForm(s)[5] = Blank[1] /\ SrcForm(s)[7] = Blank[3]
      /\ LastWord(SrcForm(s)) = s.src
  BY <1>1, AddressBytes DEF SrcForm
<1>3. /\ DstForm(s)[5] = Ones[1] /\ DstForm(s)[7] = Ones[3]
      /\ LastWord(DstForm(s)) = s.dst
  BY <1>1, AddressBytes DEF DstForm
<1> QED
  BY <1>2, <1>3, WordBytes

(* What UnmarshalBinary makes of a report. *)
IsRead(u, s) ==
  /\ u.SrcIP = SrcForm(s) /\ u.DstIP = DstForm(s)
  /\ u.SrcPort = s.sport[1] * 256 + s.sport[2]
  /\ u.DstPort = s.dport[1] * 256 + s.dport[2]
  /\ u.Protocol = s.proto /\ u.TTL = s.ttl
  /\ u.Syn = (s.syn = 1) /\ u.Ack = (s.ack = 1)
  /\ u.Timestamp = SubSeq(TsBytes(s), 1, 4) \o SubSeq(TsBytes(s), 5, 8)

LEMMA Unmarshalled ==
  ASSUME NEW p, NEW s \in Traffic, Chosen(s), IsWire(p, s)
  PROVE  IsRead(UnmarshalBinary(p), s)
<1> DEFINE u == UnmarshalBinary(p)
<1>1. u.SrcIP = SrcForm(s) /\ u.DstIP = DstForm(s)
  <2>1. /\ Src = 0 /\ Src + 1 = 1 /\ Src + 2 = 2 /\ Src + 3 = 3
        /\ Dst = 4 /\ Dst + 1 = 5 /\ Dst + 2 = 6 /\ Dst + 3 = 7
    BY DEF Src, Dst
  <2>2. u.SrcIP = p[Src] \o p[Src + 1] \o p[Src + 2] \o p[Src + 3]
    BY DEF UnmarshalBinary
  <2>3. u.DstIP = p[Dst] \o p[Dst + 1] \o p[Dst + 2] \o p[Dst + 3]
    BY DEF UnmarshalBinary
  <2>4. /\ u.SrcIP = Address(p[0], p[1], p[2], p[3])
        /\ u.DstIP = Address(p[4], p[5], p[6], p[7])
    BY <2>1, <2>2, <2>3, Zenon DEF Address, Joined
  <2>5. /\ p[0] = Blank /\ p[1] = Blank /\ p[2] = Blank /\ p[3] = s.src
        /\ p[4] = Blank /\ p[5] = Ones /\ p[6] = Blank /\ p[7] = s.dst
    BY DEF IsWire
  <2> QED
    BY <2>4, <2>5, Zenon DEF SrcForm, DstForm
<1>2. /\ p[8][1] = s.sport[1] /\ p[8][2] = s.sport[2]
      /\ p[8][3] = s.dport[1] /\ p[8][4] = s.dport[2]
  <2>1. p[8] = Joined(s.sport, s.dport)
    BY DEF IsWire, Joined
  <2>2. /\ Joined(s.sport, s.dport)[1] = s.sport[1]
        /\ Joined(s.sport, s.dport)[2] = s.sport[2]
        /\ Joined(s.sport, s.dport)[3] = s.dport[1]
        /\ Joined(s.sport, s.dport)[4] = s.dport[2]
    BY PortBytes DEF Joined
  <2> QED
    BY <2>1, <2>2
<1>3. /\ u.SrcPort = s.sport[1] * 256 + s.sport[2]
      /\ u.DstPort = s.dport[1] * 256 + s.dport[2]
  BY <1>2 DEF UnmarshalBinary, PortWord
<1>4. s.proto \in Octet /\ s.ttl \in Octet /\ s.syn \in Octet /\ s.ack \in Octet
  BY PacketBytes DEF Octet
<1>5. p[9][1] = s.proto /\ p[9][2] = s.ttl /\ (p[9][3] = 1) = (s.syn = 1)
      /\ (p[9][4] = 1) = (s.ack = 1)
  <2>1. p[9] = FlagsOf(s)
    BY DEF IsWire
  <2>2. CASE s.proto = TCP
    BY <1>4, <2>1, <2>2, FourBytes DEF FlagsOf
  <2>3. CASE s.proto # TCP
    <3>1. s.syn = 0 /\ s.ack = 0
      BY <2>3, PacketBytes
    <3>2. p[9] = <<s.proto, s.ttl, Ones[3], Ones[4]>>
      BY <2>1, <2>3 DEF FlagsOf
    <3>3. /\ p[9][1] = s.proto /\ p[9][2] = s.ttl
          /\ p[9][3] = Ones[3] /\ p[9][4] = Ones[4]
      BY <1>4, <3>2, WordBytes, FourBytes
    <3> QED
      BY <3>1, <3>3, WordBytes
  <2> QED
    BY <2>2, <2>3
<1>6. /\ u.Protocol = s.proto /\ u.TTL = s.ttl
      /\ u.Syn = (s.syn = 1) /\ u.Ack = (s.ack = 1)
  BY <1>5 DEF UnmarshalBinary, FlagWord
<1>7. u.Timestamp = SubSeq(TsBytes(s), 1, 4) \o SubSeq(TsBytes(s), 5, 8)
  BY Zenon DEF UnmarshalBinary, IsWire
<1> QED
  BY <1>1, <1>3, <1>6, <1>7, Zenon DEF IsRead

(* What there is to know of a report. *)
LEMMA ReportKnown ==
  ASSUME FlatInv, NEW i \in DOMAIN reports
  PROVE  Sent(i) \in Traffic /\ IsRead(Decoded[i], Sent(i))
<1>1. reports \in Seq(Reported)
  BY DEF FlatInv, ReportsInv
<1>2. i \in 1 .. Len(reports)
  BY <1>1, LenProperties
<1>3. reports[i] \in Reported
  BY <1>1, <1>2, ElementOfSeq
<1>4. Sent(i) \in Traffic
  BY <1>3 DEF Reported, Sent
<1>5. Chosen(Sent(i)) /\ IsWire(reports[i].pkt, Sent(i))
  BY DEF FlatInv, ReportsInv, Sent
<1>6. Decoded[i] = UnmarshalBinary(reports[i].pkt)
  BY DEF Decoded
<1> QED
  BY <1>4, <1>5, <1>6, Unmarshalled, Zenon

(* What the display and the table go by survives, although two stores go   *)
(* past the end of an address (flat.c:92-100, packet.go:40-66).            *)
THEOREM HeadersSurvive == Spec => []HeaderSurvives
<1>1. FlatInv => HeaderSurvives
  <2> SUFFICES ASSUME FlatInv, NEW i \in DOMAIN reports
               PROVE  LET p == Decoded[i]
                          s == Sent(i)
                      IN /\ <<p.SrcPort, p.DstPort>> = <<s.sport[1] * 256 + s.sport[2],
                                                         s.dport[1] * 256 + s.dport[2]>>
                         /\ <<p.Protocol, p.TTL>> = <<s.proto, s.ttl>>
                         /\ p.Syn = (s.syn = 1) /\ p.Ack = (s.ack = 1)
                         /\ SubSeq(p.SrcIP, 13, 16) = s.src
                         /\ SubSeq(p.DstIP, 13, 16) = s.dst
    BY Zenon DEF HeaderSurvives
  <2> DEFINE u == Decoded[i]
             s == Sent(i)
  <2>1. s \in Traffic /\ IsRead(u, s)
    BY ReportKnown
  <2> HIDE DEF u, s
  <2>2. /\ u.SrcIP = SrcForm(s) /\ u.DstIP = DstForm(s)
        /\ u.SrcPort = s.sport[1] * 256 + s.sport[2]
        /\ u.DstPort = s.dport[1] * 256 + s.dport[2]
        /\ u.Protocol = s.proto /\ u.TTL = s.ttl
        /\ u.Syn = (s.syn = 1) /\ u.Ack = (s.ack = 1)
    BY <2>1, Zenon DEF IsRead
  <2>3. SubSeq(u.SrcIP, 13, 16) = s.src /\ SubSeq(u.DstIP, 13, 16) = s.dst
    <3>1. LastWord(SrcForm(s)) = s.src /\ LastWord(DstForm(s)) = s.dst
      BY <2>1, Forms, Zenon
    <3>2. LastWord(u.SrcIP) = s.src /\ LastWord(u.DstIP) = s.dst
      BY <2>2, <3>1, Zenon
    <3> QED
      BY <3>2, Zenon DEF LastWord
  <2> QED
    BY <2>2, <2>3, Zenon DEF u, s
<1> QED
  BY <1>1, StagesHold, PTL

(* The halves of a timestamp are the timestamp. *)
LEMMA TsRejoined ==
  ASSUME NEW s \in Traffic, bigEndian \in BOOLEAN
  PROVE  SubSeq(TsBytes(s), 1, 4) \o SubSeq(TsBytes(s), 5, 8) = TsBytes(s)
<1> DEFINE a == SubSeq(TsBytes(s), 1, 4)
           b == SubSeq(TsBytes(s), 5, 8)
           t == TsBytes(s)
           x == Joined(a, b)
<1>1. /\ t \in Seq(Octet) /\ Len(t) = 8
      /\ a \in Seq(Octet) /\ Len(a) = 4 /\ b \in Seq(Octet) /\ Len(b) = 4
      /\ \A k \in 1 .. 4 : a[k] = t[k] /\ b[k] = t[4 + k]
  BY HalvesOfTs
<1>2. a \o b = x
  BY DEF Joined
<1> HIDE DEF a, b, t
<1>3. AreJoined(Octet, a, b, x)
  BY <1>1, JoinedBytes, Zenon
<1> HIDE DEF x
<1>4. /\ x \in Seq(Octet) /\ Len(x) = 8
      /\ \A k \in 1 .. 4 : x[k] = a[k] /\ x[4 + k] = b[k]
  BY <1>1, <1>3 DEF AreJoined
<1>5. ASSUME NEW k \in 1 .. 8 PROVE x[k] = t[k]
  <2>1. CASE k \in 1 .. 4
    BY <1>1, <1>4, <2>1
  <2>2. CASE k \in 5 .. 8
    <3>1. k - 4 \in 1 .. 4 /\ 4 + (k - 4) = k
      BY <2>2
    <3> QED
      BY <1>1, <1>4, <3>1
  <2> QED
    BY <2>1, <2>2
<1>6. x = t
  BY <1>1, <1>4, <1>5, SeqEqual
<1> QED
  BY <1>2, <1>6, Zenon DEF a, b, t

(* So does the timestamp on a little-endian machine (flat.c:144, 159;      *)
(* packet.go:62).                                                          *)
THEOREM TimestampsSurvive == Spec => []TimestampSurvives
<1>1. ASSUME FlatInv, ~bigEndian, NEW i \in DOMAIN reports
      PROVE  Decoded[i].Timestamp = Sent(i).ts
  <2> DEFINE s == Sent(i)
  <2>1. s \in Traffic /\ IsRead(Decoded[i], s)
    BY <1>1, ReportKnown
  <2>2. Decoded[i].Timestamp = SubSeq(TsBytes(s), 1, 4) \o SubSeq(TsBytes(s), 5, 8)
    BY <2>1, Zenon DEF IsRead
  <2>3. bigEndian \in BOOLEAN
    BY <1>1 DEF FlatInv, StageInv
  <2>4. Decoded[i].Timestamp = TsBytes(s)
    BY <2>1, <2>2, <2>3, TsRejoined, Zenon
  <2> QED
    BY <1>1, <2>4 DEF TsBytes
<1>2. FlatInv => TimestampSurvives
  BY <1>1, Zenon DEF TimestampSurvives
<1> QED
  BY <1>2, StagesHold, PTL

-----------------------------------------------------------------------------
(* The hash *)

LEMMA HashDomain ==
  ASSUME NEW p
  PROVE  DOMAIN Hash(p) = {<<p.SrcIP, p.SrcPort>>, <<p.DstIP, p.DstPort>>, <<p.Protocol>>}
BY DEF Hash, (+), SetToBag

(* Two ports are the same when they are the same number. *)
LEMMA PortsEqual ==
  ASSUME NEW a \in Seq(Octet), NEW b \in Seq(Octet), Len(a) = 2, Len(b) = 2,
         a[1] * 256 + a[2] = b[1] * 256 + b[2]
  PROVE  a = b
<1>1. /\ a[1] \in Octet /\ a[2] \in Octet /\ b[1] \in Octet /\ b[2] \in Octet
  <2>1. 1 \in 1 .. Len(a) /\ 2 \in 1 .. Len(a) /\ 1 \in 1 .. Len(b) /\ 2 \in 1 .. Len(b)
    OBVIOUS
  <2> QED
    BY <2>1, ElementOfSeq
<1>2. ASSUME NEW x \in Octet, NEW y \in Octet, NEW z \in Octet, NEW w \in Octet,
             x * 256 + y = z * 256 + w
      PROVE  x = z /\ y = w
  BY <1>2 DEF Octet
<1>3. a[1] = b[1] /\ a[2] = b[2]
  BY <1>1, <1>2
<1>4. \A i \in 1 .. Len(a) : a[i] = b[i]
  BY <1>3
<1> QED
  BY <1>4, SeqEqual

(* Two packets have the same terms when no source is the other destination. *)
LEMMA TermsEqual ==
  ASSUME NEW u, NEW v, u.SrcIP # v.DstIP, u.DstIP # v.SrcIP,
         {<<u.SrcIP, u.SrcPort>>, <<u.DstIP, u.DstPort>>, <<u.Protocol>>}
           = {<<v.SrcIP, v.SrcPort>>, <<v.DstIP, v.DstPort>>, <<v.Protocol>>}
  PROVE  /\ u.SrcIP = v.SrcIP /\ u.SrcPort = v.SrcPort
         /\ u.DstIP = v.DstIP /\ u.DstPort = v.DstPort /\ u.Protocol = v.Protocol
<1>1. \A a, b, c : <<a, b>> # <<c>>
  OBVIOUS
<1>2. \A a, b, c, d : <<a, b>> = <<c, d>> => a = c /\ b = d
  OBVIOUS
<1>3. \A a, b : <<a>> = <<b>> => a = b
  OBVIOUS
<1>4. /\ <<u.SrcIP, u.SrcPort>> = <<v.SrcIP, v.SrcPort>>
      /\ <<u.DstIP, u.DstPort>> = <<v.DstIP, v.DstPort>>
      /\ <<u.Protocol>> = <<v.Protocol>>
  BY <1>1, <1>2, Zenon
<1> QED
  BY <1>2, <1>3, <1>4, Zenon

(* The addresses of a report are spelled in two ways and the protocol      *)
(* stands alone, so two hashes are equal exactly when the packets go the   *)
(* same way: an answer has another (flat.c:96-97, packet.go:83).           *)
LEMMA HashOfReport ==
  ASSUME FlatInv, NEW i \in DOMAIN reports, NEW j \in DOMAIN reports
  PROVE  Hash(Decoded[i]) = Hash(Decoded[j]) <=> SameWay(Sent(i), Sent(j))
<1> DEFINE s == Sent(i)
           t == Sent(j)
           u == Decoded[i]
           v == Decoded[j]
<1>1. s \in Traffic /\ t \in Traffic /\ IsRead(u, s) /\ IsRead(v, t)
  BY ReportKnown
<1> HIDE DEF s, t, u, v
<1>2. u.SrcIP = SrcForm(s) /\ v.SrcIP = SrcForm(t)
  BY <1>1, Zenon DEF IsRead
<1>3. u.DstIP = DstForm(s) /\ v.DstIP = DstForm(t)
  BY <1>1, Zenon DEF IsRead
<1>4. /\ u.SrcPort = s.sport[1] * 256 + s.sport[2]
      /\ v.SrcPort = t.sport[1] * 256 + t.sport[2]
  BY <1>1, Zenon DEF IsRead
<1>5. /\ u.DstPort = s.dport[1] * 256 + s.dport[2]
      /\ v.DstPort = t.dport[1] * 256 + t.dport[2]
  BY <1>1, Zenon DEF IsRead
<1>6. u.Protocol = s.proto /\ v.Protocol = t.proto
  BY <1>1, Zenon DEF IsRead
<1>7. ASSUME Hash(u) = Hash(v) PROVE SameWay(s, t)
  <2>1. {<<u.SrcIP, u.SrcPort>>, <<u.DstIP, u.DstPort>>, <<u.Protocol>>}
          = {<<v.SrcIP, v.SrcPort>>, <<v.DstIP, v.DstPort>>, <<v.Protocol>>}
    <3>1. DOMAIN Hash(u) = {<<u.SrcIP, u.SrcPort>>, <<u.DstIP, u.DstPort>>, <<u.Protocol>>}
      BY HashDomain
    <3>2. DOMAIN Hash(v) = {<<v.SrcIP, v.SrcPort>>, <<v.DstIP, v.DstPort>>, <<v.Protocol>>}
      BY HashDomain
    <3> QED
      BY <1>7, <3>1, <3>2, Zenon
  <2>2. u.SrcIP # v.DstIP /\ u.DstIP # v.SrcIP
    <3>1. ASSUME NEW x \in Traffic, NEW y \in Traffic PROVE SrcForm(x) # DstForm(y)
      BY <3>1, Forms
    <3> QED
      BY <1>1, <1>2, <1>3, <3>1, Zenon
  <2>3. /\ u.SrcIP = v.SrcIP /\ u.SrcPort = v.SrcPort
        /\ u.DstIP = v.DstIP /\ u.DstPort = v.DstPort /\ u.Protocol = v.Protocol
    BY <2>1, <2>2, TermsEqual, Zenon
  <2>4. s.src = t.src /\ s.dst = t.dst
    <3>1. SrcForm(s) = SrcForm(t) /\ DstForm(s) = DstForm(t)
      BY <1>2, <1>3, <2>3, Zenon
    <3>2. LastWord(SrcForm(s)) = s.src /\ LastWord(DstForm(s)) = s.dst
      BY <1>1, Forms, Zenon
    <3>3. LastWord(SrcForm(t)) = t.src /\ LastWord(DstForm(t)) = t.dst
      BY <1>1, Forms, Zenon
    <3> QED
      BY <3>1, <3>2, <3>3, Zenon
  <2>5. s.sport = t.sport
    <3>1. /\ s.sport \in Seq(Octet) /\ Len(s.sport) = 2
          /\ t.sport \in Seq(Octet) /\ Len(t.sport) = 2
      BY <1>1, PacketBytes
    <3>2. s.sport[1] * 256 + s.sport[2] = t.sport[1] * 256 + t.sport[2]
      BY <1>4, <2>3, Zenon
    <3> QED
      BY <3>1, <3>2, PortsEqual, Zenon
  <2>6. s.dport = t.dport
    <3>1. /\ s.dport \in Seq(Octet) /\ Len(s.dport) = 2
          /\ t.dport \in Seq(Octet) /\ Len(t.dport) = 2
      BY <1>1, PacketBytes
    <3>2. s.dport[1] * 256 + s.dport[2] = t.dport[1] * 256 + t.dport[2]
      BY <1>5, <2>3, Zenon
    <3> QED
      BY <3>1, <3>2, PortsEqual, Zenon
  <2>7. s.proto = t.proto
    BY <1>6, <2>3, Zenon
  <2> QED
    BY <2>4, <2>5, <2>6, <2>7 DEF SameWay
<1>8. ASSUME SameWay(s, t) PROVE Hash(u) = Hash(v)
  <2>1. /\ s.src = t.src /\ s.dst = t.dst /\ s.sport = t.sport /\ s.dport = t.dport
        /\ s.proto = t.proto
    BY <1>8 DEF SameWay
  <2>2. SrcForm(s) = SrcForm(t) /\ DstForm(s) = DstForm(t)
    BY <2>1, Zenon DEF SrcForm, DstForm
  <2>3. u.SrcIP = v.SrcIP /\ u.DstIP = v.DstIP
    BY <1>2, <1>3, <2>2, Zenon
  <2>4. u.SrcPort = v.SrcPort
    BY <1>4, <2>1, Zenon
  <2>5. u.DstPort = v.DstPort
    BY <1>5, <2>1, Zenon
  <2>6. u.Protocol = v.Protocol
    BY <1>6, <2>1, Zenon
  <2> QED
    BY <2>3, <2>4, <2>5, <2>6, Zenon DEF Hash
<1> QED
  BY <1>7, <1>8 DEF s, t, u, v

(* The first half of "a unique hash value for each network flow"           *)
(* (packet.go:68): the hash tells flows apart.                             *)
THEOREM HashTellsApart == Spec => []HashTellsFlowsApart
<1>1. FlatInv => HashTellsFlowsApart
  BY HashOfReport, Zenon DEF HashTellsFlowsApart
<1> QED
  BY <1>1, StagesHold, PTL

(* A hash belongs to one direction: packets share it exactly when they go  *)
(* the same way, so that no answer, on whichever endpoints and in either   *)
(* byte order, has that of the packet it answers (flat.c:96, packet.go:83).*)
HashIsOfOneWay ==
  \A i, j \in DOMAIN reports :
    Hash(Decoded[i]) = Hash(Decoded[j]) <=> SameWay(Sent(i), Sent(j))

(* What flat reports of a packet and of its answer never meets in the      *)
(* table: the hashes of the two directions differ (packet.go:83-90).       *)
THEOREM HashTellsDirections == Spec => []HashIsOfOneWay
<1>1. FlatInv => HashIsOfOneWay
  BY HashOfReport, Zenon DEF HashIsOfOneWay
<1> QED
  BY <1>1, StagesHold, PTL
==============================================================================
