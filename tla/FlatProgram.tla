----------------------------- MODULE FlatProgram -----------------------------
(***************************************************************************)
(* The path of one packet through flat.c: three stages of checks, each of  *)
(* which may let it pass unreported, then the 48 bytes of packet_t that go *)
(* to user space, where UnmarshalBinary and Hash read them.                *)
(*                                                                         *)
(* packet_t is twelve words of four bytes: 0-3 src_ip, 4-7 dst_ip, 8 the   *)
(* ports, 9 protocol, ttl, syn and ack, 10-11 ts.  The stores past the end *)
(* of an address (flat.c:96-97) are undefined in C; the build kept in      *)
(* flat.ll (lines 85-89) performs them as they stand, in source order.     *)
(***************************************************************************)
EXTENDS Integers, Sequences, SequencesExt, Bags

CONSTANTS
  Traffic,     \* the packets that may arrive
  MaxReports   \* bound: number of packets reported

TCP == 6
UDP == 17

Bytes(n) == {b \in Seq(0 .. 255) : Len(b) = n}

(* An IPv4 packet without options, as far as flat looks at it: `size' is   *)
(* the length of its linear part, addresses and ports are bytes, and only  *)
(* a TCP segment has flags.  `ts' is the time at which it would be         *)
(* stamped, as eight digits of base 256, the lowest first.                 *)
Skb == [pulled : BOOLEAN, cast : {"host", "broadcast", "multicast"},
        size : Nat, ether : {"IPv4", "IPv6", "other"}, proto : 0 .. 255,
        src : Bytes(4), dst : Bytes(4), sport : Bytes(2), dport : Bytes(2),
        ttl : 0 .. 255, syn : {0, 1}, ack : {0, 1}, ts : Bytes(8)]

ASSUME TrafficAssumption ==
  /\ Traffic \subseteq Skb /\ Traffic # {}
  /\ \A p \in Traffic : p.proto # TCP => p.syn = 0 /\ p.ack = 0
  /\ MaxReports \in Nat

VARIABLES
  bigEndian, \* the byte order of the machine: flat is built for either
  full,      \* has the ring no room for a record at the moment?
  pc,        \* the stage that comes next, or "idle" between two packets
  skb,       \* the packet
  offset,    \* where its transport header begins
  pkt,       \* packet_t, on the stack of flat
  reports    \* what was put out: the packet and the bytes that stand for it

vars == <<bigEndian, full, pc, skb, offset, pkt, reports>>

Zero     == [w \in 0 .. 11 |-> <<0, 0, 0, 0>>]
Src      == 0   \* the first word of src_ip
Dst      == 4   \* the first word of dst_ip
PortWord == 8
FlagWord == 9

NoPacket == CHOOSE p \in Traffic : TRUE

Init ==
  /\ bigEndian \in BOOLEAN /\ full \in BOOLEAN
  /\ pc = "idle" /\ skb = NoPacket
  /\ offset = 0 /\ pkt = Zero /\ reports = <<>>

(* TC_ACT_OK: the packet goes on its way. *)
Pass == pc' = "idle" /\ skb' = NoPacket /\ offset' = 0 /\ pkt' = Zero

Arrive(p) ==
  /\ pc = "idle"
  /\ Len(reports) < MaxReports
  /\ skb' = p
  /\ pc' = "link"
  /\ UNCHANGED <<offset, pkt, reports>>

(* Mutation: room for a VLAN tag. *)
EthernetHeaderTagged == 18

EthernetHeader == 14
NetworkHeader(ether) == IF ether = "IPv4" THEN 20 ELSE 40
TcpHeader == 20
UdpHeader == 8

(* Mutation: multicast is not told from unicast. *)
LinkAnyCast ==
  /\ pc = "link"
  /\ IF \/ ~skb.pulled
        \/ EthernetHeader > skb.size
        \/ skb.ether = "other"
       THEN Pass
       ELSE /\ pc' = "network"
            /\ offset' = EthernetHeader + NetworkHeader(skb.ether)
            /\ UNCHANGED <<skb, pkt>>
  /\ UNCHANGED reports

Link ==
  /\ pc = "link"
  /\ IF \/ ~skb.pulled
        \/ skb.cast \in {"broadcast", "multicast"}
        \/ EthernetHeader > skb.size
        \/ skb.ether = "other"
       THEN Pass
       ELSE /\ pc' = "network"
            /\ offset' = EthernetHeader + NetworkHeader(skb.ether)
            /\ UNCHANGED <<skb, pkt>>
  /\ UNCHANGED reports

(* Mutation: the condition of IPv6 for IPv4, too. *)
RejectedAll(ether, proto) == proto # TCP \/ proto # UDP

(* The protocols that flat turns away.  For IPv6 it is every protocol, as  *)
(* none is both TCP and UDP: what follows (flat.c:117-123) is dead code.   *)
Rejected(ether, proto) ==
  IF ether = "IPv4" THEN proto # TCP /\ proto # UDP
                    ELSE proto # TCP \/ proto # UDP

(* 0xffff as a 32-bit integer of the machine. *)
Ones == IF bigEndian THEN <<0, 0, 255, 255>> ELSE <<255, 255, 0, 0>>

(* Mutation: the padding is stored last. *)
NetworkPadsLast ==
  /\ pc = "network"
  /\ IF offset > skb.size \/ Rejected(skb.ether, skb.proto)
       THEN Pass
       ELSE /\ pc' = "transport"
            /\ pkt' = [pkt EXCEPT
                 ![Src + 3] = skb.src,
                 ![Dst + 3] = skb.dst,
                 ![FlagWord] = <<skb.proto, skb.ttl, @[3], @[4]>>,
                 ![Src + 5] = Ones,
                 ![Dst + 5] = Ones]
            /\ UNCHANGED <<skb, offset>>
  /\ UNCHANGED reports

(* The addresses and their padding; protocol and TTL come after it. *)
Padded(p) == [p EXCEPT ![Src + 3] = skb.src, ![Dst + 3] = skb.dst,
                       ![Src + 5] = Ones, ![Dst + 5] = Ones]

Network ==
  /\ pc = "network"
  /\ IF offset > skb.size \/ Rejected(skb.ether, skb.proto)
       THEN Pass
       ELSE /\ pc' = "transport"
            /\ pkt' = [Padded(pkt) EXCEPT ![FlagWord] = <<skb.proto, skb.ttl, @[3], @[4]>>]
            /\ UNCHANGED <<skb, offset>>
  /\ UNCHANGED reports

Ports == skb.sport \o skb.dport

(* Mutation: ts is stored in network order on every machine. *)
StampedInNetworkOrder(p) ==
  LET bytes == Reverse(skb.ts)
  IN [p EXCEPT ![10] = SubSeq(bytes, 1, 4), ![11] = SubSeq(bytes, 5, 8)]

(* ts is stored the way the machine stores a uint64. *)
Stamped(p) ==
  LET bytes == IF bigEndian THEN Reverse(skb.ts) ELSE skb.ts
  IN [p EXCEPT ![10] = SubSeq(bytes, 1, 4), ![11] = SubSeq(bytes, 5, 8)]

(* Mutation: flat is not told that the ring had no room. *)
ReportBlindly(p) == reports' = Append(reports, [skb |-> skb, pkt |-> p]) /\ Pass

(* bpf_ringbuf_output fails when the ring is full, and the packet passes   *)
(* unreported.                                                             *)
Report(p) ==
  /\ IF full THEN UNCHANGED reports
             ELSE reports' = Append(reports, [skb |-> skb, pkt |-> p])
  /\ Pass

Transport ==
  LET short == \/ offset + TcpHeader > skb.size
               \/ offset + UdpHeader > skb.size
  IN /\ pc = "transport"
     /\ \/ /\ short \/ (skb.proto = TCP /\ skb.syn = 0)
           /\ Pass /\ UNCHANGED reports
        \/ /\ ~short /\ skb.proto = TCP /\ skb.syn = 1
           /\ Report(Stamped([pkt EXCEPT
                ![PortWord] = Ports,
                ![FlagWord] = <<@[1], @[2], skb.syn, skb.ack>>]))
        \/ /\ ~short /\ skb.proto = UDP
           /\ Report(Stamped([pkt EXCEPT ![PortWord] = Ports]))

(* Meanwhile the reader empties the ring and other CPUs fill it: EventPipe *)
(* says when, here it may have room or none at any step.                   *)
Next ==
  /\ (\E p \in Traffic : Arrive(p)) \/ Link \/ Network \/ Transport
  /\ full' \in BOOLEAN
  /\ UNCHANGED bigEndian

Spec == Init /\ [][Next]_vars

-----------------------------------------------------------------------------
(* User space *)

UnmarshalBinary(in) ==
  [SrcIP    |-> in[Src] \o in[Src + 1] \o in[Src + 2] \o in[Src + 3],
   DstIP    |-> in[Dst] \o in[Dst + 1] \o in[Dst + 2] \o in[Dst + 3],
   SrcPort  |-> in[PortWord][1] * 256 + in[PortWord][2],
   DstPort  |-> in[PortWord][3] * 256 + in[PortWord][4],
   Protocol |-> in[FlagWord][1],
   TTL      |-> in[FlagWord][2],
   Syn      |-> in[FlagWord][3] = 1,
   Ack      |-> in[FlagWord][4] = 1,
   Timestamp |-> in[10] \o in[11]]   \* binary.LittleEndian

(* Mutation: the protocol is left out of the hash. *)
HashFourTuple(p) ==
  SetToBag({<<p.SrcIP, p.SrcPort>>}) (+) SetToBag({<<p.DstIP, p.DstPort>>})

(* A sum of three FNV-1a hashes, taken to be equal only when their inputs  *)
(* are the same but for the order.                                         *)
Hash(p) == SetToBag({<<p.SrcIP, p.SrcPort>>}) (+) SetToBag({<<p.DstIP, p.DstPort>>})
             (+) SetToBag({<<p.Protocol>>})

-----------------------------------------------------------------------------
(* Properties *)

(* What flat is there to report: a unicast TCP segment with SYN or a UDP   *)
(* datagram whose headers are complete.                                    *)
HeadersEnd(p) == EthernetHeader + NetworkHeader(p.ether)
                   + (IF p.proto = TCP THEN TcpHeader ELSE UdpHeader)

Reportable(p) ==
  /\ p.pulled /\ p.cast = "host"
  /\ p.ether \in {"IPv4", "IPv6"}
  /\ p.proto = UDP \/ (p.proto = TCP /\ p.syn = 1)
  /\ p.size >= HeadersEnd(p)

TypeOK ==
  /\ bigEndian \in BOOLEAN /\ full \in BOOLEAN
  /\ pc \in {"idle", "link", "network", "transport"}
  /\ skb \in Traffic
  /\ offset \in {0, 34, 54}
  /\ DOMAIN pkt = 0 .. 11 /\ \A w \in 0 .. 11 : Len(pkt[w]) = 4
  /\ Len(reports) <= MaxReports

Finishes == pc # "idle" /\ pc' = "idle"
Reports  == reports' # reports

(* flat reports what it is there for when it is of IPv4, a TCP header would*)
(* fit in and the ring has room for the record, on its way out, and nothing*)
(* else: it never reads past the end of a packet to tell, never reports one*)
(* twice, and what finds the ring full is gone (flat.c:48-171).            *)
ReportsExactly ==
  [][Reports <=> /\ Finishes /\ Reportable(skb)
                 /\ skb.ether = "IPv4" /\ skb.size >= 54 /\ ~full]_vars

(* "Process TCP and UDP Segments" (flat.c:134), after "a bound check to    *)
(* ensure the packet is either TCP or UDP" (flat.c:129), when it is not so *)
(* that "We did not have an IPv4 or IPv6 packet" (flat.c:125): every packet*)
(* there is to report is reported, if the ring has room for it.            *)
ReportsEveryReportable == [][Finishes /\ Reportable(skb) /\ ~full => Reports]_vars

Decoded == [i \in DOMAIN reports |-> UnmarshalBinary(reports[i].pkt)]
Sent(i) == reports[i].skb

(* What CalcLatency decides by and displays - ports, protocol, TTL, flags, *)
(* the last four bytes of the addresses - arrives in user space as it was  *)
(* in the packet, whatever the stores past the addresses overwrite         *)
(* (flat.c:92-100, 140-143, 157-158; packet.go:40-66).                     *)
HeaderSurvives ==
  \A i \in DOMAIN reports :
    LET p == Decoded[i]
        s == Sent(i)
    IN /\ <<p.SrcPort, p.DstPort>> = <<s.sport[1] * 256 + s.sport[2],
                                       s.dport[1] * 256 + s.dport[2]>>
       /\ <<p.Protocol, p.TTL>> = <<s.proto, s.ttl>>
       /\ p.Syn = (s.syn = 1) /\ p.Ack = (s.ack = 1)
       /\ SubSeq(p.SrcIP, 13, 16) = s.src /\ SubSeq(p.DstIP, 13, 16) = s.dst

(* So does the timestamp, on a little-endian machine (flat.c:144, 159;     *)
(* packet.go:62).                                                          *)
TimestampSurvives ==
  ~bigEndian => \A i \in DOMAIN reports : Decoded[i].Timestamp = Sent(i).ts

(* Two packets of the same protocol between the same two endpoints.        *)
SameWay(s, t) == /\ s.proto = t.proto
                 /\ <<s.src, s.sport, s.dst, s.dport>> = <<t.src, t.sport, t.dst, t.dport>>
Opposite(s, t) == /\ s.proto = t.proto
                  /\ <<s.src, s.sport, s.dst, s.dport>> = <<t.dst, t.dport, t.src, t.sport>>

(* "Hash calculates a unique hash value for each network flow"             *)
(* (packet.go:68), half one: packets of different flows never share a      *)
(* hash, and packets that go the same way always do.                       *)
HashTellsFlowsApart ==
  \A i, j \in DOMAIN reports :
    LET same == Hash(Decoded[i]) = Hash(Decoded[j])
    IN /\ same => SameWay(Sent(i), Sent(j)) \/ Opposite(Sent(i), Sent(j))
       /\ SameWay(Sent(i), Sent(j)) => same

(* Half two: a flow has one hash, so the answer to a packet has the hash   *)
(* of the packet.                                                          *)
AnswerHasTheSameHash ==
  \A i, j \in DOMAIN reports :
    Opposite(Sent(i), Sent(j)) => Hash(Decoded[i]) = Hash(Decoded[j])
=============================================================================
