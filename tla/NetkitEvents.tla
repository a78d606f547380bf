----------------------------- MODULE NetkitEvents -----------------------------
(***************************************************************************)
(* The way of an IPv6 packet through netkit-ipv6: the program at either    *)
(* end of the pair, on any CPU, reserves a record in the ring, fills it    *)
(* and submits it; the reader goroutine takes the records out and prints   *)
(* them; and main attaches, opens, waits and lets go around both.          *)
(*                                                                         *)
(* The ring is the kernel's: reserving is atomic and fails when there is   *)
(* no room, a record reserved but not submitted holds back the reader, and *)
(* reading frees the record.  Record and printed line are modelled byte by *)
(* byte, since each side has its own idea of the layout.                   *)
(***************************************************************************)
EXTENDS Integers, Sequences, SequencesExt

CONSTANTS
  CPUs,
  Frames,      \* what may come by: see FrameType
  Slots,       \* the records that fit into the ring
  MaxOwed      \* bound: packets that get a record

VARIABLES
  stage,       \* where main is
  hooked,      \* the ends whose program is attached
  interrupted, \* a signal has cancelled the context
  cpu,         \* cpu[c]: the packet that c has reserved a record for, if any
  ring,        \* the records, oldest first: the bytes, or the CPU still at it
  rd,          \* the goroutine: "none", "reading", "ended", or its reader "closed"
  record,      \* the record it has in hand, if any
  printed,     \* the lines it has printed
  owed         \* the lines that the packets which found room should give

evVars == <<stage, hooked, interrupted, cpu, ring, rd, record, printed, owed>>

Nothing == <<>>     \* no packet, no record

EthLen  == 14
Ip6Len  == 40
EthP    == {"IPv6", "other"}
Octet   == 0 .. 255

(* A frame: the bytes of it that the program may look at, its ethertype,   *)
(* and the fields of the IPv6 header; the length in network order.         *)
FrameType ==
  [size : Nat, proto : EthP, saddr : [1 .. 16 -> Octet], daddr : [1 .. 16 -> Octet],
   nexthdr : Octet, payload_len : Octet \X Octet, hop_limit : Octet]

ASSUME EventsAssumption ==
  /\ Frames \subseteq FrameType
  /\ \A c \in CPUs : c \notin Seq(Octet)
  /\ Slots \in Nat /\ MaxOwed \in Nat

EventsInit ==
  /\ stage = "loaded" /\ hooked = {} /\ interrupted = FALSE
  /\ cpu = [c \in CPUs |-> Nothing]
  /\ ring = <<>> /\ rd = "none" /\ record = Nothing
  /\ printed = <<>> /\ owed = <<>>

-----------------------------------------------------------------------------
(* process_ipv6 *)

Reportable(f) ==
  f.size >= EthLen /\ f.proto = "IPv6" /\ f.size >= EthLen + Ip6Len

(* bpf_ntohs on a little-endian machine. *)
Ntohs(n) == n[1] * 256 + n[2]
LittleEndian(n) == <<n % 256, n \div 256>>

(* Mutation: the length stays in network order. *)
EventNetworkOrder(f, dir) ==
  f.saddr \o f.daddr \o <<f.nexthdr>> \o f.payload_len \o <<f.hop_limit, dir>>

(* struct ipv6_event, packed: the length comes at an odd offset. *)
Event(f, dir) ==
  f.saddr \o f.daddr \o <<f.nexthdr>> \o LittleEndian(Ntohs(f.payload_len))
    \o <<f.hop_limit, dir>>

Dir(end) == IF end = "peer" THEN 1 ELSE 0

(* What a reader of the lines wants to know: which frames have an IPv6     *)
(* header, and what it says.                                               *)
HasIPv6Header(f) == f.proto = "IPv6" /\ f.size - EthLen >= Ip6Len

TrueLine(f, end) ==
  [dir |-> end, src |-> f.saddr, dst |-> f.daddr, next |-> f.nexthdr,
   len |-> f.payload_len[1] * 256 + f.payload_len[2], ttl |-> f.hop_limit]

(* Every packet is passed on.  One that has no complete IPv6 header leaves *)
(* no record, nor does one for which the ring has no room.                 *)
Arrive(c, f, end) ==
  LET room == Len(ring) < Slots
  IN /\ end \in hooked /\ cpu[c] = Nothing /\ Len(owed) < MaxOwed
     /\ IF room /\ HasIPv6Header(f)
          THEN owed' = Append(owed, TrueLine(f, end))
          ELSE UNCHANGED owed
     /\ IF room /\ Reportable(f)
          THEN ring' = Append(ring, c) /\ cpu' = [cpu EXCEPT ![c] = <<f, end>>]
          ELSE UNCHANGED <<ring, cpu>>
     /\ UNCHANGED <<stage, hooked, interrupted, rd, record, printed>>


Submit(c) ==
  /\ cpu[c] # Nothing
  /\ \E i \in 1 .. Len(ring) :
       /\ ring[i] = c
       /\ ring' = [ring EXCEPT ![i] = Event(cpu[c][1], Dir(cpu[c][2]))]
  /\ cpu' = [cpu EXCEPT ![c] = Nothing]
  /\ UNCHANGED <<stage, hooked, interrupted, rd, record, printed, owed>>

-----------------------------------------------------------------------------
(* The reader goroutine *)

(* Read waits for the oldest record; once the reader is closed it fails.   *)
Read ==
  /\ rd = "reading" /\ record = Nothing /\ ring # <<>> /\ Head(ring) \notin CPUs
  /\ record' = Head(ring) /\ ring' = Tail(ring)
  /\ UNCHANGED <<stage, hooked, interrupted, cpu, rd, printed, owed>>

(* Any error of Read ends the goroutine, and nothing starts another: main  *)
(* goes on waiting for a signal.                                           *)
ReadFails ==
  /\ rd = "reading" /\ record = Nothing
  /\ rd' = "ended"
  /\ UNCHANGED <<stage, hooked, interrupted, cpu, ring, record, printed, owed>>

Line(data) ==
  [dir  |-> IF data[37] = 1 THEN "peer" ELSE "primary",
   src  |-> SubSeq(data, 1, 16), dst |-> SubSeq(data, 17, 32),
   next |-> data[33], len |-> data[34] + 256 * data[35], ttl |-> data[36]]

PrintEvent ==
  /\ record # Nothing /\ stage # "exited"
  /\ printed' = IF Len(record) < 37 THEN printed ELSE Append(printed, Line(record))
  /\ record' = Nothing
  /\ UNCHANGED <<stage, hooked, interrupted, cpu, ring, rd, owed>>

-----------------------------------------------------------------------------
(* main, from the loaded objects to its end, and the deferred calls *)

Proceed(here, there) == stage = here /\ stage' = there

AttachEnd ==
  /\ \/ Proceed("loaded", "half")   /\ hooked' = {"primary"}
     \/ Proceed("half", "attached") /\ hooked' = {"primary", "peer"}
  /\ UNCHANGED <<interrupted, cpu, ring, rd, record, printed, owed>>

OpenReader ==
  /\ Proceed("attached", "monitoring") /\ rd' = "reading"
  /\ UNCHANGED <<hooked, interrupted, cpu, ring, record, printed, owed>>

Interrupt ==
  /\ stage = "monitoring" /\ ~interrupted /\ interrupted' = TRUE
  /\ UNCHANGED <<stage, hooked, cpu, ring, rd, record, printed, owed>>

CloseReader ==
  /\ interrupted /\ Proceed("monitoring", "closing") /\ rd' = "closed"
  /\ UNCHANGED <<hooked, interrupted, cpu, ring, record, printed, owed>>

DetachEnd ==
  /\ \/ Proceed("closing", "halfClosed") /\ hooked' = {"primary"}
     \/ Proceed("halfClosed", "detached") /\ hooked' = {}
  /\ UNCHANGED <<interrupted, cpu, ring, rd, record, printed, owed>>

(* Whatever the goroutine still has in hand goes with the process. *)
ExitEvents ==
  /\ Proceed("detached", "exited")
  /\ UNCHANGED <<hooked, interrupted, cpu, ring, rd, record, printed, owed>>

MainStep == AttachEnd \/ OpenReader \/ CloseReader \/ DetachEnd \/ ExitEvents

EventsNext ==
  \/ \E c \in CPUs : Submit(c) \/ \E f \in Frames, end \in {"primary", "peer"} : Arrive(c, f, end)
  \/ Read \/ ReadFails \/ PrintEvent \/ Interrupt \/ MainStep

(* A program on a CPU runs to its end; goroutine and main go on.           *)
EventsFairness ==
  /\ \A c \in CPUs : WF_evVars(Submit(c))
  /\ WF_evVars(Read \/ PrintEvent) /\ WF_evVars(MainStep)

-----------------------------------------------------------------------------
(* Properties *)

EventsTypeOK ==
  /\ stage \in {"loaded", "half", "attached", "monitoring", "closing",
                "halfClosed", "detached", "exited"}
  /\ hooked \subseteq {"primary", "peer"} /\ interrupted \in BOOLEAN
  /\ \A c \in CPUs : cpu[c] = Nothing \/ cpu[c] \in Frames \X {"primary", "peer"}
  /\ Len(ring) <= Slots
  /\ \A i \in 1 .. Len(ring) : ring[i] \in CPUs \cup Seq(Octet)
  /\ rd \in {"none", "reading", "ended", "closed"} /\ record \in Seq(Octet)

(* The lines printed are those of the packets that found room, in the      *)
(* order in which they came, with the true fields and the true end, no     *)
(* matter in which order the CPUs submit (netkit_ipv6.c:26-64,             *)
(* main.go:105-148).                                                       *)
PrintsWhatPassed == IsPrefix(printed, owed)

=============================================================================
