---------------------------- MODULE Observations ----------------------------
(***************************************************************************)
(* The packets the flow monitor's user space works on, as UnmarshalBinary  *)
(* hands them to CalcLatency: the value of Hash(), the timestamp taken in  *)
(* the kernel, and the protocol with its SYN and ACK flags.                *)
(***************************************************************************)
EXTENDS Integers

CONSTANTS
  Keys,   \* the values Packet.Hash can return
  Word    \* 2^64: a timestamp is a uint64

ASSUME WordAssumption == Word \in Nat \ {0} /\ Keys # {}

(* What a lookup that finds nothing returns: no timestamp. *)
Absent == -1

(* flat.c reports a TCP segment only when its SYN flag is set, and leaves  *)
(* both flags clear for UDP.                                               *)
Segments == { [proto |-> "TCP", syn |-> TRUE,  ack |-> FALSE],
              [proto |-> "TCP", syn |-> TRUE,  ack |-> TRUE],
              [proto |-> "UDP", syn |-> FALSE, ack |-> FALSE] }

Timestamps  == 0 .. Word - 1

Observation == [key : Keys, seg : Segments, ts : Timestamps]

(* The two decisions of CalcLatency: does a packet of an unknown flow open *)
(* an entry, and does a packet of a known flow close it?                   *)
Opens(p)  == p.seg.syn \/ p.seg.proto = "UDP"
Closes(p) == p.seg.ack \/ p.seg.proto = "UDP"
=============================================================================
