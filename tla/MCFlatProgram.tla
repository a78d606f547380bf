---------------------------- MODULE MCFlatProgram ----------------------------
(***************************************************************************)
(* Instances of FlatProgram for TLC.  Sizes are the real ones, one below   *)
(* and one at each boundary flat or the protocols draw.                    *)
(***************************************************************************)
EXTENDS FlatProgram

Noon == <<1, 2, 3, 4, 0, 0, 0, 0>>

Datagram == [pulled |-> TRUE, cast |-> "host", size |-> 74, ether |-> "IPv4",
             proto |-> UDP, src |-> <<10, 0, 0, 1>>, dst |-> <<10, 0, 0, 2>>,
             sport |-> <<0, 53>>, dport |-> <<18, 52>>, ttl |-> 64,
             syn |-> 0, ack |-> 0, ts |-> Noon]

(* Every kind of packet, between one pair of endpoints; that it cannot be  *)
(* pulled is looked at before all else, one packet stands for those.       *)
Kinds ==
  { [Datagram EXCEPT !.pulled = FALSE] } \cup
  { [Datagram EXCEPT !.cast = c, !.size = n, !.ether = e,
                     !.proto = f[1], !.syn = f[2], !.ack = f[3]] :
      c \in {"host", "broadcast", "multicast"},
      n \in {13, 14, 33, 34, 41, 42, 53, 54, 61, 62, 73, 74},
      e \in {"IPv4", "IPv6", "other"},
      f \in {<<TCP, 0, 0>>, <<TCP, 0, 1>>, <<TCP, 1, 0>>, <<TCP, 1, 1>>,
             <<UDP, 0, 0>>, <<1, 0, 0>>} }

(* Requests and answers between two hosts, each with two ports. *)
Hosts     == {<<10, 0, 0, 1>>, <<10, 0, 0, 2>>}
PortsUsed == {<<0, 53>>, <<53, 0>>}
Flows ==
  { [Datagram EXCEPT !.proto = f[1], !.syn = f[2], !.ack = f[3],
                     !.src = a, !.dst = b, !.sport = x, !.dport = y] :
      a \in Hosts, b \in Hosts, x \in PortsUsed, y \in PortsUsed,
      f \in {<<TCP, 1, 0>>, <<TCP, 1, 1>>, <<UDP, 0, 0>>} }

KindsAndFlows == Kinds \cup Flows
=============================================================================
