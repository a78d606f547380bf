---------------------------- MODULE MCHookPrograms ----------------------------
(* Frames and process numbers for TLC: what each program may tell apart.   *)
EXTENDS HookPrograms

(* An address is a byte sixteen times over; fields differ wherever they    *)
(* can, and the two halves of a length as well.                            *)
Addr(b) == [i \in 1 .. 16 |-> b]
Hello == [size |-> 54, proto |-> "IPv6", saddr |-> Addr(1), daddr |-> Addr(2),
          nexthdr |-> 58, payload_len |-> <<0, 64>>, hop_limit |-> 255]
Jumbo == [size |-> 1500, proto |-> "IPv6", saddr |-> Addr(2), daddr |-> Addr(1),
          nexthdr |-> 17, payload_len |-> <<5, 174>>, hop_limit |-> 1]
MCFrames == {Hello, Jumbo,
             [Hello EXCEPT !.size = 53], [Hello EXCEPT !.size = 13],
             [Hello EXCEPT !.proto = "other"]}

MCPids == {-2, -1, 3, 7}
=============================================================================
