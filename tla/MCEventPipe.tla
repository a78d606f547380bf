----------------------------- MODULE MCEventPipe -----------------------------
(***************************************************************************)
(* Instances of EventPipe for TLC: two CPUs, a ring of two records, so     *)
(* that it fills while the main loop is busy.                              *)
(***************************************************************************)
EXTENDS EventPipe

CONSTANTS c1, c2, load
MCCPUs     == {c1, c2}
MCPayloads == {load}
=============================================================================
