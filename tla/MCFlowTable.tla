----------------------------- MODULE MCFlowTable -----------------------------
(***************************************************************************)
(* Instances of FlowTable for TLC: two flows, a clock that tells eight     *)
(* instants apart, entries that are stale at the age of 4, a tick every 2. *)
(***************************************************************************)
EXTENDS FlowTable

CONSTANTS k1, k2
MCKeys == {k1, k2}
=============================================================================
