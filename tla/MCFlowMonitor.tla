---------------------------- MODULE MCFlowMonitor ----------------------------
(***************************************************************************)
(* Instances of FlowMonitor for TLC: one flow, two CPUs that may be        *)
(* exchanged and a ring of two records, or one CPU and a ring of one.      *)
(***************************************************************************)
EXTENDS FlowMonitor, TLC

CONSTANTS c1, c2, k1
OneCPU   == {c1}
TwoCPUs  == {c1, c2}
OneFlow  == {k1}
CPUSymmetry == Permutations(TwoCPUs)
=============================================================================
