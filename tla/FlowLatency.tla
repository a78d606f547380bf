----------------------------- MODULE FlowLatency -----------------------------
(***************************************************************************)
(* What the table of flows promises: every observation is matched against  *)
(* the open flows in ONE step, as if CalcLatency ran alone, and an open    *)
(* flow may at any moment be forgotten (pruned).                           *)
(***************************************************************************)
EXTENDS Observations

VARIABLES
  open,      \* open[k]: timestamp of the packet that opened flow k, or Absent
  observed,  \* observed[k]: number of packets of flow k that were matched
  shown,     \* shown[k]: number of latencies displayed for flow k
  latency    \* the last latency displayed, in nanoseconds

vars == <<open, observed, shown, latency>>

Init ==
  /\ open     = [k \in Keys |-> Absent]
  /\ observed = [k \in Keys |-> 0]
  /\ shown    = [k \in Keys |-> 0]
  /\ latency  = 0

Open(p) ==
  /\ open[p.key] = Absent
  /\ Opens(p)
  /\ open' = [open EXCEPT ![p.key] = p.ts]
  /\ UNCHANGED <<shown, latency>>

Close(p) ==
  /\ open[p.key] # Absent
  /\ Closes(p)
  /\ open'    = [open EXCEPT ![p.key] = Absent]
  /\ shown'   = [shown EXCEPT ![p.key] = @ + 1]
  /\ latency' = p.ts - open[p.key]

(* A retransmitted SYN of an open flow changes nothing. *)
Ignore(p) ==
  /\ IF open[p.key] = Absent THEN ~Opens(p) ELSE ~Closes(p)
  /\ UNCHANGED <<open, shown, latency>>

Observe(p) ==
  /\ observed' = [observed EXCEPT ![p.key] = @ + 1]
  /\ Open(p) \/ Close(p) \/ Ignore(p)

Expire(k) ==
  /\ open[k] # Absent
  /\ open' = [open EXCEPT ![k] = Absent]
  /\ UNCHANGED <<observed, shown, latency>>

Next == (\E p \in Observation : Observe(p)) \/ (\E k \in Keys : Expire(k))

Spec == Init /\ [][Next]_vars
=============================================================================
