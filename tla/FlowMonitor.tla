----------------------------- MODULE FlowMonitor -----------------------------
(***************************************************************************)
(* The flow monitor as Run assembles it: the packets that the event pipe   *)
(* delivers are those that CalcLatency matches against the flow table,     *)
(* both on one clock, until the context is cancelled.                      *)
(***************************************************************************)
EXTENDS Observations, Sequences

CONSTANTS
  CPUs, Capacity,                           \* of the pipe
  Milli, MaxAge, TickPeriod, ClockMayFail,  \* of the table
  MaxClock,    \* bound: the last instant that is told apart
  LastStamp,   \* bound: the last instant at which a packet is stamped
  MaxPackets   \* bound: number of packets reported or dropped

ASSUME MonitorAssumption ==
  /\ CPUs # {} /\ Capacity \in Nat \ {0} /\ MaxPackets \in Nat
  /\ Milli \in Nat \ {0} /\ TickPeriod \in Nat \ {0} /\ MaxAge \in Nat
  /\ ClockMayFail \in BOOLEAN
  /\ MaxClock \in Timestamps /\ LastStamp \in Nat

VARIABLES
  clock,
  stamped, ring, reading, hand, dropped, outputs, delivered,
  ticking, tick, table, pc, pkt, observed, shown, latency,
  prunePc, now, seen, recent, victim,
  cancelled   \* the context of Run is cancelled

Pipe  == INSTANCE EventPipe WITH Payloads   <- [key : Keys, seg : Segments],
                                 MaxStamped <- MaxPackets
Table == INSTANCE FlowTable WITH MaxObserved <- MaxPackets

pipeVars  == <<stamped, ring, reading, hand, dropped, outputs, delivered>>
tableVars == <<ticking, tick, table, pc, pkt, observed, shown, latency,
               prunePc, now, seen, recent, victim>>
vars      == <<clock, pipeVars, tableVars, cancelled>>

(* UnmarshalBinary and Hash, of an event whose bytes are sound. *)
ToPacket(e) == [key |-> e.load.key, seg |-> e.load.seg, ts |-> e.ts]

Init ==
  /\ Pipe!Init
  /\ Table!Init
  /\ cancelled = FALSE

Advance ==
  /\ Table!Advance
  /\ UNCHANGED <<pipeVars, cancelled>>

Capture ==
  /\ \/ \E c \in CPUs, load \in [key : Keys, seg : Segments] :
          clock <= LastStamp /\ Pipe!Stamp(c, load)
     \/ Pipe!KernelStep
  /\ UNCHANGED <<tableVars, cancelled>>

Reader ==
  /\ Pipe!Read \/ Pipe!ReadFails
  /\ UNCHANGED <<tableVars, cancelled>>

(* Mutation: the event is matched while another one still is.              *)
TakeEventAtOnce ==
  /\ Pipe!Deliver
  /\ ticking
  /\ pkt' = ToPacket(Head(hand)) /\ pc' = "get"
  /\ UNCHANGED <<ticking, tick, table, observed, shown, latency,
                 prunePc, now, seen, recent, victim, cancelled>>

(* select, when an event is offered: even a cancelled Run may take it.     *)
TakeEvent ==
  /\ Pipe!Deliver
  /\ Table!Receive(ToPacket(Head(hand)))
  /\ UNCHANGED cancelled

MatchStep ==
  /\ Table!MainStep
  /\ UNCHANGED <<pipeVars, cancelled>>

(* Mutation: Run first takes every event that is offered.                  *)
StopWhenQuiet ==
  /\ cancelled /\ hand = <<>>
  /\ Table!StopTicker
  /\ UNCHANGED <<pipeVars, cancelled>>

(* select, when ctx.Done is closed: Run stops the ticker and returns.      *)
Stop ==
  /\ cancelled
  /\ Table!StopTicker
  /\ UNCHANGED <<pipeVars, cancelled>>

PruneStep ==
  /\ Table!PruneStep
  /\ UNCHANGED <<pipeVars, cancelled>>

(* SIGINT or SIGTERM *)
Cancel ==
  /\ ~cancelled
  /\ cancelled' = TRUE
  /\ UNCHANGED <<clock, pipeVars, tableVars>>

Next == \/ Advance \/ Capture \/ Reader
        \/ TakeEvent \/ MatchStep \/ Stop
        \/ PruneStep \/ Cancel

(* Go's select picks among its ready cases at random, so a Stop that is    *)
(* possible again and again is taken.                                      *)
Fairness ==
  /\ WF_vars(Advance) /\ WF_vars(PruneStep)
  /\ WF_vars(Pipe!KernelStep /\ UNCHANGED <<tableVars, cancelled>>)
  /\ WF_vars(Pipe!Read /\ UNCHANGED <<tableVars, cancelled>>)
  /\ WF_vars(TakeEvent) /\ WF_vars(MatchStep) /\ SF_vars(Stop)

Spec     == Init /\ [][Next]_vars
FairSpec == Spec /\ Fairness

(* The bounds are counted by the histories, and nothing else reads them.   *)
(* To forget them once they have reached the bound, between two packets,   *)
(* lets traffic go on for ever after the signal in finitely many states.   *)
Forget ==
  /\ cancelled
  /\ Len(outputs) + dropped >= MaxPackets /\ pc = "idle"
  /\ outputs' = hand \o ring /\ delivered' = <<>> /\ dropped' = 0
  /\ observed' = [k \in Keys |-> 0] /\ shown' = [k \in Keys |-> 0]
  /\ UNCHANGED <<clock, stamped, ring, reading, hand, ticking, tick, table, pc,
                 pkt, latency, prunePc, now, seen, recent, victim, cancelled>>

EndlessSpec == Init /\ [][Next \/ Forget]_vars /\ Fairness

-----------------------------------------------------------------------------
(* Properties *)

(* The assembly drives the table only the way FlowTable allows: CalcLatency*)
(* has one packet at a time, and never sees one that was stamped after the *)
(* present (kprobe.go:158-226).                                            *)
DrivesTheTable == Table!Spec

(* A negative latency is displayed (packet.go:123, 134) only when the two  *)
(* packets of the flow came from different CPUs, the later one by its      *)
(* timestamp overtaking the other on its way into the ring: on one CPU no  *)
(* latency is negative, whatever the ring drops and Prune deletes.         *)
NegativeOnlyAcrossCPUs ==
  latency < 0 =>
    \E i, j \in 1 .. Len(delivered) :
      /\ i < j
      /\ delivered[i].load.key = delivered[j].load.key
      /\ delivered[i].cpu # delivered[j].cpu
      /\ delivered[j].ts - delivered[i].ts = latency

(* A cancelled Run returns, even if the channel is ready whenever it looks *)
(* (kprobe.go:211-226): EndlessSpec lets traffic go on for ever.           *)
StopsWhenCancelled == cancelled ~> ~ticking

(* While Run goes on and its reader lives, every packet that the ring      *)
(* accepted is matched against the table.                                  *)
AllMatched ==
  [](reading /\ ~cancelled) =>
    \A n \in 1 .. MaxPackets : Len(outputs) >= n ~> Table!Matched >= n
=============================================================================
