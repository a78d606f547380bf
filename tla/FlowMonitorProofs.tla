--------------------------- MODULE FlowMonitorProofs ---------------------------
(***************************************************************************)
(* The flow monitor proved for any number of CPUs and flows, any capacity  *)
(* of the ring and any bound on time and traffic: it drives the pipe and   *)
(* the table as each is specified to be driven, so what is proved of them  *)
(* holds here, and together they explain every negative latency.           *)
(***************************************************************************)
EXTENDS FlowMonitor, SequenceTheorems, FiniteSetTheorems, TLAPS

(* The theorems of the pipe, for the pipe as it is assembled here.         *)
PipeP == INSTANCE EventPipeProofs WITH Payloads   <- [key : Keys, seg : Segments],
                                       MaxStamped <- MaxPackets

(* Those of the table. *)
TableP == INSTANCE FlowTableProofs WITH MaxObserved <- MaxPackets

Events == [cpu : CPUs, load : [key : Keys, seg : Segments], ts : 0 .. MaxClock]

(* The constants of the monitor are constants the pipe can work with. *)
LEMMA PipeConstants == PipeP!PipeAssumption
<1>1. [key : Keys, seg : Segments] # {}
  <2>1. PICK k \in Keys : TRUE
    BY WordAssumption
  <2>2. PICK s \in Segments : TRUE
    BY DEF Segments
  <2>3. [key |-> k, seg |-> s] \in [key : Keys, seg : Segments]
    BY <2>1, <2>2
  <2> QED
    BY <2>3
<1>2. MaxClock \in Nat
  BY MonitorAssumption, WordAssumption DEF Timestamps
<1> QED
  BY <1>1, <1>2, MonitorAssumption DEF PipeP!PipeAssumption

(* The two instances of the pipe are one. *)
LEMMA SamePipe ==
  /\ Pipe!Init <=> PipeP!Init
  /\ [Pipe!Next]_(Pipe!vars) <=> [PipeP!Next]_(PipeP!vars)
  /\ Pipe!OrderedPerCPU <=> PipeP!OrderedPerCPU
BY DEF Pipe!Init, PipeP!Init, Pipe!OrderedPerCPU, PipeP!OrderedPerCPU,
       Pipe!Next, PipeP!Next, Pipe!vars, PipeP!vars,
       Pipe!kernelVars, PipeP!kernelVars, Pipe!Busy, PipeP!Busy,
       Pipe!Cardinality, PipeP!Cardinality,
       Pipe!Advance, PipeP!Advance, Pipe!Stamp, PipeP!Stamp,
       Pipe!KernelStep, PipeP!KernelStep, Pipe!Output, PipeP!Output,
       Pipe!Drop, PipeP!Drop, Pipe!Read, PipeP!Read,
       Pipe!ReadFails, PipeP!ReadFails, Pipe!Deliver, PipeP!Deliver

-----------------------------------------------------------------------------
(* The pipe *)

LEMMA StepOfPipe == [Next]_vars => [Pipe!Next]_(Pipe!vars)
<1> SUFFICES ASSUME [Next]_vars PROVE [Pipe!Next]_(Pipe!vars)
  OBVIOUS
<1> USE DEF pipeVars, Pipe!vars, Pipe!kernelVars
<1>1. CASE Advance
  BY <1>1 DEF Advance, Table!Advance, Pipe!Next, Pipe!Advance
<1>2. CASE Capture
  BY <1>2 DEF Capture, Pipe!Next
<1>3. CASE Reader
  BY <1>3 DEF Reader, Pipe!Next
<1>4. CASE TakeEvent
  BY <1>4 DEF TakeEvent, Pipe!Next
<1>5. CASE MatchStep
  BY <1>5 DEF MatchStep, Table!MainStep, Table!Get, Table!Insert, Table!RemoveLoad,
              Table!RemoveDelete, Table!timeVars
<1>6. CASE Stop
  BY <1>6 DEF Stop, Table!StopTicker
<1>7. CASE PruneStep
  BY <1>7 DEF PruneStep, Table!PruneStep, Table!PruneStart, Table!PruneVisit,
              Table!PruneDelete, Table!PruneEnd, Table!timeVars
<1>8. CASE Cancel
  BY <1>8 DEF Cancel
<1>9. CASE UNCHANGED vars
  BY <1>9 DEF vars
<1> QED
  BY <1>1, <1>2, <1>3, <1>4, <1>5, <1>6, <1>7, <1>8, <1>9 DEF Next

(* Whatever table and pruning do, the pipe sees only its own steps, by the *)
(* way the monitor is put together, so that what is proved of it holds.    *)
LEMMA ImplementsPipe == Spec => Pipe!Spec
<1>1. Init => Pipe!Init
  BY DEF Init
<1> QED
  BY <1>1, StepOfPipe, PTL DEF Spec, Pipe!Spec

LEMMA PipeHolds == Spec => [](PipeP!PipeInv /\ Pipe!OrderedPerCPU)
BY ImplementsPipe, PipeConstants, SamePipe, PipeP!PipeInvariance,
   PipeP!DeliveredInOrder, PTL
   DEF Pipe!Spec, PipeP!Spec

-----------------------------------------------------------------------------
(* The table *)

LEMMA OneMoreEvent ==
  ASSUME NEW q \in Seq(Events), NEW one \in Seq(Events), Len(one) = 1
  PROVE  /\ q \o one \in Seq(Events) /\ Len(q \o one) = Len(q) + 1
         /\ (q \o one)[Len(q) + 1] = one[1]
         /\ \A i \in 1 .. Len(q) : (q \o one)[i] = q[i]
<1>1. PipeP!Event = Events
  BY DEF PipeP!Event, Events
<1>2. q \in Seq(PipeP!Event) /\ one \in Seq(PipeP!Event)
  BY <1>1
<1> QED
  BY <1>1, <1>2, PipeConstants, PipeP!OneMoreAt DEF PipeP!PipeAssumption

(* The event on offer is the next one of those that the ring accepted. *)
LEMMA OnOffer ==
  ASSUME PipeP!PipeInv, hand # <<>>
  PROVE  /\ Len(hand) = 1 /\ Head(hand) \in Events
         /\ Len(delivered) \in Nat
         /\ Len(delivered) + 1 \in 1 .. Len(outputs)
         /\ outputs[Len(delivered) + 1] = Head(hand)
<1>1. /\ hand \in PipeP!AtMostOne /\ hand \in Seq(Events) /\ ring \in Seq(Events)
      /\ delivered \in Seq(Events) /\ outputs = (delivered \o hand) \o ring
  BY DEF PipeP!PipeInv, PipeP!TypeOK, PipeP!AtMostOne, PipeP!Event, Events,
         PipeP!DeliversInOutputOrder
<1>2. Len(hand) = 1 /\ hand[1] \in Events
  BY <1>1, PipeP!OneEvent, PipeConstants DEF PipeP!Event, Events
<1>3. Head(hand) = hand[1]
  BY <1>1, <1>2
<1>4. Len(delivered) \in Nat /\ Len(ring) \in Nat
  BY <1>1, LenProperties
<1> DEFINE n == Len(delivered) + 1
           q == delivered \o hand
<1>5. q \in Seq(Events) /\ Len(q) = n /\ q[n] = hand[1]
  BY <1>1, <1>2, OneMoreEvent
<1>7. n \in 1 .. Len(outputs) /\ outputs[n] = q[n]
  <2>1. Len(outputs) = Len(q) + Len(ring)
    BY <1>1, <1>5, ConcatProperties
  <2>2. n \in 1 .. Len(q) + Len(ring) /\ n <= Len(q)
    BY <1>4, <1>5
  <2>3. \A i \in 1 .. Len(q) + Len(ring) :
          outputs[i] = IF i <= Len(q) THEN q[i] ELSE ring[i - Len(q)]
    BY <1>1, <1>5, ConcatProperties
  <2> HIDE DEF n, q
  <2> QED
    BY <2>1, <2>2, <2>3
<1> QED
  BY <1>2, <1>3, <1>4, <1>5, <1>7

(* No packet is stamped later than the bound on the stamps. *)
InTime ==
  /\ \A c \in CPUs : stamped[c] # <<>> => stamped[c][1].ts <= LastStamp
  /\ \A i \in 1 .. Len(outputs) : outputs[i].ts <= LastStamp

LEMMA InitInTime == Init => InTime
BY DEF Init, Pipe!Init, InTime

LEMMA NextInTime ==
  ASSUME PipeP!PipeInv, InTime, [Next]_vars
  PROVE  InTime'
<1> USE DEF InTime
<1>0. stamped \in [CPUs -> PipeP!AtMostOne] /\ outputs \in Seq(Events)
  BY DEF PipeP!PipeInv, PipeP!TypeOK, PipeP!Event, Events
<1>1. CASE UNCHANGED <<stamped, outputs>>
  BY <1>1
<1>2. ASSUME NEW c \in CPUs, NEW load, clock <= LastStamp, Pipe!Stamp(c, load)
      PROVE  InTime'
  BY <1>0, <1>2 DEF Pipe!Stamp
<1>3. ASSUME NEW c \in CPUs, Pipe!Output(c) PROVE InTime'
  <2> USE <1>3 DEF Pipe!Output
  <2>1. stamped[c] \in Seq(Events) /\ Len(stamped[c]) = 1
    BY <1>0, PipeP!OneEvent, PipeConstants DEF PipeP!Event, Events
  <2>2. Len(outputs) \in Nat
    BY <1>0, LenProperties
  <2>3. /\ Len(outputs') = Len(outputs) + 1
        /\ outputs'[Len(outputs) + 1] = stamped[c][1]
        /\ \A i \in 1 .. Len(outputs) : outputs'[i] = outputs[i]
    BY <1>0, <2>1, OneMoreEvent
  <2>4. ASSUME NEW i \in 1 .. Len(outputs')
        PROVE  outputs'[i].ts <= LastStamp
    <3>1. CASE i \in 1 .. Len(outputs)
      BY <2>3, <3>1
    <3>2. CASE i = Len(outputs) + 1
      <4>1. outputs'[i] = stamped[c][1]
        BY <2>3, <3>2
      <4> QED
        BY <4>1
    <3> QED
      BY <2>2, <2>3, <3>1, <3>2
  <2>5. \A d \in CPUs : stamped'[d] \in {<<>>, stamped[d]}
    BY <1>0
  <2> QED
    BY <2>4, <2>5
<1>4. ASSUME NEW c \in CPUs, Pipe!Drop(c) PROVE InTime'
  BY <1>0, <1>4 DEF Pipe!Drop
<1>5. CASE Capture
  BY <1>2, <1>3, <1>4, <1>5 DEF Capture, Pipe!KernelStep
<1>6. CASE Next /\ ~Capture
  <2>1. UNCHANGED <<stamped, outputs>>
    BY <1>6 DEF Next, Advance, Reader, TakeEvent, MatchStep, Stop, PruneStep, Cancel,
       pipeVars, Pipe!Read, Pipe!ReadFails, Pipe!Deliver, Pipe!kernelVars
  <2> QED
    BY <1>1, <2>1
<1>7. CASE UNCHANGED vars
  BY <1>1, <1>7 DEF vars, pipeVars
<1> QED
  BY <1>5, <1>6, <1>7

LEMMA StepOfTable ==
  PipeP!PipeInv /\ InTime /\ [Next]_vars => [Table!Next]_(Table!vars)
<1> SUFFICES ASSUME PipeP!PipeInv, InTime, [Next]_vars
             PROVE  [Table!Next]_(Table!vars)
  OBVIOUS
<1> USE DEF tableVars, Table!vars, Table!timeVars, Table!mainVars, Table!pruneVars
<1>1. CASE Advance
  BY <1>1 DEF Advance, Table!Next
<1>2. CASE Capture
  BY <1>2 DEF Capture, Pipe!Stamp, Pipe!KernelStep, Pipe!Output, Pipe!Drop
<1>3. CASE Reader
  BY <1>3 DEF Reader, Pipe!Read, Pipe!ReadFails
<1>4. CASE TakeEvent
  <2> USE <1>4 DEF TakeEvent, Pipe!Deliver
  <2> DEFINE e == Head(hand)
             p == ToPacket(e)
  <2>1. e \in Events /\ e.ts <= LastStamp /\ e.ts <= clock
    BY OnOffer DEF InTime, PipeP!PipeInv, PipeP!OutputsPast
  <2> HIDE DEF e
  <2>2. p \in Table!Observation /\ p.ts = e.ts
    <3>1. 0 .. MaxClock \subseteq Table!Timestamps
      BY MonitorAssumption, WordAssumption DEF Timestamps, Table!Timestamps
    <3> QED
      BY <2>1, <3>1 DEF ToPacket, Events, Table!Observation, Segments, Table!Segments
  <2> HIDE DEF p
  <2>3. Table!Receive(p)
    BY DEF p, e
  <2> QED
    BY <2>1, <2>2, <2>3 DEF Table!Next
<1>5. CASE MatchStep
  BY <1>5 DEF MatchStep, Table!Next
<1>6. CASE Stop
  BY <1>6 DEF Stop, Table!Next
<1>7. CASE PruneStep
  BY <1>7 DEF PruneStep, Table!Next
<1>8. CASE Cancel
  BY <1>8 DEF Cancel
<1>9. CASE UNCHANGED vars
  BY <1>9 DEF vars
<1> QED
  BY <1>1, <1>2, <1>3, <1>4, <1>5, <1>6, <1>7, <1>8, <1>9 DEF Next

LEMMA InTimeHolds == Spec => []InTime
BY InitInTime, NextInTime, PipeHolds, PTL DEF Spec

(* The monitor drives the table as it is specified to be driven            *)
(* (kprobe.go:158-226): CalcLatency works on one packet at a time, and on  *)
(* none that was stamped after the present.                                *)
THEOREM ImplementsTable == Spec => DrivesTheTable
<1>1. Init => Table!Init
  BY DEF Init
<1> QED
  BY <1>1, StepOfTable, InTimeHolds, PipeHolds, PTL
     DEF Spec, DrivesTheTable, Table!Spec

(* The constants of the monitor are constants the table can work with. *)
LEMMA TableConstants == TableP!WordAssumption /\ TableP!TableAssumption
BY WordAssumption, MonitorAssumption
   DEF TableP!WordAssumption, TableP!TableAssumption, TableP!Timestamps, Timestamps

(* The two instances of the table are one. *)
LEMMA SameMatched == Table!Matched = TableP!Matched
BY DEF Table!Matched, TableP!Matched, Table!MapThenFoldSet, TableP!MapThenFoldSet

LEMMA SameTable ==
  /\ Table!Init <=> TableP!Init
  /\ [Table!Next]_(Table!vars) <=> [TableP!Next]_(TableP!vars)
BY SameMatched
   DEF Table!vars, TableP!vars, Table!timeVars, TableP!timeVars,
       Table!mainVars, TableP!mainVars, Table!pruneVars,
       TableP!pruneVars, Table!Absent, TableP!Absent, Table!Segments,
       TableP!Segments, Table!Timestamps, TableP!Timestamps,
       Table!Observation, TableP!Observation, Table!Opens, TableP!Opens,
       Table!Closes, TableP!Closes, Table!NoVictim, TableP!NoVictim,
       Table!NoPacket, TableP!NoPacket, Table!Present, TableP!Present,
       Table!Elapsed, TableP!Elapsed, Table!Readings, TableP!Readings,
       Table!Stale, TableP!Stale, Table!PruneDone, TableP!PruneDone,
       Table!Advance, TableP!Advance,
       Table!StopTicker, TableP!StopTicker, Table!Receive,
       TableP!Receive, Table!Get, TableP!Get, Table!Insert,
       TableP!Insert, Table!RemoveLoad, TableP!RemoveLoad,
       Table!RemoveDelete, TableP!RemoveDelete, Table!PruneStart,
       TableP!PruneStart, Table!PruneVisit, TableP!PruneVisit,
       Table!PruneDelete, TableP!PruneDelete, Table!PruneEnd,
       TableP!PruneEnd, Table!MainStep, TableP!MainStep,
       Table!PruneStep, TableP!PruneStep, Table!Next, TableP!Next,
       Table!Init, TableP!Init

LEMMA TableSpec == Spec => TableP!Spec
BY ImplementsTable, SameTable, PTL DEF DrivesTheTable, Table!Spec, TableP!Spec

LEMMA TableHolds == Spec => []TableP!IInv
BY TableSpec, TableConstants, TableP!Invariance, PTL

(* In the assembled monitor, too, no packet counts in two latencies        *)
(* (packet.go:103-137; kprobe.go:203-222).                                 *)
THEOREM MonitorCountsOnce == Spec => []Table!NoPacketCountsTwice
<1>1. TableP!IInv => Table!NoPacketCountsTwice
  BY DEF TableP!IInv, TableP!NoPacketCountsTwice, Table!NoPacketCountsTwice,
         TableP!OpenFlows, Table!OpenFlows, TableP!Absent, Table!Absent
<1> QED
  BY <1>1, TableHolds, PTL

(* In the assembled monitor, too, Remove deletes the entry whose latency   *)
(* was displayed, or nothing (flowtable.go:40-48; kprobe.go:203-222).      *)
THEOREM MonitorRemovesDisplayed == Spec => []Table!RemovesTheDisplayedEntry
<1>1. TableP!IInv => Table!RemovesTheDisplayedEntry
  BY DEF TableP!IInv, TableP!RemovesTheDisplayedEntry,
         Table!RemovesTheDisplayedEntry, TableP!Absent, Table!Absent
<1> QED
  BY <1>1, TableHolds, PTL

(* In the assembled monitor, too, Prune deletes a young entry only if it   *)
(* was stored after Prune read the clock or stamped after the time it read *)
(* (flowtable.go:51-65; kprobe.go:183-187).                                *)
THEOREM MonitorPrunesOld == Spec => Table!PrunesOnlyOldUnlessRaced
<1>1. (\A k \in Keys : TableP!Pruned(k) /\ k \notin recent /\ table[k] <= now
                         => clock - table[k] > MaxAge * Milli)
      <=> (\A k \in Keys : Table!Pruned(k) /\ k \notin recent /\ table[k] <= now
                         => clock - table[k] > MaxAge * Milli)
  BY DEF TableP!Pruned, Table!Pruned, TableP!Absent, Table!Absent
<1>2. (UNCHANGED TableP!vars) <=> UNCHANGED Table!vars
  BY DEF TableP!vars, Table!vars, TableP!timeVars, Table!timeVars,
         TableP!mainVars, Table!mainVars, TableP!pruneVars, Table!pruneVars
<1> QED
  BY <1>1, <1>2, TableSpec, TableConstants, TableP!PrunesOldEntries, PTL
     DEF TableP!PrunesOnlyOldUnlessRaced, Table!PrunesOnlyOldUnlessRaced

(* In the assembled monitor, too, Prune leaves an old entry behind only if *)
(* it has met a fresh one (flowtable.go:54-63; kprobe.go:183-187).         *)
THEOREM MonitorPrunesAll == Spec => Table!PrunesAllUnlessFresh
<1>1. /\ TableP!Present = Table!Present
      /\ \A n, ts : TableP!Stale(n, ts) <=> Table!Stale(n, ts)
  BY DEF TableP!Present, Table!Present, TableP!Absent, Table!Absent,
         TableP!Stale, Table!Stale
<1>2. (UNCHANGED TableP!vars) <=> UNCHANGED Table!vars
  BY DEF TableP!vars, Table!vars, TableP!timeVars, Table!timeVars,
         TableP!mainVars, Table!mainVars, TableP!pruneVars, Table!pruneVars
<1>3. (prunePc = "range" /\ prunePc' = "wait"
         => \/ TableP!Present \subseteq recent
            \/ \E k \in TableP!Present : ~TableP!Stale(now, table[k]))
      <=> (prunePc = "range" /\ prunePc' = "wait"
         => \/ Table!Present \subseteq recent
            \/ \E k \in Table!Present : ~Table!Stale(now, table[k]))
  BY <1>1
<1> QED
  BY <1>2, <1>3, TableSpec, TableConstants, TableP!PrunesAll, PTL
     DEF TableP!PrunesAllUnlessFresh, Table!PrunesAllUnlessFresh

(* The whole way from the channel to the table implements the one-step     *)
(* matching of FlowLatency: CalcLatency is atomic in Run (kprobe.go:203-222*)
(* packet.go:93-138), whatever Prune and the pipe do meanwhile.            *)
THEOREM MonitorIsAtomic == Spec => Table!CalcLatencyIsAtomic
<1>1. /\ TableP!Matching!Init <=> Table!Matching!Init
      /\ [TableP!Matching!Next]_(TableP!Matching!vars)
           <=> [Table!Matching!Next]_(Table!Matching!vars)
  BY DEF TableP!OpenFlows, Table!OpenFlows, TableP!Absent, Table!Absent,
         TableP!Matching!vars, Table!Matching!vars, TableP!Matching!Init,
         Table!Matching!Init, TableP!Matching!Absent, Table!Matching!Absent,
         TableP!Matching!Segments, Table!Matching!Segments,
         TableP!Matching!Timestamps, Table!Matching!Timestamps,
         TableP!Matching!Observation, Table!Matching!Observation,
         TableP!Matching!Opens, Table!Matching!Opens,
         TableP!Matching!Closes, Table!Matching!Closes,
         TableP!Matching!Next, Table!Matching!Next, TableP!Matching!Observe,
         Table!Matching!Observe, TableP!Matching!Open, Table!Matching!Open,
         TableP!Matching!Close, Table!Matching!Close,
         TableP!Matching!Ignore, Table!Matching!Ignore,
         TableP!Matching!Expire, Table!Matching!Expire
<1> QED
  BY <1>1, TableSpec, TableConstants, TableP!Refinement, PTL
     DEF TableP!CalcLatencyIsAtomic, Table!CalcLatencyIsAtomic,
         TableP!Matching!Spec, Table!Matching!Spec

-----------------------------------------------------------------------------
(* Latencies *)

(* The packets delivered before the one that CalcLatency works on. *)
Before == IF pc = "idle" THEN Len(delivered) ELSE Len(delivered) - 1

AtWorkOnLast ==
  pc # "idle" => Len(delivered) > 0 /\ pkt = ToPacket(delivered[Len(delivered)])

(* Packet e opens an entry for flow k, and stores time t in it. *)
Stores(e, k, t) == Opens(ToPacket(e)) /\ e.load.key = k /\ e.ts = t

(* Packet f closes what packet e opened, and the latency shown is l. *)
Shows(e, f, l) ==
  /\ e.load.key = f.load.key
  /\ Opens(ToPacket(e)) /\ Closes(ToPacket(f))
  /\ l = f.ts - e.ts

(* An entry of the table is a packet that was delivered earlier.           *)
StoredWasDelivered ==
  \A k \in Keys : table[k] # Absent =>
    \E i \in 1 .. Before : Stores(delivered[i], k, table[k])

(* The latency on display is the time from a packet that opens a flow to a *)
(* later one that closes it (packet.go:103-134), whatever was dropped,     *)
(* pruned or removed between the two.                                      *)
LatencyOfTwo ==
  IF \A k \in Keys : shown[k] = 0
    THEN latency = 0
    ELSE \E i, j \in 1 .. Len(delivered) :
           i < j /\ Shows(delivered[i], delivered[j], latency)

HistoryInv ==
  /\ delivered \in Seq(Events)
  /\ table \in [Keys -> Int]
  /\ AtWorkOnLast /\ StoredWasDelivered /\ LatencyOfTwo

LEMMA SameAbsent ==
  /\ Table!Absent = Absent
  /\ \A p : (Table!Opens(p) <=> Opens(p)) /\ (Table!Closes(p) <=> Closes(p))
BY DEF Table!Absent, Absent, Table!Opens, Opens, Table!Closes, Closes

(* What the proof of the table supplies. *)
LEMMA AtTable ==
  ASSUME TableP!IInv
  PROVE  shown \in [Keys -> Nat] /\ (pc = "insert" => Opens(pkt))
BY DEF TableP!IInv, TableP!TypeOK, TableP!InsertsOverNothing, TableP!Opens, Opens

LEMMA InitHistory == Init => HistoryInv
BY DEF Init, Pipe!Init, Table!Init, Table!Absent, Absent, HistoryInv,
       AtWorkOnLast, StoredWasDelivered, LatencyOfTwo

(* The packet at hand is one of a known flow and of a known time. *)
LEMMA AtHand ==
  ASSUME HistoryInv, pc # "idle"
  PROVE  /\ Len(delivered) \in Nat \ {0} /\ Before = Len(delivered) - 1
         /\ delivered[Len(delivered)] \in Events
         /\ pkt = ToPacket(delivered[Len(delivered)])
         /\ pkt.key \in Keys /\ pkt.ts \in Nat
         /\ pkt.key = delivered[Len(delivered)].load.key
         /\ pkt.ts = delivered[Len(delivered)].ts
<1> DEFINE e == delivered[Len(delivered)]
<1>1. Len(delivered) \in Nat \ {0}
  BY LenProperties DEF HistoryInv, AtWorkOnLast
<1>2. e \in Events
  BY <1>1, ElementOfSeq DEF HistoryInv
<1>3. pkt = ToPacket(e)
  BY DEF HistoryInv, AtWorkOnLast
<1>4. MaxClock \in Nat
  BY MonitorAssumption, WordAssumption DEF Timestamps
<1> HIDE DEF e
<1>5. /\ pkt.key = e.load.key /\ pkt.ts = e.ts
      /\ pkt.key \in Keys /\ pkt.ts \in Nat
  BY <1>2, <1>3, <1>4 DEF ToPacket, Events
<1> QED
  BY <1>1, <1>2, <1>3, <1>5 DEF Before, e

(* What is known of the packets delivered outlasts a packet more. *)
LEMMA TakeEventHistory ==
  ASSUME PipeP!PipeInv, HistoryInv, TakeEvent
  PROVE  HistoryInv'
<1> USE DEF TakeEvent, Pipe!Deliver, Table!Receive, Table!timeVars, HistoryInv
<1> DEFINE n == Len(delivered) + 1
<1>1. Len(hand) = 1 /\ Head(hand) \in Events /\ Len(delivered) \in Nat
  BY OnOffer
<1>2. hand \in Seq(Events) /\ Head(hand) = hand[1]
  BY <1>1 DEF PipeP!PipeInv, PipeP!TypeOK, PipeP!AtMostOne, PipeP!Event, Events
<1>3. /\ delivered' \in Seq(Events) /\ Len(delivered') = n
      /\ delivered'[n] = Head(hand)
      /\ \A i \in 1 .. Len(delivered) : delivered'[i] = delivered[i]
  BY <1>1, <1>2, OneMoreEvent
<1>4. Before = Len(delivered) /\ Before' = Len(delivered)
  BY <1>1, <1>3 DEF Before
<1>5. AtWorkOnLast'
  BY <1>1, <1>3 DEF AtWorkOnLast
<1>6. StoredWasDelivered'
  BY <1>3, <1>4 DEF StoredWasDelivered
<1>7. LatencyOfTwo'
  <2>1. CASE \A k \in Keys : shown[k] = 0
    BY <2>1 DEF LatencyOfTwo
  <2>2. CASE ~\A k \in Keys : shown[k] = 0
    <3>1. PICK i \in 1 .. Len(delivered), j \in 1 .. Len(delivered) :
            i < j /\ Shows(delivered[i], delivered[j], latency)
      BY <2>2 DEF LatencyOfTwo
    <3>2. i \in 1 .. Len(delivered') /\ j \in 1 .. Len(delivered')
      BY <1>1, <1>3
    <3> QED
      BY <1>3, <2>2, <3>1, <3>2 DEF LatencyOfTwo
  <2> QED
    BY <2>1, <2>2
<1> QED
  BY <1>3, <1>5, <1>6, <1>7

LEMMA MatchHistory ==
  ASSUME TableP!IInv, HistoryInv, MatchStep
  PROVE  HistoryInv'
<1> USE SameAbsent DEF HistoryInv, pipeVars
<1> DEFINE n == Len(delivered)
<1>0. /\ n \in Nat \ {0} /\ Before = n - 1
      /\ pkt.key \in Keys /\ pkt.ts \in Nat
      /\ pkt.key = delivered[n].load.key /\ pkt.ts = delivered[n].ts
      /\ pkt = ToPacket(delivered[n])
  <2>1. pc # "idle"
    BY DEF MatchStep, Table!MainStep, Table!Get, Table!Insert,
           Table!RemoveLoad, Table!RemoveDelete
  <2> QED
    BY <2>1, AtHand
<1>1. delivered' = delivered
  BY DEF MatchStep
<1>2. Before' \in {n, n - 1} /\ (pc' = "idle" => Before' = n)
  BY <1>1 DEF Before
<1>3. AtWorkOnLast'
  BY <1>1 DEF MatchStep, Table!MainStep, Table!Get, Table!Insert,
              Table!RemoveLoad, Table!RemoveDelete, AtWorkOnLast
<1> HIDE DEF n
<1>4. CASE Table!Get
  <2> USE <1>4 DEF Table!Get, Table!Elapsed
  <2>1. table' = table
    OBVIOUS
  <2>2. StoredWasDelivered'
    BY <1>0, <1>1, <1>2, <2>1 DEF StoredWasDelivered
  <2>3. LatencyOfTwo'
    <3> DEFINE ts == table[pkt.key]
    <3>1. CASE ts # Absent /\ Table!Closes(pkt)
      <4>1. latency' = pkt.ts - ts
        BY <3>1
      <4>2. PICK i \in 1 .. n - 1 : Stores(delivered[i], pkt.key, ts)
        BY <1>0, <3>1 DEF StoredWasDelivered
      <4>3. i \in 1 .. n /\ n \in 1 .. n /\ i < n
        BY <1>0
      <4>4. shown'[pkt.key] # 0
        BY <1>0, <3>1, AtTable
      <4>5. Closes(pkt)
        BY <3>1
      <4> HIDE DEF ts
      <4>6. Shows(delivered[i], delivered[n], latency')
        BY <1>0, <4>1, <4>2, <4>5 DEF Stores, Shows
      <4> QED
        BY <1>0, <1>1, <4>3, <4>4, <4>6 DEF LatencyOfTwo, n
    <3>2. CASE ~(ts # Absent /\ Table!Closes(pkt))
      <4>1. latency' = latency /\ shown' = shown
        BY <3>2
      <4> QED
        BY <1>1, <4>1 DEF LatencyOfTwo
    <3> QED
      BY <3>1, <3>2
  <2> QED
    BY <1>1, <1>3, <2>1, <2>2, <2>3
<1>5. CASE Table!Insert
  <2> USE <1>5 DEF Table!Insert
  <2>1. table' \in [Keys -> Int] /\ latency' = latency /\ shown' = shown /\ Before' = n
        /\ table' = [table EXCEPT ![pkt.key] = pkt.ts]
    BY <1>0, <1>2
  <2>2. StoredWasDelivered'
    <3> SUFFICES ASSUME NEW k \in Keys, table'[k] # Absent
                 PROVE  \E i \in 1 .. n : Stores(delivered[i], k, table'[k])
      BY <1>1, <2>1 DEF StoredWasDelivered
    <3>1. CASE k = pkt.key
      <4>1. Stores(delivered[n], k, table'[k])
        BY <1>0, <2>1, <3>1, AtTable DEF Stores
      <4> QED
        BY <1>0, <4>1
    <3>2. CASE k # pkt.key
      <4>1. table'[k] = table[k]
        BY <2>1, <3>2
      <4>2. PICK i \in 1 .. n - 1 : Stores(delivered[i], k, table[k])
        BY <1>0, <4>1 DEF StoredWasDelivered
      <4>3. i \in 1 .. n
        BY <1>0
      <4> QED
        BY <4>1, <4>2, <4>3
    <3> QED
      BY <3>1, <3>2
  <2>3. LatencyOfTwo'
    BY <1>1, <2>1 DEF LatencyOfTwo
  <2> QED
    BY <1>1, <1>3, <2>1, <2>2, <2>3
<1>6. CASE Table!RemoveLoad \/ Table!RemoveDelete
  <2>1. /\ latency' = latency /\ shown' = shown /\ table' \in [Keys -> Int]
        /\ \A k \in Keys : table'[k] \in {Absent, table[k]}
    BY <1>0, <1>6 DEF Table!RemoveLoad, Table!RemoveDelete, Absent
  <2>2. StoredWasDelivered'
    BY <1>0, <1>1, <1>2, <2>1 DEF StoredWasDelivered
  <2>3. LatencyOfTwo'
    BY <1>1, <2>1 DEF LatencyOfTwo
  <2> QED
    BY <1>1, <1>3, <2>1, <2>2, <2>3
<1> QED
  BY <1>4, <1>5, <1>6 DEF MatchStep, Table!MainStep

(* Everything else at most forgets entries. *)
LEMMA OtherHistory ==
  ASSUME HistoryInv, UNCHANGED <<delivered, pc, pkt, latency, shown>>,
         table' \in [Keys -> Int],
         \A k \in Keys : table'[k] \in {Absent, table[k]}
  PROVE  HistoryInv'
<1> USE DEF HistoryInv
<1>1. Before' = Before
  BY DEF Before
<1>2. AtWorkOnLast'
  BY DEF AtWorkOnLast
<1>3. StoredWasDelivered'
  <2> SUFFICES ASSUME NEW k \in Keys, table'[k] # Absent
               PROVE  \E i \in 1 .. Before : Stores(delivered[i], k, table'[k])
    BY <1>1 DEF StoredWasDelivered
  <2>1. table'[k] = table[k]
    OBVIOUS
  <2> QED
    BY <2>1 DEF StoredWasDelivered
<1>4. LatencyOfTwo'
  BY Zenon DEF LatencyOfTwo
<1> QED
  BY <1>2, <1>3, <1>4

LEMMA NextHistory ==
  ASSUME PipeP!PipeInv, TableP!IInv, HistoryInv, [Next]_vars
  PROVE  HistoryInv'
<1>1. CASE TakeEvent
  BY <1>1, TakeEventHistory
<1>2. CASE MatchStep
  BY <1>2, MatchHistory
<1>3. CASE PruneStep
  <2>1. UNCHANGED <<delivered, pc, pkt, latency, shown>>
    BY <1>3 DEF PruneStep, pipeVars, Table!PruneStep, Table!PruneStart, Table!PruneVisit,
                Table!PruneDelete, Table!PruneEnd, Table!mainVars
  <2>2. table' = table \/ table' = [table EXCEPT ![victim.key] = Absent]
    BY <1>3, SameAbsent
       DEF PruneStep, Table!PruneStep, Table!PruneStart, Table!PruneVisit,
           Table!PruneDelete, Table!PruneEnd
  <2>3. table' \in [Keys -> Int] /\ \A k \in Keys : table'[k] \in {Absent, table[k]}
    BY <2>2 DEF HistoryInv, Absent
  <2> QED
    BY <2>1, <2>3, OtherHistory
<1>4. CASE Advance \/ Capture \/ Reader \/ Stop \/ Cancel \/ UNCHANGED vars
  <2>1. UNCHANGED <<delivered, pc, pkt, latency, shown, table>>
    <3>1. CASE Advance \/ Stop \/ Cancel \/ UNCHANGED vars
      BY <3>1 DEF Advance, Stop, Cancel, vars, pipeVars, tableVars,
                  Table!Advance, Table!StopTicker, Table!mainVars
    <3>2. CASE Capture \/ Reader
      BY <3>2 DEF Capture, Reader, tableVars, Pipe!Stamp, Pipe!KernelStep, Pipe!Output,
                  Pipe!Drop, Pipe!Read, Pipe!ReadFails
    <3> QED
      BY <1>4, <3>1, <3>2
  <2> QED
    BY <2>1, OtherHistory DEF HistoryInv
<1> QED
  BY <1>1, <1>2, <1>3, <1>4 DEF Next

LEMMA NegativeExplained ==
  HistoryInv /\ Pipe!OrderedPerCPU => NegativeOnlyAcrossCPUs
<1> SUFFICES ASSUME HistoryInv, Pipe!OrderedPerCPU, latency < 0
             PROVE  \E i, j \in 1 .. Len(delivered) :
                      /\ i < j
                      /\ delivered[i].load.key = delivered[j].load.key
                      /\ delivered[i].cpu # delivered[j].cpu
                      /\ delivered[j].ts - delivered[i].ts = latency
  BY DEF NegativeOnlyAcrossCPUs
<1>0. latency # 0
  OBVIOUS
<1>1. PICK i \in 1 .. Len(delivered), j \in 1 .. Len(delivered) :
        i < j /\ Shows(delivered[i], delivered[j], latency)
  BY <1>0 DEF HistoryInv, LatencyOfTwo
<1>2. delivered[i].ts \in Nat /\ delivered[j].ts \in Nat
  <2>1. delivered[i] \in Events /\ delivered[j] \in Events
    BY ElementOfSeq DEF HistoryInv
  <2>2. MaxClock \in Nat
    BY MonitorAssumption, WordAssumption DEF Timestamps
  <2> QED
    BY <2>1, <2>2 DEF Events
<1>3. delivered[i].cpu # delivered[j].cpu
  BY <1>1, <1>2 DEF Pipe!OrderedPerCPU, Shows
<1> QED
  BY <1>1, <1>3 DEF Shows

LEMMA HistoryHolds == Spec => []HistoryInv
BY InitHistory, NextHistory, PipeHolds, TableHolds, PTL DEF Spec

(* A latency on display is that of two packets of one flow: one that opens *)
(* it and a later one that closes it (packet.go:103-134), both delivered   *)
(* (kprobe.go:203-222).  None is made of packets the table has confused.   *)
THEOREM LatencyIsOfTwoPackets == Spec => []LatencyOfTwo
<1>1. HistoryInv => LatencyOfTwo
  BY DEF HistoryInv
<1> QED
  BY <1>1, HistoryHolds, PTL

(* A latency is negative only when the two packets of the flow came from   *)
(* different CPUs (packet.go:123, 134; flat.c:144-162), however many CPUs  *)
(* there are, whatever the ring drops and Prune deletes.                   *)
THEOREM NegativeLatency == Spec => []NegativeOnlyAcrossCPUs
BY NegativeExplained, HistoryHolds, PipeHolds, PTL

(* On a machine with one CPU no latency is negative (packet.go:123, 134).  *)
THEOREM OneCPUNeverNegative ==
  ASSUME NEW c, CPUs = {c}
  PROVE  Spec => [](latency >= 0)
<1>1. TableP!IInv /\ HistoryInv /\ NegativeOnlyAcrossCPUs => latency >= 0
  <2> SUFFICES ASSUME TableP!IInv, HistoryInv, NegativeOnlyAcrossCPUs, latency < 0
               PROVE  FALSE
    BY DEF TableP!IInv, TableP!TypeOK
  <2>1. \A i \in 1 .. Len(delivered) : delivered[i].cpu = c
    <3> SUFFICES ASSUME NEW i \in 1 .. Len(delivered) PROVE delivered[i].cpu = c
      OBVIOUS
    <3>1. delivered[i] \in Events
      BY ElementOfSeq DEF HistoryInv
    <3> QED
      BY <3>1 DEF Events
  <2> QED
    BY <2>1, Zenon DEF NegativeOnlyAcrossCPUs
<1> QED
  BY <1>1, HistoryHolds, TableHolds, NegativeLatency, PTL

-----------------------------------------------------------------------------
(* Counting *)

(* Those of the first n packets of d that belong to flow k. *)
OfFlow(d, k, n) == {i \in 1 .. n : d[i].load.key = k}

(* How many of the packets delivered have been looked up or inserted.      *)
Counted == IF pc \in {"get", "insert"} THEN Len(delivered) - 1 ELSE Len(delivered)

(* Every packet that came out of the channel is matched exactly once, and  *)
(* against its own flow (kprobe.go:203-222; packet.go:93-138): none is     *)
(* overlooked, matched again or matched as a packet of another flow.       *)
MatchesEachOnce ==
  \A k \in Keys : observed[k] = Cardinality(OfFlow(delivered, k, Counted))

LEMMA OfNone ==
  ASSUME NEW d, NEW k PROVE Cardinality(OfFlow(d, k, 0)) = 0
<1>1. OfFlow(d, k, 0) = {}
  BY DEF OfFlow
<1> QED
  BY <1>1, FS_EmptySet

LEMMA OneMoreOfFlow ==
  ASSUME NEW d, NEW k, NEW n \in Nat \ {0}
  PROVE  /\ Cardinality(OfFlow(d, k, n - 1)) \in Nat
         /\ Cardinality(OfFlow(d, k, n))
              = Cardinality(OfFlow(d, k, n - 1)) + (IF d[n].load.key = k THEN 1 ELSE 0)
<1>1. IsFiniteSet(OfFlow(d, k, n - 1))
  <2>1. IsFiniteSet(1 .. n - 1)
    BY FS_Interval
  <2>2. OfFlow(d, k, n - 1) \subseteq 1 .. n - 1
    BY DEF OfFlow
  <2> QED
    BY <2>1, <2>2, FS_Subset
<1>2. Cardinality(OfFlow(d, k, n - 1)) \in Nat
  BY <1>1, FS_CardinalityType
<1>3. CASE d[n].load.key = k
  <2>1. OfFlow(d, k, n) = OfFlow(d, k, n - 1) \cup {n} /\ n \notin OfFlow(d, k, n - 1)
    BY <1>3 DEF OfFlow
  <2>2. Cardinality(OfFlow(d, k, n)) = Cardinality(OfFlow(d, k, n - 1)) + 1
    BY <1>1, <2>1, FS_AddElement
  <2> QED
    BY <1>2, <1>3, <2>2
<1>4. CASE d[n].load.key # k
  <2>1. OfFlow(d, k, n) = OfFlow(d, k, n - 1)
    BY <1>4 DEF OfFlow
  <2> QED
    BY <1>2, <1>4, <2>1
<1> QED
  BY <1>3, <1>4, <1>2

LEMMA InitCounts == Init => MatchesEachOnce
<1> SUFFICES ASSUME Init, NEW k \in Keys
             PROVE  observed[k] = Cardinality(OfFlow(delivered, k, Counted))
  BY DEF MatchesEachOnce
<1>1. observed[k] = 0 /\ Counted = 0
  BY DEF Init, Pipe!Init, Table!Init, Counted
<1> QED
  BY <1>1, OfNone

(* A packet more is delivered, but is not matched yet. *)
LEMMA TakeEventCounts ==
  ASSUME PipeP!PipeInv, HistoryInv, MatchesEachOnce, TakeEvent
  PROVE  MatchesEachOnce'
<1> USE DEF TakeEvent, Pipe!Deliver, Table!Receive
<1>1. Len(hand) = 1 /\ Head(hand) \in Events /\ Len(delivered) \in Nat
  BY OnOffer
<1>2. hand \in Seq(Events) /\ delivered \in Seq(Events)
  BY DEF PipeP!PipeInv, PipeP!TypeOK, PipeP!AtMostOne, PipeP!Event, Events, HistoryInv
<1>3. /\ Len(delivered') = Len(delivered) + 1
      /\ \A i \in 1 .. Len(delivered) : delivered'[i] = delivered[i]
  BY <1>1, <1>2, OneMoreEvent
<1>4. Counted = Len(delivered) /\ Counted' = Len(delivered)
  BY <1>1, <1>3 DEF Counted
<1>5. ASSUME NEW k \in Keys
      PROVE  OfFlow(delivered', k, Counted') = OfFlow(delivered, k, Counted)
  BY <1>3, <1>4 DEF OfFlow
<1>6. observed' = observed
  OBVIOUS
<1> QED
  BY <1>5, <1>6 DEF MatchesEachOnce

(* The packet at hand is matched, as one of its flow. *)
LEMMA MatchCounts ==
  ASSUME TableP!IInv, HistoryInv, MatchesEachOnce, MatchStep
  PROVE  MatchesEachOnce'
<1> DEFINE n == Len(delivered)
<1>0. /\ n \in Nat \ {0} /\ pkt.key \in Keys /\ pkt.key = delivered[n].load.key
  <2>1. pc # "idle"
    BY DEF MatchStep, Table!MainStep, Table!Get, Table!Insert,
           Table!RemoveLoad, Table!RemoveDelete
  <2> QED
    BY <2>1, AtHand
<1>1. delivered' = delivered
  BY DEF MatchStep, pipeVars
<1>2. observed \in [Keys -> Nat]
  BY DEF TableP!IInv, TableP!TypeOK
<1> DEFINE Matches == /\ Counted = n - 1 /\ Counted' = n
                      /\ observed' = [observed EXCEPT ![pkt.key] = @ + 1]
<1>3. Matches \/ (Counted' = Counted /\ observed' = observed)
  BY <1>1 DEF MatchStep, Table!MainStep, Table!Get, Table!Insert,
              Table!RemoveLoad, Table!RemoveDelete, Counted
<1>4. ASSUME NEW k \in Keys, Matches
      PROVE  observed'[k] = Cardinality(OfFlow(delivered, k, n))
  <2>1. observed[k] = Cardinality(OfFlow(delivered, k, n - 1))
    BY <1>4 DEF MatchesEachOnce
  <2>2. Cardinality(OfFlow(delivered, k, n))
          = observed[k] + (IF delivered[n].load.key = k THEN 1 ELSE 0)
    BY <1>0, <2>1, OneMoreOfFlow
  <2> HIDE DEF n
  <2>3. observed'[k] = observed[k] + (IF pkt.key = k THEN 1 ELSE 0)
    BY <1>0, <1>2, <1>4
  <2> QED
    BY <1>0, <2>2, <2>3
<1> QED
  BY <1>1, <1>3, <1>4 DEF MatchesEachOnce

LEMMA NextCounts ==
  ASSUME PipeP!PipeInv, TableP!IInv, HistoryInv, MatchesEachOnce, [Next]_vars
  PROVE  MatchesEachOnce'
<1>1. CASE TakeEvent
  BY <1>1, TakeEventCounts
<1>2. CASE MatchStep
  BY <1>2, MatchCounts
<1>3. CASE Advance \/ Capture \/ Reader \/ Stop \/ PruneStep \/ Cancel \/ UNCHANGED vars
  <2>1. UNCHANGED <<delivered, pc, observed>>
    <3>1. CASE Advance \/ Stop \/ Cancel \/ UNCHANGED vars
      BY <3>1 DEF Advance, Stop, Cancel, vars, pipeVars, tableVars,
                  Table!Advance, Table!StopTicker, Table!mainVars
    <3>2. CASE Capture \/ Reader
      BY <3>2 DEF Capture, Reader, tableVars, Pipe!Stamp, Pipe!KernelStep, Pipe!Output,
                  Pipe!Drop, Pipe!Read, Pipe!ReadFails
    <3>3. CASE PruneStep
      BY <3>3 DEF PruneStep, pipeVars, Table!PruneStep, Table!PruneStart,
                  Table!PruneVisit, Table!PruneDelete, Table!PruneEnd, Table!mainVars
    <3> QED
      BY <1>3, <3>1, <3>2, <3>3
  <2>2. Counted' = Counted
    BY <2>1 DEF Counted
  <2> QED
    BY <2>1, <2>2 DEF MatchesEachOnce
<1> QED
  BY <1>1, <1>2, <1>3 DEF Next

(* Every packet that came out of the channel is matched exactly once       *)
(* (kprobe.go:203-222; packet.go:93-138).                                  *)
THEOREM EachPacketOnce == Spec => []MatchesEachOnce
BY InitCounts, NextCounts, PipeHolds, TableHolds, HistoryHolds, PTL DEF Spec

(* Of the packets of a flow that were delivered, at most every second one  *)
(* has a latency displayed for it (kprobe.go:203-222; packet.go:93-138).   *)
LatencyPerTwoPackets ==
  \A k \in Keys : 2 * shown[k] <= Cardinality(OfFlow(delivered, k, Len(delivered)))

(* No flow shows more latencies than it has pairs of packets delivered,    *)
(* however Prune and CalcLatency interleave (packet.go:93-138).            *)
THEOREM NoMoreThanPairs == Spec => []LatencyPerTwoPackets
<1>1. TableP!IInv /\ HistoryInv /\ MatchesEachOnce => LatencyPerTwoPackets
  <2> SUFFICES ASSUME TableP!IInv, HistoryInv, MatchesEachOnce, NEW k \in Keys
               PROVE  2 * shown[k] <= Cardinality(OfFlow(delivered, k, Len(delivered)))
    BY DEF LatencyPerTwoPackets
  <2>1. 2 * shown[k] <= observed[k] /\ observed[k] \in Nat /\ shown[k] \in Nat
    BY DEF TableP!IInv, TableP!NoPacketCountsTwice, TableP!TypeOK
  <2>2. observed[k] = Cardinality(OfFlow(delivered, k, Counted))
    BY DEF MatchesEachOnce
  <2>3. CASE Counted = Len(delivered)
    BY <2>1, <2>2, <2>3
  <2>4. CASE Counted # Len(delivered)
    <3>1. Counted = Len(delivered) - 1 /\ Len(delivered) \in Nat \ {0}
      BY <2>4, AtHand DEF Counted
    <3>2. Cardinality(OfFlow(delivered, k, Len(delivered))) \in {observed[k], observed[k] + 1}
      BY <2>1, <2>2, <3>1, OneMoreOfFlow
    <3> QED
      BY <2>1, <3>2
  <2> QED
    BY <2>3, <2>4
<1> QED
  BY <1>1, TableHolds, HistoryHolds, EachPacketOnce, PTL
=============================================================================
