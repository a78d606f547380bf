------------------------------ MODULE EventPipe ------------------------------
(***************************************************************************)
(* The way of a packet from the kernel to the main loop of the flow        *)
(* monitor: flat.c stamps it, then copies it into the ring buffer `pipe';  *)
(* the reader goroutine of Run takes it out of the ring and hands it to    *)
(* the main loop over an unbuffered channel.                               *)
(*                                                                         *)
(* The program runs on every CPU at once, one packet at a time on each.    *)
(* Between the stamp and the copy the other CPUs may do anything.  The     *)
(* ring and the channel are the kernel's and Go's: modelled from their use.*)
(***************************************************************************)
EXTENDS Integers, Sequences, FiniteSets

CONSTANTS
  CPUs,        \* the CPUs that run flat
  Payloads,    \* what a packet carries besides its timestamp
  Capacity,    \* the records the ring holds (512 KB of 56 bytes each)
  MaxClock,    \* bound: the last instant that is told apart
  MaxStamped   \* bound: number of packets reported or dropped

ASSUME PipeAssumption ==
  /\ CPUs # {} /\ Payloads # {}
  /\ Capacity \in Nat \ {0} /\ MaxClock \in Nat /\ MaxStamped \in Nat

Event     == [cpu : CPUs, load : Payloads, ts : 0 .. MaxClock]
AtMostOne == {s \in Seq(Event) : Len(s) <= 1}

VARIABLES
  clock,      \* bpf_ktime_get_ns: nanoseconds since boot
  stamped,    \* stamped[c]: the packet CPU c has stamped but not copied yet
  ring,       \* the ring buffer
  reading,    \* the reader goroutine runs
  hand,       \* the event it offers on the channel, if any
  dropped,    \* number of packets that found the ring full
  outputs,    \* every event the ring accepted, in order
  delivered   \* every event the main loop took, in order

kernelVars == <<stamped, dropped, outputs>>
vars == <<clock, kernelVars, ring, reading, hand, delivered>>

Init ==
  /\ clock = 0
  /\ stamped = [c \in CPUs |-> <<>>]
  /\ ring = <<>> /\ reading = TRUE /\ hand = <<>>
  /\ dropped = 0 /\ outputs = <<>> /\ delivered = <<>>

(* The last value of clock stands for all later time. *)
Advance ==
  /\ clock' = IF clock < MaxClock THEN clock + 1 ELSE MaxClock
  /\ UNCHANGED <<kernelVars, ring, reading, hand, delivered>>

-----------------------------------------------------------------------------
(* flat.c, from the timestamp on *)

Busy == {c \in CPUs : stamped[c] # <<>>}

Stamp(c, load) ==
  /\ stamped[c] = <<>>
  /\ Len(outputs) + dropped + Cardinality(Busy) < MaxStamped
  /\ stamped' = [stamped EXCEPT ![c] = <<[cpu |-> c, load |-> load, ts |-> clock]>>]
  /\ UNCHANGED <<clock, dropped, outputs, ring, reading, hand, delivered>>

(* Mutation: the ring is not checked for room.                             *)
OutputUnchecked(c) ==
  /\ stamped[c] # <<>>
  /\ ring'    = ring \o stamped[c]
  /\ outputs' = outputs \o stamped[c]
  /\ stamped' = [stamped EXCEPT ![c] = <<>>]
  /\ UNCHANGED <<clock, dropped, reading, hand, delivered>>

Output(c) ==
  /\ stamped[c] # <<>>
  /\ Len(ring) < Capacity
  /\ ring'    = ring \o stamped[c]
  /\ outputs' = outputs \o stamped[c]
  /\ stamped' = [stamped EXCEPT ![c] = <<>>]
  /\ UNCHANGED <<clock, dropped, reading, hand, delivered>>

(* bpf_ringbuf_output fails: the packet goes on its way unreported. *)
Drop(c) ==
  /\ stamped[c] # <<>>
  /\ Len(ring) = Capacity
  /\ dropped' = dropped + 1
  /\ stamped' = [stamped EXCEPT ![c] = <<>>]
  /\ UNCHANGED <<clock, outputs, ring, reading, hand, delivered>>

-----------------------------------------------------------------------------
(* The reader goroutine *)

(* Mutation: the record that was read is not consumed.                     *)
ReadAgain ==
  /\ reading /\ hand = <<>>
  /\ ring # <<>>
  /\ hand' = <<Head(ring)>>
  /\ UNCHANGED <<clock, kernelVars, ring, reading, delivered>>

(* Mutation: the youngest record is read first.                            *)
ReadYoungest ==
  /\ reading /\ hand = <<>>
  /\ ring # <<>>
  /\ hand' = <<ring[Len(ring)]>>
  /\ ring' = SubSeq(ring, 1, Len(ring) - 1)
  /\ UNCHANGED <<clock, kernelVars, reading, delivered>>

(* Mutation: a record is read only when another one waits behind it.       *)
ReadBatch ==
  /\ reading /\ hand = <<>>
  /\ Len(ring) > 1
  /\ hand' = <<Head(ring)>>
  /\ ring' = Tail(ring)
  /\ UNCHANGED <<clock, kernelVars, reading, delivered>>

Read ==
  /\ reading /\ hand = <<>>
  /\ ring # <<>>
  /\ hand' = <<Head(ring)>>
  /\ ring' = Tail(ring)
  /\ UNCHANGED <<clock, kernelVars, reading, delivered>>

(* An error of Read ends the goroutine, and nothing starts another. *)
ReadFails ==
  /\ reading /\ hand = <<>>
  /\ reading' = FALSE
  /\ UNCHANGED <<clock, kernelVars, ring, hand, delivered>>

(* The main loop takes the event that is offered to it. *)
Deliver ==
  /\ hand # <<>>
  /\ delivered' = delivered \o hand
  /\ hand' = <<>>
  /\ UNCHANGED <<clock, kernelVars, ring, reading>>

-----------------------------------------------------------------------------
KernelStep == \E c \in CPUs : Output(c) \/ Drop(c)

Next ==
  \/ Advance
  \/ \E c \in CPUs, load \in Payloads : Stamp(c, load)
  \/ KernelStep
  \/ Read \/ ReadFails \/ Deliver

(* A program that has started ends, and Go schedules the reader and the    *)
(* main loop.  Nobody owes the pipe a packet, or an error.                 *)
Fairness == /\ \A c \in CPUs : WF_vars(Output(c) \/ Drop(c))
            /\ WF_vars(Read) /\ WF_vars(Deliver)

Spec     == Init /\ [][Next]_vars
FairSpec == Spec /\ Fairness

-----------------------------------------------------------------------------
(* Properties *)

TypeOK ==
  /\ clock \in 0 .. MaxClock
  /\ stamped \in [CPUs -> AtMostOne]
  /\ ring \in Seq(Event) /\ Len(ring) <= Capacity
  /\ reading \in BOOLEAN
  /\ hand \in AtMostOne
  /\ dropped \in Nat
  /\ outputs \in Seq(Event) /\ delivered \in Seq(Event)

(* Between the ring and CalcLatency no event is lost, doubled or           *)
(* reordered, whenever the reader ends (kprobe.go:197-208, 219): what the  *)
(* ring accepted is what was taken, what is on offer, and what is left.    *)
DeliversInOutputOrder == outputs = delivered \o hand \o ring

(* The timestamps the main loop sees never go backwards among the packets  *)
(* of one CPU (flat.c:144-147, 159-162).  Of two CPUs they may: the stamp  *)
(* and the output are two steps.                                           *)
OrderedPerCPU ==
  \A i, j \in 1 .. Len(delivered) :
    i < j /\ delivered[i].cpu = delivered[j].cpu
      => delivered[i].ts <= delivered[j].ts

(* Every packet the ring accepted reaches the main loop, unless the reader *)
(* dies (kprobe.go:197-208).                                               *)
AllDelivered ==
  []reading =>
    \A n \in 1 .. MaxStamped : Len(outputs) >= n ~> Len(delivered) >= n
=============================================================================
