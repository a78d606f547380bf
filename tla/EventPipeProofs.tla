--------------------------- MODULE EventPipeProofs ---------------------------
(***************************************************************************)
(* The event pipe proved for any number of CPUs, any capacity of the ring  *)
(* and any bound on time and traffic.                                      *)
(***************************************************************************)
EXTENDS EventPipe, SequenceTheorems, TLAPS

(* The ring accepts the packets of each CPU in the order of their stamps.  *)
OutputsOrderedPerCPU ==
  \A i, j \in 1 .. Len(outputs) :
    i < j /\ outputs[i].cpu = outputs[j].cpu => outputs[i].ts <= outputs[j].ts

(* What a CPU has accepted by the ring is no younger than what it is about *)
(* to copy, and neither is of the future.                                  *)
StampedIsLatest ==
  \A c \in CPUs : stamped[c] # <<>> =>
    /\ stamped[c][1].cpu = c
    /\ stamped[c][1].ts <= clock
    /\ \A i \in 1 .. Len(outputs) :
         outputs[i].cpu = c => outputs[i].ts <= stamped[c][1].ts

OutputsPast == \A i \in 1 .. Len(outputs) : outputs[i].ts <= clock

PipeInv ==
  /\ TypeOK
  /\ DeliversInOutputOrder
  /\ OutputsOrderedPerCPU
  /\ StampedIsLatest
  /\ OutputsPast

-----------------------------------------------------------------------------
(* What is on offer, or on its way, is one event or none. *)
LEMMA OneEvent ==
  ASSUME NEW s \in AtMostOne, s # <<>>
  PROVE  /\ s \in Seq(Event) /\ Len(s) = 1 /\ s[1] \in Event
         /\ s[1].ts \in Nat /\ s[1].ts <= MaxClock
<1>1. s \in Seq(Event) /\ Len(s) <= 1
  BY DEF AtMostOne
<1>2. Len(s) = 1
  <2>1. Len(s) \in Nat \ {0}
    BY <1>1, EmptySeq, Zenon
  <2>2. \A n \in Nat \ {0} : n <= 1 => n = 1
    OBVIOUS
  <2> QED
    BY <1>1, <2>1, <2>2, Zenon
<1>3. s[1] \in Event
  BY <1>1, <1>2, ElementOfSeq
<1>4. s[1].ts \in 0 .. MaxClock
  BY <1>3 DEF Event
<1> QED
  BY <1>1, <1>2, <1>3, <1>4, PipeAssumption

LEMMA Singleton ==
  ASSUME NEW e \in Event
  PROVE  <<e>> \in AtMostOne /\ <<e>> # <<>> /\ <<e>>[1] = e
BY DEF AtMostOne

LEMMA NoEvent == <<>> \in AtMostOne /\ <<>> \in Seq(Event)
BY DEF AtMostOne

(* An event more at the end of the ring is one more at the end of the pipe.*)
LEMMA OneMore ==
  ASSUME NEW d \in Seq(Event), NEW r \in Seq(Event),
         NEW one \in Seq(Event), Len(one) = 1
  PROVE  /\ (d \o r) \o one = d \o (r \o one)
         /\ r \o one \in Seq(Event) /\ Len(r \o one) = Len(r) + 1
<1>1. (d \o r) \o one = d \o (r \o one)
  BY ConcatAssociative
<1>2. r \o one \in Seq(Event)
  BY ConcatProperties
<1>3. Len(r \o one) = Len(r) + Len(one)
  BY ConcatProperties
<1> QED
  BY <1>1, <1>2, <1>3

LEMMA InitPipe == Init => PipeInv
<1> SUFFICES ASSUME Init PROVE PipeInv
  OBVIOUS
<1> USE DEF Init
<1>1. TypeOK
  <2>1. stamped \in [CPUs -> AtMostOne]
    BY NoEvent
  <2>2. clock \in 0 .. MaxClock /\ dropped \in Nat
    BY PipeAssumption
  <2>3. /\ ring \in Seq(Event) /\ Len(ring) <= Capacity
        /\ outputs \in Seq(Event) /\ delivered \in Seq(Event)
    BY PipeAssumption
  <2>4. hand \in AtMostOne /\ reading \in BOOLEAN
    BY NoEvent
  <2> QED
    BY <2>1, <2>2, <2>3, <2>4 DEF TypeOK
<1>2. DeliversInOutputOrder
  BY DEF DeliversInOutputOrder
<1>3. OutputsOrderedPerCPU /\ OutputsPast /\ StampedIsLatest
  BY DEF OutputsOrderedPerCPU, OutputsPast, StampedIsLatest
<1> QED
  BY <1>1, <1>2, <1>3 DEF PipeInv

-----------------------------------------------------------------------------
(* A step that moves no event keeps what is known of their order.          *)
LEMMA SameEvents ==
  ASSUME PipeInv, outputs' = outputs, delivered' = delivered, hand' = hand,
         ring' = ring
  PROVE  DeliversInOutputOrder' /\ OutputsOrderedPerCPU'
<1>1. DeliversInOutputOrder'
  BY Zenon DEF PipeInv, DeliversInOutputOrder
<1>2. OutputsOrderedPerCPU'
  BY Zenon DEF PipeInv, OutputsOrderedPerCPU
<1> QED
  BY <1>1, <1>2

(* A step that neither stamps nor accepts a packet keeps the stamps known. *)
LEMMA SameStamps ==
  ASSUME PipeInv, outputs' = outputs, stamped' = stamped, clock' = clock
  PROVE  OutputsOrderedPerCPU' /\ OutputsPast' /\ StampedIsLatest'
<1>1. OutputsOrderedPerCPU'
  BY Zenon DEF PipeInv, OutputsOrderedPerCPU
<1>2. OutputsPast'
  BY Zenon DEF PipeInv, OutputsPast
<1>3. StampedIsLatest'
  BY Zenon DEF PipeInv, StampedIsLatest
<1> QED
  BY <1>1, <1>2, <1>3

(* What the concatenation with one event more looks like.                  *)
LEMMA OneMoreAt ==
  ASSUME NEW q \in Seq(Event), NEW one \in Seq(Event), Len(one) = 1
  PROVE  /\ q \o one \in Seq(Event) /\ Len(q \o one) = Len(q) + 1
         /\ (q \o one)[Len(q) + 1] = one[1]
         /\ \A i \in 1 .. Len(q) : (q \o one)[i] = q[i]
<1>1. Len(q) \in Nat
  BY LenProperties
<1>2. q \o one \in Seq(Event) /\ Len(q \o one) = Len(q) + Len(one)
  BY ConcatProperties
<1>3. \A i \in 1 .. Len(q) + Len(one) :
        (q \o one)[i] = IF i <= Len(q) THEN q[i] ELSE one[i - Len(q)]
  BY ConcatProperties
<1>4. (q \o one)[Len(q) + 1] = one[1]
  <2> DEFINE n == Len(q) + 1
  <2>1. n \in 1 .. Len(q) + Len(one) /\ ~(n <= Len(q)) /\ n - Len(q) = 1
    BY <1>1
  <2> HIDE DEF n
  <2>2. (q \o one)[n] = one[n - Len(q)]
    BY <1>3, <2>1
  <2> QED
    BY <2>1, <2>2 DEF n
<1>5. \A i \in 1 .. Len(q) : (q \o one)[i] = q[i]
  <2>1. \A i \in 1 .. Len(q) : i \in 1 .. Len(q) + Len(one) /\ i <= Len(q)
    BY <1>1
  <2> QED
    BY <1>3, <2>1
<1> QED
  BY <1>2, <1>4, <1>5

LEMMA NextPipe == PipeInv /\ [Next]_vars => PipeInv'
<1> SUFFICES ASSUME PipeInv, [Next]_vars PROVE PipeInv'
  OBVIOUS
<1> USE DEF PipeInv
<1>0. /\ clock \in Nat /\ MaxClock \in Nat /\ clock <= MaxClock
      /\ ring \in Seq(Event) /\ hand \in Seq(Event)
      /\ outputs \in Seq(Event) /\ delivered \in Seq(Event)
      /\ \A i \in 1 .. Len(outputs) : outputs[i].ts \in Nat
  <2>1. clock \in 0 .. MaxClock /\ MaxClock \in Nat
    BY PipeAssumption DEF TypeOK
  <2>2. /\ ring \in Seq(Event) /\ hand \in Seq(Event)
        /\ outputs \in Seq(Event) /\ delivered \in Seq(Event)
    BY DEF TypeOK, AtMostOne
  <2>3. \A i \in 1 .. Len(outputs) : outputs[i] \in Event
    BY <2>2, ElementOfSeq
  <2>4. \A x \in Event : x.ts \in Nat
    BY PipeAssumption DEF Event
  <2> QED
    BY <2>1, <2>2, <2>3, <2>4
<1>1. CASE Advance
  <2> USE <1>1 DEF Advance, kernelVars
  <2>1. TypeOK'
    BY <1>0 DEF TypeOK
  <2>2. clock' \in Nat /\ clock <= clock'
    BY <1>0
  <2>3. DeliversInOutputOrder' /\ OutputsOrderedPerCPU'
    BY SameEvents
  <2>4. OutputsPast'
    BY <1>0, <2>2 DEF OutputsPast
  <2>5. StampedIsLatest'
    <3> SUFFICES ASSUME NEW c \in CPUs, stamped[c] # <<>>
                 PROVE  stamped[c][1].ts <= clock'
      BY DEF StampedIsLatest
    <3>1. stamped[c][1].ts \in Nat
      BY OneEvent DEF TypeOK
    <3> QED
      BY <1>0, <2>2, <3>1 DEF StampedIsLatest
  <2> QED
    BY <2>1, <2>3, <2>4, <2>5
<1>2. ASSUME NEW c \in CPUs, NEW load \in Payloads, Stamp(c, load) PROVE PipeInv'
  <2> USE <1>2 DEF Stamp
  <2> DEFINE e == [cpu |-> c, load |-> load, ts |-> clock]
  <2>1. e \in Event /\ stamped' = [stamped EXCEPT ![c] = <<e>>]
    BY <1>0 DEF Event
  <2> HIDE DEF e
  <2>2. TypeOK'
    BY <2>1, Singleton DEF TypeOK
  <2>3. DeliversInOutputOrder' /\ OutputsOrderedPerCPU' /\ OutputsPast'
    <3>1. OutputsPast'
      BY Zenon DEF OutputsPast
    <3> QED
      BY <3>1, SameEvents
  <2>4. StampedIsLatest'
    <3> SUFFICES ASSUME NEW d \in CPUs, stamped'[d] # <<>>
                 PROVE  /\ stamped'[d][1].cpu = d
                        /\ stamped'[d][1].ts <= clock
                        /\ \A i \in 1 .. Len(outputs) :
                             outputs[i].cpu = d => outputs[i].ts <= stamped'[d][1].ts
      BY DEF StampedIsLatest
    <3>1. CASE d = c
      <4>1. stamped'[d][1] = e
        BY <2>1, <3>1 DEF TypeOK
      <4>2. e.cpu = d /\ e.ts = clock
        BY <3>1 DEF e
      <4> QED
        BY <1>0, <4>1, <4>2 DEF OutputsPast
    <3>2. CASE d # c
      <4>1. stamped'[d] = stamped[d]
        BY <2>1, <3>2 DEF TypeOK
      <4> QED
        BY <4>1 DEF StampedIsLatest
    <3> QED
      BY <3>1, <3>2
  <2> QED
    BY <2>2, <2>3, <2>4
<1>3. ASSUME NEW c \in CPUs, Output(c) PROVE PipeInv'
  <2> USE <1>3 DEF Output
  <2> DEFINE s == stamped[c]
             e == s[1]
             n == Len(outputs) + 1
  <2>0. outputs' = outputs \o s /\ ring' = ring \o s
    OBVIOUS
  <2>1. s \in Seq(Event) /\ Len(s) = 1 /\ e \in Event /\ e.ts \in Nat
    BY OneEvent DEF TypeOK
  <2>2. /\ outputs' = outputs \o s /\ outputs' \in Seq(Event)
        /\ Len(outputs') = n /\ outputs'[n] = e
        /\ \A i \in 1 .. Len(outputs) : outputs'[i] = outputs[i]
    <3> HIDE DEF s, e
    <3>1. /\ outputs \o s \in Seq(Event) /\ Len(outputs \o s) = n
          /\ (outputs \o s)[n] = s[1]
          /\ \A i \in 1 .. Len(outputs) : (outputs \o s)[i] = outputs[i]
      BY <1>0, <2>1, OneMoreAt
    <3> QED
      BY <2>0, <3>1 DEF e
  <2>3. /\ ring' = ring \o s /\ ring' \in Seq(Event)
        /\ Len(ring') = Len(ring) + 1
    BY <1>0, <2>0, <2>1, OneMore
  <2>4. e.cpu = c /\ e.ts <= clock
        /\ \A i \in 1 .. Len(outputs) : outputs[i].cpu = c => outputs[i].ts <= e.ts
    BY DEF StampedIsLatest
  <2>5. \A d \in CPUs : stamped'[d] = IF d = c THEN <<>> ELSE stamped[d]
    BY DEF TypeOK
  <2> HIDE DEF s, e
  <2>6. TypeOK'
    <3>1. Len(ring') <= Capacity
      BY <1>0, <2>3, PipeAssumption, LenProperties
    <3>2. stamped' \in [CPUs -> AtMostOne]
      BY NoEvent DEF TypeOK
    <3> QED
      BY <2>2, <2>3, <3>1, <3>2 DEF TypeOK
  <2>7. DeliversInOutputOrder'
    <3> DEFINE d == delivered \o hand
    <3>1. d \in Seq(Event)
      BY <1>0, ConcatProperties
    <3>2. outputs' = (d \o ring) \o s
      BY <2>2 DEF DeliversInOutputOrder
    <3> HIDE DEF d
    <3>3. (d \o ring) \o s = d \o (ring \o s)
      <4>1. ring \in Seq(Event) /\ s \in Seq(Event)
        BY <1>0, <2>1
      <4> QED
        BY ONLY <3>1, <4>1, ConcatAssociative
    <3>4. outputs' = d \o ring'
      <4>1. ring' = ring \o s
        BY <2>3
      <4> QED
        BY ONLY <3>2, <3>3, <4>1
    <3>5. hand' = hand /\ delivered' = delivered
      OBVIOUS
    <3> QED
      BY <3>4, <3>5 DEF DeliversInOutputOrder, d
  <2>8. OutputsOrderedPerCPU'
    <3> SUFFICES ASSUME NEW i \in 1 .. n, NEW j \in 1 .. n, i < j,
                        outputs'[i].cpu = outputs'[j].cpu
                 PROVE  outputs'[i].ts <= outputs'[j].ts
      BY <2>2 DEF OutputsOrderedPerCPU
    <3>1. i \in 1 .. Len(outputs) /\ outputs'[i] = outputs[i]
      BY <1>0, <2>2, LenProperties
    <3>2. CASE j = n
      BY <2>2, <2>4, <3>1, <3>2
    <3>3. CASE j # n
      <4>1. j \in 1 .. Len(outputs) /\ outputs'[j] = outputs[j]
        BY <1>0, <2>2, <3>3, LenProperties
      <4> QED
        BY <3>1, <4>1 DEF OutputsOrderedPerCPU
    <3> QED
      BY <3>2, <3>3
  <2>9. OutputsPast'
    <3> SUFFICES ASSUME NEW i \in 1 .. n PROVE outputs'[i].ts <= clock
      BY <2>2 DEF OutputsPast
    <3>1. CASE i = n
      BY <2>2, <2>4, <3>1
    <3>2. CASE i # n
      BY <1>0, <2>2, <3>2, LenProperties DEF OutputsPast
    <3> QED
      BY <3>1, <3>2
  <2>10. StampedIsLatest'
    <3> SUFFICES ASSUME NEW d \in CPUs, stamped'[d] # <<>>
                 PROVE  /\ stamped'[d][1].cpu = d
                        /\ stamped'[d][1].ts <= clock
                        /\ \A i \in 1 .. n :
                             outputs'[i].cpu = d => outputs'[i].ts <= stamped'[d][1].ts
      BY <2>2 DEF StampedIsLatest
    <3>1. d # c /\ stamped'[d] = stamped[d]
      BY <2>5
    <3>2. \A i \in 1 .. n : outputs'[i].cpu = d => i \in 1 .. Len(outputs)
      BY <1>0, <2>2, <2>4, <3>1, LenProperties
    <3> QED
      BY <2>2, <3>1, <3>2 DEF StampedIsLatest
  <2> QED
    BY <2>6, <2>7, <2>8, <2>9, <2>10
<1>4. ASSUME NEW c \in CPUs, Drop(c) PROVE PipeInv'
  <2> USE <1>4 DEF Drop
  <2>1. \A d \in CPUs : stamped'[d] = IF d = c THEN <<>> ELSE stamped[d]
    BY DEF TypeOK
  <2>2. TypeOK'
    BY NoEvent DEF TypeOK
  <2>3. DeliversInOutputOrder' /\ OutputsOrderedPerCPU' /\ OutputsPast'
    <3>1. OutputsPast'
      BY Zenon DEF OutputsPast
    <3> QED
      BY <3>1, SameEvents
  <2>4. StampedIsLatest'
    BY <2>1 DEF StampedIsLatest
  <2> QED
    BY <2>2, <2>3, <2>4
<1>5. CASE Read
  <2> USE <1>5 DEF Read, kernelVars
  <2>1. /\ Head(ring) \in Event /\ Tail(ring) \in Seq(Event)
        /\ Len(Tail(ring)) = Len(ring) - 1
        /\ ring = <<Head(ring)>> \o Tail(ring)
    BY <1>0, HeadTailProperties, ConcatProperties
  <2>2. TypeOK'
    <3>1. Len(ring') <= Capacity
      BY <1>0, <2>1, PipeAssumption, LenProperties DEF TypeOK
    <3> QED
      BY <2>1, <3>1, Singleton DEF TypeOK
  <2>3. DeliversInOutputOrder'
    <3>1. outputs = delivered \o ring
      BY <1>0, ConcatEmptySeq DEF DeliversInOutputOrder
    <3>2. hand' \in Seq(Event)
      BY <2>1, Singleton DEF AtMostOne
    <3>3. outputs = delivered \o (hand' \o ring')
      BY <2>1, <3>1
    <3>4. (delivered \o hand') \o ring' = delivered \o (hand' \o ring')
      BY <1>0, <2>1, <3>2, ConcatAssociative
    <3> QED
      BY <3>3, <3>4 DEF DeliversInOutputOrder
  <2>4. OutputsOrderedPerCPU' /\ OutputsPast' /\ StampedIsLatest'
    BY SameStamps
  <2> QED
    BY <2>2, <2>3, <2>4
<1>6. CASE ReadFails
  <2> USE <1>6 DEF ReadFails, kernelVars
  <2>1. reading' \in BOOLEAN
    OBVIOUS
  <2>2. TypeOK'
    BY <2>1 DEF TypeOK
  <2>3. DeliversInOutputOrder'
    BY DEF DeliversInOutputOrder
  <2>4. OutputsOrderedPerCPU' /\ OutputsPast' /\ StampedIsLatest'
    BY SameStamps
  <2> QED
    BY <2>2, <2>3, <2>4
<1>7. CASE Deliver
  <2> USE <1>7 DEF Deliver, kernelVars
  <2>1. delivered' \in Seq(Event)
    BY <1>0, ConcatProperties
  <2>2. TypeOK'
    BY <2>1, NoEvent DEF TypeOK
  <2>3. DeliversInOutputOrder'
    <3>1. delivered' \o hand' = delivered'
      BY <2>1, ConcatEmptySeq
    <3> QED
      BY <3>1 DEF DeliversInOutputOrder
  <2>4. OutputsOrderedPerCPU' /\ OutputsPast' /\ StampedIsLatest'
    BY SameStamps
  <2> QED
    BY <2>2, <2>3, <2>4
<1>8. CASE UNCHANGED vars
  <2> USE <1>8 DEF vars, kernelVars
  <2>1. TypeOK'
    BY DEF TypeOK
  <2> QED
    BY <2>1, SameEvents, SameStamps
<1> QED
  BY <1>1, <1>2, <1>3, <1>4, <1>5, <1>6, <1>7, <1>8 DEF Next, KernelStep

(* The inductive invariant: types, the ring between output and delivery,   *)
(* and the order of the stamps (flat.c:144-162, kprobe.go:197-222).        *)
THEOREM PipeInvariance == Spec => []PipeInv
BY InitPipe, NextPipe, PTL DEF Spec

(* Every variable keeps its type, and the ring never holds more than fits. *)
THEOREM PipeTypeCorrect == Spec => []TypeOK
<1>1. PipeInv => TypeOK
  BY DEF PipeInv
<1> QED
  BY <1>1, PipeInvariance, PTL

(* The reader goroutine and the channel lose, double and reorder nothing   *)
(* (kprobe.go:197-208).                                                    *)
THEOREM NothingLost == Spec => []DeliversInOutputOrder
<1>1. PipeInv => DeliversInOutputOrder
  BY DEF PipeInv
<1> QED
  BY <1>1, PipeInvariance, PTL

(* The packets of each CPU reach the main loop in the order of their       *)
(* timestamps (flat.c:144-147, 159-162), however many CPUs there are.      *)
THEOREM DeliveredInOrder == Spec => []OrderedPerCPU
<1>1. PipeInv => OrderedPerCPU
  <2> SUFFICES ASSUME PipeInv PROVE OrderedPerCPU
    OBVIOUS
  <2> USE DEF PipeInv
  <2>1. /\ delivered \in Seq(Event) /\ hand \in Seq(Event) /\ ring \in Seq(Event)
        /\ hand \o ring \in Seq(Event)
    <3>1. delivered \in Seq(Event) /\ hand \in Seq(Event) /\ ring \in Seq(Event)
      BY DEF TypeOK, AtMostOne
    <3> QED
      BY <3>1, ConcatProperties
  <2>2. outputs = delivered \o (hand \o ring)
    <3>1. (delivered \o hand) \o ring = delivered \o (hand \o ring)
      BY <2>1, ConcatAssociative
    <3> QED
      BY <3>1 DEF DeliversInOutputOrder
  <2>3. Len(delivered) \in Nat /\ Len(hand \o ring) \in Nat
    BY <2>1, LenProperties
  <2>4. \A i \in 1 .. Len(delivered) :
          i \in 1 .. Len(outputs) /\ outputs[i] = delivered[i]
    BY <2>1, <2>2, <2>3, ConcatProperties
  <2> QED
    BY <2>4 DEF OrderedPerCPU, OutputsOrderedPerCPU
<1> QED
  BY <1>1, PipeInvariance, PTL
=============================================================================
