-------------------------- MODULE HookProgramsProofs --------------------------
(***************************************************************************)
(* The small programs proved: ip-counter for any number of CPUs and any    *)
(* width of the counter, trace-kills for any pids and any width of an int, *)
(* and the way both loaders let go of what they hold.                      *)
(***************************************************************************)
EXTENDS NetkitEventsProofs, FiniteSetTheorems

(* One packet more is one count more, also when the counter wraps. *)
LEMMA CountOneMore ==
  ASSUME NEW n \in Nat, NEW w \in Nat \ {0}
  PROVE  ((n % w) + 1) % w = (n + 1) % w
<1> DEFINE q == n \div w
           r == n % w
<1>1. q \in Int /\ r \in 0 .. w - 1 /\ n = w * q + r
  OBVIOUS
<1> DEFINE p == (n + 1) \div w
           s == (n + 1) % w
<1>2. p \in Int /\ s \in 0 .. w - 1 /\ n + 1 = w * p + s
  OBVIOUS
<1>3. (r + 1) % w = IF r + 1 = w THEN 0 ELSE r + 1
  <2> HIDE DEF r
  <2>1. CASE r + 1 = w
    BY <1>1, <2>1
  <2>2. CASE r + 1 # w
    BY <1>1, <2>2
  <2> QED
    BY <2>1, <2>2
<1>4. s = IF r + 1 = w THEN 0 ELSE r + 1
  <2> HIDE DEF q, r, p, s
  <2>1. w * (p - q) = r + 1 - s
    BY <1>1, <1>2
  <2>2. p - q \in Int /\ (p - q < 0 => w * (p - q) <= -w)
        /\ (p - q > 1 => w * (p - q) >= 2 * w)
    BY <1>1, <1>2
  <2>3. p - q \in {0, 1}
    BY <1>1, <1>2, <2>1, <2>2
  <2>4. CASE p - q = 0
    BY <1>1, <1>2, <2>1, <2>4
  <2>5. CASE p - q = 1
    BY <1>1, <1>2, <2>1, <2>5
  <2> QED
    BY <2>3, <2>4, <2>5
<1> QED
  BY <1>3, <1>4

CountInv ==
  /\ packets \in Nat
  /\ CountsEveryPacket

LEMMA NextCount == CountInv /\ [Next]_vars => CountInv'
<1> SUFFICES ASSUME CountInv, [Next]_vars PROVE CountInv'
  OBVIOUS
<1> USE DEF CountInv, CountsEveryPacket
<1>1. CASE UNCHANGED <<pktCount, packets, shown>>
  BY <1>1
<1>2. ASSUME NEW q \in Queues, FetchAndAdd(q) PROVE CountInv'
  <2>1. packets' = packets + 1 /\ pktCount' = (pktCount + 1) % Word /\ shown' = shown
    BY <1>2 DEF FetchAndAdd
  <2>2. packets' \in Nat /\ pktCount' = packets' % Word
    <3>1. pktCount' = ((packets % Word) + 1) % Word
      BY <2>1
    <3>2. ((packets % Word) + 1) % Word = (packets + 1) % Word
      BY CountOneMore, CounterAssumption
    <3> QED
      BY <2>1, <3>1, <3>2
  <2> QED
    BY <2>1, <2>2
<1>3. CASE ShowCount
  BY <1>3 DEF ShowCount
<1>4. CASE CounterNext
  <2>1. CASE \E q \in Queues : Lookup(q)
    BY <1>1, <2>1 DEF Lookup
  <2>2. CASE CounterStep /\ ~ShowCount
    BY <1>1, <2>2 DEF CounterStep, MemlockAndName, LoadCounter, AttachXDP, Notify,
                      SelectTick, CloseLast
  <2>3. CASE SelectStop \/ LogFatal \/ Tick \/ Sigint \/ Sigterm
    BY <1>1, <2>3 DEF SelectStop, LogFatal, Tick, Sigint, Sigterm, EndsAtOnce
  <2> QED
    BY <1>2, <1>3, <1>4, <2>1, <2>2, <2>3 DEF CounterNext
<1> QED
  BY <1>1, <1>4 DEF Next, vars, counterVars

(* No packet is lost from the count, whatever the CPUs do at once, and     *)
(* what is printed is the number of packets so far (counter.c:15-23,       *)
(* main.go:53-59).                                                         *)
THEOREM CountsAll == Spec => []CountsEveryPacket
<1>1. Init => CountInv
  BY CounterAssumption DEF Init, CounterInit, CountInv, CountsEveryPacket
<1>2. CountInv => CountsEveryPacket
  BY DEF CountInv
<1> QED
  BY <1>1, <1>2, NextCount, PTL DEF Spec

-----------------------------------------------------------------------------
(* The types of ip-counter's variables. *)

Busy == {q \in Queues : worker[q] # Absent}

(* The bound on the packets holds because every program that runs was      *)
(* counted against it when it began.                                       *)
WithinBound ==
  /\ IsFiniteSet(Busy)
  /\ packets \in Nat /\ packets + Cardinality(Busy) <= MaxPackets

CounterTypeInv == CounterTypeOK /\ WithinBound

LEMMA CounterNumbers ==
  /\ Absent \notin 0 .. Word - 1 /\ 0 \in 0 .. Word - 1
  /\ \A n \in Nat : n % Word \in 0 .. Word - 1
BY CounterAssumption DEF Absent

LEMMA InitCounterType == Init => CounterTypeInv
<1> SUFFICES ASSUME Init PROVE CounterTypeInv
  OBVIOUS
<1>1. /\ at = "memlock" /\ defers = {} /\ xdp = FALSE /\ tick = FALSE /\ stop = FALSE
      /\ worker = [q \in Queues |-> Absent] /\ pktCount = 0 /\ packets = 0 /\ shown = {}
  BY DEF Init, CounterInit
<1>2. Busy = {}
  BY <1>1 DEF Busy
<1>3. WithinBound
  BY <1>1, <1>2, FS_EmptySet, CounterAssumption DEF WithinBound
<1>4. CounterTypeOK
  <2>1. worker \in [Queues -> {Absent} \cup 0 .. Word - 1]
    BY <1>1
  <2>2. pktCount \in 0 .. Word - 1 /\ packets \in 0 .. MaxPackets
    BY <1>1, CounterAssumption
  <2> QED
    BY <1>1, <2>1, <2>2 DEF CounterTypeOK
<1> QED
  BY <1>3, <1>4 DEF CounterTypeInv

LEMMA LookupType ==
  ASSUME CounterTypeInv, NEW q \in Queues, Lookup(q)
  PROVE  CounterTypeInv'
<1>1. /\ worker[q] = Absent /\ packets + Cardinality(Busy) < MaxPackets
      /\ worker' = [worker EXCEPT ![q] = pktCount]
      /\ UNCHANGED <<at, defers, xdp, tick, stop, pktCount, packets, shown>>
  BY DEF Lookup, Busy
<1>2. /\ worker \in [Queues -> {Absent} \cup 0 .. Word - 1] /\ pktCount \in 0 .. Word - 1
      /\ pktCount # Absent
  BY CounterNumbers DEF CounterTypeInv, CounterTypeOK
<1>3. Busy' = Busy \cup {q} /\ q \notin Busy
  BY <1>1, <1>2 DEF Busy
<1>4. IsFiniteSet(Busy) /\ Cardinality(Busy) \in Nat
  BY FS_CardinalityType DEF CounterTypeInv, WithinBound
<1>5. IsFiniteSet(Busy') /\ Cardinality(Busy') = Cardinality(Busy) + 1
  BY <1>3, <1>4, FS_AddElement
<1>6. WithinBound'
  BY <1>1, <1>4, <1>5, CounterAssumption DEF CounterTypeInv, WithinBound
<1>7. CounterTypeOK'
  BY <1>1, <1>2 DEF CounterTypeInv, CounterTypeOK
<1> QED
  BY <1>6, <1>7 DEF CounterTypeInv

LEMMA FetchAndAddType ==
  ASSUME CounterTypeInv, NEW q \in Queues, FetchAndAdd(q)
  PROVE  CounterTypeInv'
<1>1. /\ worker[q] # Absent /\ worker' = [worker EXCEPT ![q] = Absent]
      /\ pktCount' = (pktCount + 1) % Word /\ packets' = packets + 1
      /\ UNCHANGED <<at, defers, xdp, tick, stop, shown>>
  BY DEF FetchAndAdd
<1>2. /\ worker \in [Queues -> {Absent} \cup 0 .. Word - 1] /\ pktCount \in 0 .. Word - 1
  BY DEF CounterTypeInv, CounterTypeOK
<1>3. Busy' = Busy \ {q} /\ q \in Busy
  BY <1>1, <1>2 DEF Busy
<1>4. IsFiniteSet(Busy) /\ Cardinality(Busy) \in Nat
  BY FS_CardinalityType DEF CounterTypeInv, WithinBound
<1>5. IsFiniteSet(Busy') /\ Cardinality(Busy') = Cardinality(Busy) - 1
  BY <1>3, <1>4, FS_RemoveElement
<1>6. /\ Cardinality(Busy') \in Nat /\ packets \in Nat
      /\ packets + Cardinality(Busy) <= MaxPackets
  BY <1>5, FS_CardinalityType DEF CounterTypeInv, WithinBound
<1>7. WithinBound'
  BY <1>1, <1>4, <1>5, <1>6, CounterAssumption DEF WithinBound
<1>8. packets' \in 0 .. MaxPackets
  BY <1>1, <1>4, <1>5, <1>6, CounterAssumption
<1>9. pktCount' \in 0 .. Word - 1
  <2>1. pktCount + 1 \in Nat
    BY <1>2, CounterAssumption
  <2> QED
    BY <1>1, <2>1, CounterNumbers
<1>10. worker' \in [Queues -> {Absent} \cup 0 .. Word - 1]
  BY <1>1, <1>2
<1>11. CounterTypeOK'
  BY <1>1, <1>8, <1>9, <1>10 DEF CounterTypeInv, CounterTypeOK
<1> QED
  BY <1>7, <1>11 DEF CounterTypeInv

LEMMA NextCounterType == CounterTypeInv /\ [Next]_vars => CounterTypeInv'
<1> SUFFICES ASSUME CounterTypeInv, [Next]_vars PROVE CounterTypeInv'
  OBVIOUS
<1>1. ASSUME UNCHANGED <<worker, packets>> PROVE WithinBound'
  <2>1. Busy' = Busy
    BY <1>1 DEF Busy
  <2> QED
    BY <1>1, <2>1 DEF CounterTypeInv, WithinBound
<1>2. CASE UNCHANGED counterVars
  BY <1>1, <1>2 DEF counterVars, CounterTypeInv, CounterTypeOK
<1>3. CASE MemlockAndName \/ LoadCounter \/ AttachXDP \/ Notify \/ SelectTick \/ SelectStop
  <2>1. CounterTypeOK'
    BY <1>3 DEF MemlockAndName, LoadCounter, AttachXDP, Notify, SelectTick, SelectStop,
                CallsOf, CounterTypeInv, CounterTypeOK
  <2>2. UNCHANGED <<worker, packets>>
    BY <1>3 DEF MemlockAndName, LoadCounter, AttachXDP, Notify, SelectTick, SelectStop
  <2> QED
    BY <1>1, <2>1, <2>2 DEF CounterTypeInv
<1>4. CASE ShowCount
  <2>1. <<pktCount, packets>> \in (0 .. Word - 1) \X (0 .. MaxPackets)
    BY DEF CounterTypeInv, CounterTypeOK
  <2>2. CounterTypeOK'
    BY <1>4, <2>1 DEF ShowCount, CallsOf, CounterTypeInv, CounterTypeOK
  <2> QED
    BY <1>1, <1>4, <2>2 DEF ShowCount, CounterTypeInv
<1>5. CASE CloseLast
  BY <1>1, <1>5 DEF CloseLast, CounterTypeInv, CounterTypeOK
<1>6. CASE LogFatal \/ Tick \/ Sigint \/ Sigterm
  <2>1. UNCHANGED <<worker, pktCount, packets, shown>>
    BY <1>6 DEF LogFatal, Tick, Sigint, Sigterm, EndsAtOnce
  <2>2. CounterTypeOK'
    BY <1>6, <2>1 DEF LogFatal, Tick, Sigint, Sigterm, EndsAtOnce,
                      CounterTypeInv, CounterTypeOK
  <2> QED
    BY <1>1, <2>1, <2>2 DEF CounterTypeInv
<1> QED
  BY <1>2, <1>3, <1>4, <1>5, <1>6, LookupType, FetchAndAddType
     DEF Next, vars, CounterNext, CounterStep

-----------------------------------------------------------------------------
(* What trace-kills writes. *)

(* The low word of a signed int, taken for unsigned. *)
LEMMA LowWord ==
  ASSUME NEW w \in Nat \ {0}, NEW n \in -w .. w - 1
  PROVE  n % w = (IF n >= 0 THEN n ELSE w + n) /\ n % w \in 0 .. w - 1
<1> DEFINE q == n \div w
           r == n % w
<1>1. q \in Int /\ r \in 0 .. w - 1 /\ n = w * q + r
  OBVIOUS
<1> HIDE DEF q, r
<1>2. (q > 0 => w * q >= w) /\ (q < -1 => w * q <= -(2 * w))
  BY <1>1
<1>3. q \in {-1, 0}
  BY <1>1, <1>2
<1>4. r = IF n >= 0 THEN n ELSE w + n
  BY <1>1, <1>3
<1> QED
  BY <1>1, <1>4 DEF r

(* Line n comes of the call call[n]. *)
ComesOf(call) ==
  /\ call \in [1 .. Len(trace) -> 1 .. Len(kills)]
  /\ \A m, n \in 1 .. Len(trace) : m < n => call[m] < call[n]
  /\ \A i \in 1 .. Len(kills) :
       kills[i][2] = 9 <=> \E n \in 1 .. Len(trace) : call[n] = i
  /\ \A n \in 1 .. Len(trace) : trace[n] = AsPrinted(kills[call[n]][1])

LEMMA ComesOfSigkills ==
  ASSUME KillsTypeOK
  PROVE  TracesSigkills <=> \E call : ComesOf(call)
<1>1. ASSUME NEW call \in [1 .. Len(trace) -> 1 .. Len(kills)],
             NEW n \in 1 .. Len(trace)
      PROVE  LET pid == kills[call[n]][1]
             IN AsPrinted(pid) = IF pid >= 0 THEN pid ELSE UInt + pid
  <2>1. call[n] \in 1 .. Len(kills)
    OBVIOUS
  <2>2. kills[call[n]] \in Pids \X Signals
    BY <2>1 DEF KillsTypeOK
  <2>3. kills[call[n]][1] \in -UInt .. UInt - 1
    BY <2>2, KillsAssumption
  <2> QED
    BY <2>3, LowWord, KillsAssumption DEF AsPrinted
<1>2. ASSUME TracesSigkills PROVE \E call : ComesOf(call)
  <2>1. PICK call \in [1 .. Len(trace) -> 1 .. Len(kills)] :
          /\ \A m, n \in 1 .. Len(trace) : m < n => call[m] < call[n]
          /\ \A i \in 1 .. Len(kills) :
               kills[i][2] = 9 <=> \E n \in 1 .. Len(trace) : call[n] = i
          /\ \A n \in 1 .. Len(trace) :
               LET pid == kills[call[n]][1]
               IN trace[n] = IF pid >= 0 THEN pid ELSE UInt + pid
    BY <1>2, Zenon DEF TracesSigkills
  <2>2. \A n \in 1 .. Len(trace) : trace[n] = AsPrinted(kills[call[n]][1])
    BY <1>1, <2>1
  <2>3. ComesOf(call)
    BY <2>1, <2>2, Zenon DEF ComesOf
  <2> QED
    BY <2>3
<1>3. ASSUME NEW call, ComesOf(call) PROVE TracesSigkills
  <2>1. /\ call \in [1 .. Len(trace) -> 1 .. Len(kills)]
        /\ \A n \in 1 .. Len(trace) : trace[n] = AsPrinted(kills[call[n]][1])
    BY <1>3, Zenon DEF ComesOf
  <2>2. \A n \in 1 .. Len(trace) :
          LET pid == kills[call[n]][1]
          IN trace[n] = IF pid >= 0 THEN pid ELSE UInt + pid
    BY <1>1, <2>1
  <2> QED
    BY <1>3, <2>2, Zenon DEF TracesSigkills, ComesOf
<1> QED
  BY <1>2, <1>3

KillsInv == KillsTypeOK /\ \E call : ComesOf(call)

(* What a call of kill(2) appends. *)
LEMMA OneMoreKill ==
  ASSUME KillsTypeOK, NEW pid \in Pids, NEW sig \in Signals, Kill(pid, sig)
  PROVE  /\ KillsTypeOK'
         /\ Len(kills) \in Nat /\ Len(kills') = Len(kills) + 1
         /\ kills'[Len(kills) + 1] = <<pid, sig>>
         /\ \A i \in 1 .. Len(kills) : kills'[i] = kills[i]
         /\ Len(trace) \in Nat
         /\ sig # 9 => trace' = trace
         /\ sig = 9 =>
              /\ Len(trace') = Len(trace) + 1
              /\ trace'[Len(trace) + 1] = AsPrinted(pid)
              /\ \A n \in 1 .. Len(trace) : trace'[n] = trace[n]
<1>1. /\ kills' = Append(kills, <<pid, sig>>) /\ UNCHANGED loaderVars
      /\ trace' = IF sig # 9 THEN trace ELSE Append(trace, AsPrinted(pid))
  BY DEF Kill, Args, Words
<1>2. <<pid, sig>> \in Pids \X Signals
  OBVIOUS
<1>3. AsPrinted(pid) \in 0 .. UInt - 1
  BY LowWord, KillsAssumption DEF AsPrinted
<1>4. kills \in Seq(Pids \X Signals) /\ trace \in Seq(0 .. UInt - 1)
  BY DEF KillsTypeOK
<1> DEFINE k == <<pid, sig>>
           p == AsPrinted(pid)
<1>5. k \in Pids \X Signals /\ p \in 0 .. UInt - 1
  BY <1>2, <1>3
<1> HIDE DEF k, p
<1>6. /\ kills' \in Seq(Pids \X Signals)
      /\ Len(kills) \in Nat /\ Len(kills') = Len(kills) + 1
      /\ kills'[Len(kills) + 1] = k
      /\ \A i \in 1 .. Len(kills) : kills'[i] = kills[i]
  <2>1. kills' = Append(kills, k)
    BY <1>1 DEF k
  <2> QED
    BY <1>4, <1>5, <2>1, AppendProperties, LenProperties
<1>7. /\ trace' \in Seq(0 .. UInt - 1) /\ Len(trace) \in Nat
      /\ sig # 9 => trace' = trace
      /\ sig = 9 => /\ Len(trace') = Len(trace) + 1
                    /\ trace'[Len(trace) + 1] = p
                    /\ \A n \in 1 .. Len(trace) : trace'[n] = trace[n]
  <2>1. CASE sig # 9
    BY <1>1, <1>4, <2>1, LenProperties
  <2>2. CASE sig = 9
    <3>1. trace' = Append(trace, p)
      BY <1>1, <2>2 DEF p
    <3> QED
      BY <1>4, <1>5, <2>2, <3>1, AppendProperties, LenProperties
  <2> QED
    BY <2>1, <2>2
<1>8. KillsTypeOK'
  BY <1>1, <1>6, <1>7 DEF KillsTypeOK, loaderVars
<1> QED
  BY <1>6, <1>7, <1>8 DEF k, p

LEMMA KillKeeps ==
  ASSUME KillsInv, NEW pid \in Pids, NEW sig \in Signals, Kill(pid, sig)
  PROVE  KillsInv'
<1>1. PICK call : ComesOf(call)
  BY DEF KillsInv
<1> DEFINE t == Len(trace)
           l == Len(kills)
<1>2. /\ KillsTypeOK' /\ l \in Nat /\ Len(kills') = l + 1
      /\ kills'[l + 1] = <<pid, sig>>
      /\ \A i \in 1 .. l : kills'[i] = kills[i]
      /\ t \in Nat
      /\ sig # 9 => trace' = trace
      /\ sig = 9 => /\ Len(trace') = t + 1
                    /\ trace'[t + 1] = AsPrinted(pid)
                    /\ \A n \in 1 .. t : trace'[n] = trace[n]
  BY OneMoreKill DEF KillsInv
<1>3. /\ call \in [1 .. t -> 1 .. l]
      /\ \A m, n \in 1 .. t : m < n => call[m] < call[n]
      /\ \A i \in 1 .. l : kills[i][2] = 9 <=> \E n \in 1 .. t : call[n] = i
      /\ \A n \in 1 .. t : trace[n] = AsPrinted(kills[call[n]][1])
  BY <1>1 DEF ComesOf
<1>4. <<pid, sig>>[1] = pid /\ <<pid, sig>>[2] = sig
  OBVIOUS
<1> HIDE DEF t, l
<1>5. CASE sig # 9
  <2>1. Len(trace') = t
    BY <1>2, <1>5 DEF t
  <2>2. call \in [1 .. t -> 1 .. l + 1]
    BY <1>2, <1>3
  <2>3. ASSUME NEW i \in 1 .. l + 1
        PROVE  kills'[i][2] = 9 <=> \E n \in 1 .. t : call[n] = i
    <3>1. CASE i \in 1 .. l
      BY <1>2, <1>3, <3>1
    <3>2. CASE i = l + 1
      <4>1. kills'[i][2] # 9
        BY <1>2, <1>4, <1>5, <3>2
      <4>2. \A n \in 1 .. t : call[n] # l + 1
        BY <1>2, <1>3
      <4> QED
        BY <3>2, <4>1, <4>2
    <3> QED
      BY <1>2, <3>1, <3>2
  <2>4. \A n \in 1 .. t : trace'[n] = AsPrinted(kills'[call[n]][1])
    BY <1>2, <1>3, <1>5
  <2>5. ComesOf(call)'
    BY <1>2, <1>3, <2>1, <2>2, <2>3, <2>4 DEF ComesOf, AsPrinted
  <2> QED
    BY <1>2, <2>5 DEF KillsInv
<1>6. CASE sig = 9
  <2>0. PICK c : c = [n \in 1 .. t + 1 |-> IF n = t + 1 THEN l + 1 ELSE call[n]]
    OBVIOUS
  <2>1. /\ c \in [1 .. t + 1 -> 1 .. l + 1] /\ c[t + 1] = l + 1
        /\ \A n \in 1 .. t : c[n] = call[n] /\ call[n] \in 1 .. l
    BY <1>2, <1>3, <2>0
  <2>2. Len(trace') = t + 1
    BY <1>2, <1>6
  <2>3. \A m, n \in 1 .. t + 1 : m < n => c[m] < c[n]
    BY <1>2, <1>3, <2>1
  <2>4. ASSUME NEW i \in 1 .. l + 1
        PROVE  kills'[i][2] = 9 <=> \E n \in 1 .. t + 1 : c[n] = i
    <3>1. CASE i \in 1 .. l
      <4>1. kills'[i][2] = 9 <=> \E n \in 1 .. t : call[n] = i
        BY <1>2, <1>3, <3>1
      <4>2. (\E n \in 1 .. t : call[n] = i) <=> \E n \in 1 .. t + 1 : c[n] = i
        BY <1>2, <2>1, <3>1
      <4> QED
        BY <4>1, <4>2
    <3>2. CASE i = l + 1
      <4>1. kills'[i][2] = 9
        BY <1>2, <1>4, <1>6, <3>2
      <4>2. t + 1 \in 1 .. t + 1
        BY <1>2
      <4> QED
        BY <2>1, <3>2, <4>1, <4>2
    <3> QED
      BY <1>2, <3>1, <3>2
  <2>5. ASSUME NEW n \in 1 .. t + 1
        PROVE  trace'[n] = AsPrinted(kills'[c[n]][1])
    <3>1. CASE n = t + 1
      <4>1. kills'[c[n]][1] = pid
        BY <1>2, <1>4, <2>1, <3>1
      <4>2. trace'[n] = AsPrinted(pid)
        BY <1>2, <1>6, <3>1
      <4> QED
        BY <4>1, <4>2
    <3>2. CASE n \in 1 .. t
      <4>1. c[n] = call[n] /\ call[n] \in 1 .. l
        BY <2>1, <3>2
      <4>2. kills'[c[n]] = kills[call[n]] /\ trace'[n] = trace[n]
        BY <1>2, <1>6, <3>2, <4>1
      <4> QED
        BY <1>3, <3>2, <4>2
    <3> QED
      BY <1>2, <3>1, <3>2
  <2>6. ComesOf(c)'
    BY <1>2, <2>1, <2>2, <2>3, <2>4, <2>5 DEF ComesOf, AsPrinted
  <2> QED
    BY <1>2, <2>6 DEF KillsInv
<1> QED
  BY <1>5, <1>6

LEMMA NextKills == KillsInv /\ [Next]_vars => KillsInv'
<1> SUFFICES ASSUME KillsInv, [Next]_vars PROVE KillsInv'
  OBVIOUS
<1>1. PICK call : ComesOf(call)
  BY DEF KillsInv
<1>2. ASSUME UNCHANGED <<kills, trace>> PROVE \E c : ComesOf(c)'
  <2>1. ComesOf(call)'
    BY <1>1, <1>2 DEF ComesOf, AsPrinted
  <2> QED
    BY <2>1
<1>3. CASE UNCHANGED killVars
  <2>1. KillsTypeOK'
    BY <1>3 DEF killVars, loaderVars, KillsInv, KillsTypeOK
  <2> QED
    BY <1>2, <1>3, <2>1 DEF killVars, KillsInv
<1>4. CASE LoaderStep \/ Killed
  <2>1. UNCHANGED <<kills, trace>>
    BY <1>4 DEF LoaderStep, OpenFile, FindAndLoad, Attach, DestroyLink, CloseObject, Killed
  <2>2. KillsTypeOK'
    BY <1>4, <2>1 DEF LoaderStep, OpenFile, FindAndLoad, Attach, DestroyLink, CloseObject,
                      Killed, To, KillsInv, KillsTypeOK
  <2> QED
    BY <1>2, <2>1, <2>2 DEF KillsInv
<1> QED
  BY <1>3, <1>4, KillKeeps DEF Next, vars, KillsNext

LEMMA InitKills == Init => KillsInv
<1> SUFFICES ASSUME Init PROVE KillsInv
  OBVIOUS
<1>1. /\ step = "open" /\ objOpen = FALSE /\ link = FALSE /\ hookedUp = FALSE
      /\ err = -1 /\ kills = <<>> /\ trace = <<>>
  BY DEF Init, KillsInit
<1>2. KillsTypeOK
  <2>1. kills \in Seq(Pids \X Signals) /\ trace \in Seq(0 .. UInt - 1)
    BY <1>1, EmptySeq
  <2> QED
    BY <1>1, <2>1 DEF KillsTypeOK
<1>3. ComesOf(<<>>)
  <2>1. Len(kills) = 0 /\ Len(trace) = 0
    BY <1>1
  <2>2. 1 .. 0 = {} /\ <<>> \in [{} -> {}]
    OBVIOUS
  <2> QED
    BY <2>1, <2>2 DEF ComesOf
<1> QED
  BY <1>2, <1>3 DEF KillsInv

(* The trace names, line by line and in order, those whom a SIGKILL was    *)
(* sent to while the program was attached, and nobody else (kill.c:14-22). *)
THEOREM TracesEverySigkill == Spec => []TracesSigkills
<1>1. KillsInv => TracesSigkills
  BY ComesOfSigkills DEF KillsInv
<1> QED
  BY <1>1, InitKills, NextKills, PTL DEF Spec

-----------------------------------------------------------------------------
(* What ip-counter holds: nothing, the objects, or both. *)

Both == {"objs", "link"}

CounterInv ==
  /\ defers \in {{}, {"objs"}, Both}
  /\ xdp = (defers = Both)
  /\ at \in {"memlock", "load"} => defers = {}
  /\ at \in {"ifname", "attach"} => defers = {"objs"}
  /\ at = "ended" => defers = {}

(* Adding and taking away one of two. *)
LEMMA OneOfTwo ==
  /\ {} \cup {"objs"} = {"objs"} /\ {"objs"} \cup {"link"} = Both
  /\ Both \ {"link"} = {"objs"}
  /\ "link" \notin {} /\ "link" \notin {"objs"} /\ "link" \in Both
  /\ {} # {"objs"} /\ {} # {"link"} /\ Both # {} /\ Both # {"objs"}
BY DEF Both

(* What a step of the counter does to what is held, and when. *)
CounterMove ==
  \/ UNCHANGED <<defers, xdp>> /\ (at \in {"returned", "ended"} => at' \in {"returned", "ended"})
  \/ at = "load" /\ at' = "ifname" /\ defers' = {"objs"} /\ UNCHANGED xdp
  \/ at = "attach" /\ at' = "notify" /\ defers' = Both /\ xdp' = TRUE
  \/ /\ at = "returned" /\ at' = "returned" /\ defers = Both
     /\ defers' = {"objs"} /\ xdp' = FALSE
  \/ at = "returned" /\ at' = "returned" /\ defers = {"objs"} /\ defers' = {} /\ UNCHANGED xdp
  \/ at' = "ended" /\ defers' = {} /\ xdp' = FALSE

LEMMA CounterMoves ==
  ASSUME CounterInv, [Next]_vars
  PROVE  CounterInv' /\ CounterMove
<1> USE OneOfTwo DEF CounterInv
<1>1. CASE UNCHANGED <<at, defers, xdp>>
  BY <1>1 DEF CounterMove
<1>2. CASE CounterNext
  <2>1. CASE \E q \in Queues : Lookup(q) \/ FetchAndAdd(q)
    BY <1>1, <2>1 DEF Lookup, FetchAndAdd
  <2>2. CASE MemlockAndName \/ Notify \/ SelectTick \/ ShowCount \/ SelectStop
    BY <2>2 DEF MemlockAndName, Notify, SelectTick, ShowCount, SelectStop, CallsOf,
                CounterMove
  <2>3. CASE LoadCounter
    BY <2>3 DEF LoadCounter, CallsOf, CounterMove
  <2>4. CASE AttachXDP
    BY <2>4 DEF AttachXDP, CallsOf, CounterMove
  <2>5. CASE CloseLast
    BY <2>5 DEF CloseLast, CounterMove
  <2>6. CASE LogFatal \/ Sigterm \/ Tick \/ Sigint
    BY <2>6 DEF LogFatal, Sigterm, Tick, Sigint, EndsAtOnce, CounterMove
  <2> QED
    BY <1>2, <2>1, <2>2, <2>3, <2>4, <2>5, <2>6 DEF CounterNext, CounterStep
<1> QED
  BY <1>1, <1>2 DEF Next, vars, counterVars

LEMMA CounterIsStack ==
  ASSUME CounterInv, CounterMove
  PROVE  [CounterStack!StackNext]_(CounterStack!stackVars)
<1> DEFINE h == [p \in {"main"} |-> HeldByMain]
           c == [p \in {"main"} |-> MainCloses]
           rank == [r \in {"objs", "link"} |-> IF r = "objs" THEN 1 ELSE 2]
<1> USE OneOfTwo
<1>1. HeldByMain = defers /\ HeldByMain' = defers'
  BY DEF CounterInv, CounterMove, HeldByMain, Both
<1>2. /\ h = [p \in {"main"} |-> defers] /\ h["main"] = defers
      /\ h' = [h EXCEPT !["main"] = defers']
  BY <1>1
<1>3. /\ c["main"] = MainCloses /\ c' = [c EXCEPT !["main"] = MainCloses']
      /\ MainCloses \in BOOLEAN /\ MainCloses' \in BOOLEAN
  BY DEF MainCloses
<1>4. /\ \A s \in {"objs"} : rank[s] < rank["link"]
      /\ \A s \in Both : rank[s] <= rank["link"]
  BY DEF Both
<1>5. CASE UNCHANGED <<defers, xdp>> /\ (MainCloses => MainCloses')
  <2>1. h' = h
    BY <1>2, <1>5
  <2>2. c' = c \/ c' = [c EXCEPT !["main"] = TRUE]
    BY <1>3, <1>5
  <2> QED
    BY <2>1, <2>2 DEF CounterStack!StackNext, CounterStack!Close, CounterStack!stackVars
<1>6. CASE ~MainCloses /\ ~MainCloses' /\ defers = {} /\ defers' = {"objs"}
  <2>1. CounterStack!Acquire("main", "objs")
    BY <1>2, <1>3, <1>6 DEF CounterStack!Acquire
  <2> QED
    BY <2>1 DEF CounterStack!StackNext
<1>7. CASE ~MainCloses /\ ~MainCloses' /\ defers = {"objs"} /\ defers' = Both
  <2>1. CounterStack!Acquire("main", "link")
    BY <1>2, <1>3, <1>4, <1>7 DEF CounterStack!Acquire
  <2> QED
    BY <2>1 DEF CounterStack!StackNext
<1>8. CASE MainCloses /\ MainCloses' /\ defers = Both /\ defers' = {"objs"}
  <2>1. CounterStack!Release("main", "link")
    BY <1>2, <1>3, <1>4, <1>8 DEF CounterStack!Release, Both
  <2> QED
    BY <2>1 DEF CounterStack!StackNext
<1>9. CASE MainCloses' /\ defers' = {}
  <2>1. CounterStack!Kill("main")
    BY <1>2, <1>3, <1>9 DEF CounterStack!Kill
  <2> QED
    BY <2>1 DEF CounterStack!StackNext
<1> QED
  BY <1>5, <1>6, <1>7, <1>8, <1>9 DEF CounterMove, CounterInv, MainCloses

-----------------------------------------------------------------------------
(* What the loader of trace-kills holds. *)

LoaderInv ==
  /\ objOpen \in BOOLEAN /\ link \in BOOLEAN /\ hookedUp \in BOOLEAN
  /\ hookedUp => objOpen /\ link
  /\ step \in {"open", "find", "load", "attach"} => ~link
  /\ step \in {"find", "load", "attach"} => objOpen
  /\ step \in {"open", "close", "ended"} => ~hookedUp
  /\ step \in {"open", "ended"} => ~objOpen

(* What a step of it does to what is held, and when. *)
LoaderMove ==
  \/ UNCHANGED <<objOpen, hookedUp>> /\ (LoaderCloses => LoaderCloses')
  \/ /\ ~LoaderCloses /\ ~LoaderCloses'
     /\ ~objOpen /\ ~hookedUp /\ objOpen' = TRUE /\ hookedUp' = FALSE
  \/ /\ ~LoaderCloses /\ ~LoaderCloses'
     /\ ~hookedUp /\ hookedUp' = TRUE /\ UNCHANGED objOpen
  \/ /\ LoaderCloses /\ LoaderCloses'
     /\ hookedUp /\ hookedUp' = FALSE /\ UNCHANGED objOpen
  \/ LoaderCloses' /\ objOpen' = FALSE /\ hookedUp' = FALSE

LEMMA LoaderMoves ==
  ASSUME LoaderInv, [Next]_vars
  PROVE  LoaderInv' /\ LoaderMove
<1> USE DEF LoaderInv, LoaderCloses
<1>1. CASE UNCHANGED loaderVars
  BY <1>1 DEF LoaderMove, loaderVars
<1>2. CASE OpenFile
  <2>1. LoaderInv'
    <3>1. CASE step' = "find"
      BY <1>2, <3>1 DEF OpenFile, To
    <3>2. CASE step' = "ended"
      BY <1>2, <3>2 DEF OpenFile, To
    <3> QED
      BY <1>2, <3>1, <3>2 DEF OpenFile, To
  <2>2. LoaderMove
    BY <1>2 DEF OpenFile, To, LoaderMove
  <2> QED
    BY <2>1, <2>2
<1>3. CASE FindAndLoad
  <2>1. LoaderInv'
    BY <1>3 DEF FindAndLoad, To
  <2>2. LoaderMove
    BY <1>3 DEF FindAndLoad, To, LoaderMove
  <2> QED
    BY <2>1, <2>2
<1>4. CASE Attach
  <2>1. LoaderInv'
    <3>1. CASE step' = "sleep"
      BY <1>4, <3>1 DEF Attach, To
    <3>2. CASE step' = "destroy"
      BY <1>4, <3>2 DEF Attach, To
    <3> QED
      BY <1>4, <3>1, <3>2 DEF Attach, To
  <2>2. LoaderMove
    BY <1>4 DEF Attach, To, LoaderMove
  <2> QED
    BY <2>1, <2>2
<1>5. CASE DestroyLink
  <2>1. LoaderInv'
    BY <1>5 DEF DestroyLink, To
  <2>2. LoaderMove
    BY <1>5 DEF DestroyLink, To, LoaderMove
  <2> QED
    BY <2>1, <2>2
<1>6. CASE CloseObject
  <2>1. LoaderInv'
    BY <1>6 DEF CloseObject, To
  <2>2. LoaderMove
    BY <1>6 DEF CloseObject, To, LoaderMove
  <2> QED
    BY <2>1, <2>2
<1>7. CASE Killed
  <2>1. LoaderInv'
    BY <1>7 DEF Killed, To
  <2>2. LoaderMove
    BY <1>7 DEF Killed, To, LoaderMove
  <2> QED
    BY <2>1, <2>2
<1>8. ASSUME NEW pid \in Pids, NEW sig \in Signals, Kill(pid, sig)
      PROVE  UNCHANGED loaderVars
  BY <1>8 DEF Kill
<1> QED
  BY <1>1, <1>2, <1>3, <1>4, <1>5, <1>6, <1>7, <1>8
     DEF Next, vars, killVars, KillsNext, LoaderStep

LEMMA LoaderIsStack ==
  ASSUME LoaderInv, LoaderMove
  PROVE  [LoaderStack!StackNext]_(LoaderStack!stackVars)
<1> DEFINE h == [p \in {"loader"} |-> HeldByLoader]
           c == [p \in {"loader"} |-> LoaderCloses]
           rank == [r \in {"obj", "link"} |-> IF r = "obj" THEN 1 ELSE 2]
<1>1. /\ h["loader"] = HeldByLoader /\ h' = [h EXCEPT !["loader"] = HeldByLoader']
      /\ c["loader"] = LoaderCloses /\ c' = [c EXCEPT !["loader"] = LoaderCloses']
  OBVIOUS
<1>2. LoaderCloses \in BOOLEAN /\ LoaderCloses' \in BOOLEAN
  BY DEF LoaderCloses
<1>3. /\ \A s \in {"obj"} : rank[s] < rank["link"]
      /\ \A s \in {"obj", "link"} : rank[s] <= rank["link"]
  OBVIOUS
<1>4. HeldByLoader = IF hookedUp THEN {"obj", "link"} ELSE IF objOpen THEN {"obj"} ELSE {}
  BY DEF HeldByLoader, LoaderInv
<1>5. CASE UNCHANGED <<objOpen, hookedUp>> /\ (LoaderCloses => LoaderCloses')
  <2>1. h' = h
    BY <1>1, <1>5 DEF HeldByLoader
  <2>2. c' = c \/ c' = [c EXCEPT !["loader"] = TRUE]
    BY <1>1, <1>2, <1>5
  <2> QED
    BY <2>1, <2>2 DEF LoaderStack!StackNext, LoaderStack!Close, LoaderStack!stackVars
<1>6. CASE /\ ~LoaderCloses /\ ~LoaderCloses'
           /\ ~objOpen /\ ~hookedUp /\ objOpen' = TRUE /\ hookedUp' = FALSE
  <2>1. HeldByLoader = {} /\ HeldByLoader' = {"obj"}
    BY <1>4, <1>6 DEF HeldByLoader
  <2>2. LoaderStack!Acquire("loader", "obj")
    BY <1>1, <1>2, <1>6, <2>1 DEF LoaderStack!Acquire
  <2> QED
    BY <2>2 DEF LoaderStack!StackNext
<1>7. CASE /\ ~LoaderCloses /\ ~LoaderCloses'
           /\ ~hookedUp /\ hookedUp' = TRUE /\ UNCHANGED objOpen
  <2>1. HeldByLoader \subseteq {"obj"} /\ HeldByLoader' = HeldByLoader \cup {"link"}
    BY <1>4, <1>7 DEF HeldByLoader
  <2>2. LoaderStack!Acquire("loader", "link")
    BY <1>1, <1>2, <1>3, <1>7, <2>1 DEF LoaderStack!Acquire
  <2> QED
    BY <2>2 DEF LoaderStack!StackNext
<1>8. CASE /\ LoaderCloses /\ LoaderCloses'
           /\ hookedUp /\ hookedUp' = FALSE /\ UNCHANGED objOpen
  <2>1. HeldByLoader = {"obj", "link"} /\ HeldByLoader' = HeldByLoader \ {"link"}
    BY <1>4, <1>8 DEF HeldByLoader, LoaderInv
  <2>2. LoaderStack!Release("loader", "link")
    BY <1>1, <1>2, <1>3, <1>8, <2>1 DEF LoaderStack!Release
  <2> QED
    BY <2>2 DEF LoaderStack!StackNext
<1>9. CASE LoaderCloses' /\ objOpen' = FALSE /\ hookedUp' = FALSE
  <2>1. HeldByLoader' = {}
    BY <1>9 DEF HeldByLoader
  <2>2. LoaderStack!Kill("loader")
    BY <1>1, <1>2, <1>9, <2>1 DEF LoaderStack!Kill
  <2> QED
    BY <2>2 DEF LoaderStack!StackNext
<1> QED
  BY <1>5, <1>6, <1>7, <1>8, <1>9 DEF LoaderMove

(* Whichever call fails, and when a signal kills: ip-counter takes its     *)
(* program from the interface before it closes the objects (main.go:26-64),*)
(* and trace-kills its link before its object (loader.c:23-53).            *)
THEOREM LoadersRelease == Spec => LoadersReleaseInReverse
<1>1. Init => CounterInv /\ LoaderInv /\ CounterStack!StackInit /\ LoaderStack!StackInit
  <2> SUFFICES ASSUME Init
               PROVE  CounterInv /\ LoaderInv
                        /\ CounterStack!StackInit /\ LoaderStack!StackInit
    OBVIOUS
  <2>1. /\ at = "memlock" /\ defers = {} /\ xdp = FALSE
        /\ step = "open" /\ objOpen = FALSE /\ link = FALSE /\ hookedUp = FALSE
    BY DEF Init, CounterInit, KillsInit
  <2>2. HeldByMain = {} /\ MainCloses = FALSE
    BY <2>1 DEF HeldByMain, MainCloses
  <2>3. HeldByLoader = {} /\ LoaderCloses = FALSE
    BY <2>1 DEF HeldByLoader, LoaderCloses
  <2>4. CounterInv /\ LoaderInv
    BY <2>1, OneOfTwo DEF CounterInv, LoaderInv
  <2>5. CounterStack!StackInit /\ LoaderStack!StackInit
    BY <2>2, <2>3 DEF CounterStack!StackInit, LoaderStack!StackInit
  <2> QED
    BY <2>4, <2>5
<1>2. CounterInv /\ LoaderInv /\ [Next]_vars =>
        /\ CounterInv' /\ LoaderInv'
        /\ [CounterStack!StackNext]_(CounterStack!stackVars)
        /\ [LoaderStack!StackNext]_(LoaderStack!stackVars)
  BY CounterMoves, CounterIsStack, LoaderMoves, LoaderIsStack
<1> QED
  BY <1>1, <1>2, PTL
     DEF Spec, LoadersReleaseInReverse, CounterStack!StackSpec, LoaderStack!StackSpec

-----------------------------------------------------------------------------
(* Every variable of the three programs keeps its type: no more packets in *)
(* the ring than there is room for, no count beyond the width of the       *)
(* counter, no line of the trace but with an unsigned int in it.           *)
THEOREM HooksTypeCorrect == Spec => []HooksTypeOK
<1>1. Init => CounterTypeInv /\ KillsInv
  BY InitCounterType, InitKills
<1>2. CounterTypeInv /\ KillsInv /\ [Next]_vars => CounterTypeInv' /\ KillsInv'
  BY NextCounterType, NextKills
<1>3. CounterTypeInv /\ KillsInv => CounterTypeOK /\ KillsTypeOK
  BY DEF CounterTypeInv, KillsInv
<1> QED
  BY <1>1, <1>2, <1>3, EventsTypeCorrect, PTL DEF Spec, HooksTypeOK
=============================================================================
