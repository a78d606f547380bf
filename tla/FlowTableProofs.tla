--------------------------- MODULE FlowTableProofs ---------------------------
(***************************************************************************)
(* The flow table proved for any number of flows, any clock and any bound  *)
(* on the traffic.                                                         *)
(***************************************************************************)
EXTENDS FlowTable, TLAPS

(* What Insert overwrites: nothing, whatever happened since the lookup.    *)
InsertsOverNothing == pc = "insert" => table[pkt.key] = Absent /\ Opens(pkt)

(* Why the callback of Range deletes an entry: the one it was called with  *)
(* was stale by the clock Prune read, and is still the one in the table    *)
(* unless the key has been stored again since.                             *)
VictimWasStale ==
  prunePc = "delete" =>
    /\ Stale(now, victim.ts)
    /\ victim.key \notin recent => table[victim.key] \in {Absent, victim.ts}

IInv ==
  /\ TypeOK
  /\ now <= clock
  /\ InsertsOverNothing
  /\ RemovesTheDisplayedEntry
  /\ NoPacketCountsTwice
  /\ VictimWasStale

-----------------------------------------------------------------------------
(* A quotient above n comes from a dividend above n divisors.              *)
LEMMA QuotientBound ==
  ASSUME NEW a \in Nat, NEW m \in Nat \ {0}, NEW n \in Nat, a \div m > n
  PROVE  a > n * m
<1> DEFINE q == a \div m
           r == a % m
<1>1. q \in Int /\ r \in 0 .. m - 1 /\ a = m * q + r
  OBVIOUS
<1>2. q >= n + 1
  BY <1>1
<1> HIDE DEF q, r
<1>3. m * q >= m * (n + 1)
  BY <1>1, <1>2, SMT
<1>4. m * (n + 1) = n * m + m
  BY SMT
<1> QED
  BY <1>1, <1>3, <1>4

(* No difference of two instants reaches Word, so the uint64 subtraction   *)
(* wraps only when the timestamp is the later of the two.                  *)
LEMMA StaleIsOld ==
  ASSUME NEW n \in Timestamps, NEW ts \in Timestamps, ts <= n, Stale(n, ts)
  PROVE  n - ts > MaxAge * Milli
<1>1. (n - ts) \in 0 .. Word - 1
  BY WordAssumption DEF Timestamps
<1>2. (n - ts) % Word = n - ts
  BY <1>1, WordAssumption
<1>3. (n - ts) \div Milli > MaxAge
  BY <1>2 DEF Stale
<1> QED
  BY <1>1, <1>3, QuotientBound, TableAssumption, WordAssumption

-----------------------------------------------------------------------------
(* The facts a step of the table rests on. *)

LEMMA Constants ==
  /\ Absent \notin Timestamps /\ Timestamps \subseteq Nat
  /\ 0 .. MaxClock \subseteq Timestamps /\ MaxClock \in Nat
  /\ 0 \in Timestamps
BY WordAssumption, TableAssumption DEF Absent, Timestamps

LEMMA Nobody == NoPacket \in Observation /\ NoVictim \in [key : Keys, ts : Timestamps]
<1>1. \E k \in Keys : TRUE
  BY WordAssumption
<1>2. (CHOOSE k \in Keys : TRUE) \in Keys
  BY <1>1
<1>3. \E s \in Segments : TRUE
  BY DEF Segments
<1>4. (CHOOSE s \in Segments : TRUE) \in Segments
  BY <1>3
<1> QED
  BY <1>2, <1>4, Constants DEF NoPacket, NoVictim, Observation

(* The time Prune reads is never ahead of the clock: an unreadable clock   *)
(* makes it 0.                                                             *)
LEMMA ReadingsPast ==
  ASSUME clock \in 0 .. MaxClock
  PROVE  \A n \in Readings : n \in 0 .. MaxClock /\ n <= clock
BY Constants DEF Readings

LEMMA InitIInv == Init => IInv
<1> SUFFICES ASSUME Init PROVE IInv
  OBVIOUS
<1> USE DEF Init
<1>1. TypeOK
  <2>1. table \in [Keys -> Timestamps \cup {Absent}]
    OBVIOUS
  <2>2. observed \in [Keys -> Nat] /\ shown \in [Keys -> Nat]
    OBVIOUS
  <2>3. ticking \in BOOLEAN /\ tick \in BOOLEAN
    OBVIOUS
  <2>4. clock \in 0 .. MaxClock /\ now \in 0 .. MaxClock /\ latency \in Int
    BY Constants
  <2>5. pc = "idle" /\ prunePc = "wait" /\ seen \subseteq Keys /\ recent \subseteq Keys
    OBVIOUS
  <2> QED
    BY <2>1, <2>2, <2>3, <2>4, <2>5, Nobody DEF TypeOK
<1>2. now <= clock
  OBVIOUS
<1>3. InsertsOverNothing /\ RemovesTheDisplayedEntry /\ VictimWasStale
  BY DEF InsertsOverNothing, RemovesTheDisplayedEntry, VictimWasStale
<1>4. NoPacketCountsTwice
  <2>1. \A k \in Keys : OpenFlows[k] = Absent /\ shown[k] = 0 /\ observed[k] = 0
    BY DEF OpenFlows
  <2> SUFFICES ASSUME NEW k \in Keys
               PROVE 2 * shown[k] + (IF OpenFlows[k] = Absent THEN 0 ELSE 1) <= observed[k]
    BY DEF NoPacketCountsTwice
  <2> HIDE DEF Init
  <2>2. OpenFlows[k] = Absent /\ shown[k] = 0 /\ observed[k] = 0
    BY <2>1
  <2> QED
    BY <2>2
<1> QED
  BY <1>1, <1>2, <1>3, <1>4 DEF IInv

-----------------------------------------------------------------------------
(* Time and the pruning goroutine change neither pc, pkt, shown, observed  *)
(* nor latency, and the table only by deleting an entry.                   *)
OnlyForgets ==
  /\ UNCHANGED mainVars
  /\ \A k \in Keys : table'[k] \in {Absent, table[k]}

LEMMA ForgettingKeepsMatching ==
  ASSUME IInv, OnlyForgets, TypeOK'
  PROVE  InsertsOverNothing' /\ RemovesTheDisplayedEntry' /\ NoPacketCountsTwice'
<1> USE DEF IInv, OnlyForgets, mainVars
<1>0. pkt.key \in Keys /\ pkt.ts \in Nat /\ latency \in Int
  BY Constants DEF TypeOK, Observation
<1>1. InsertsOverNothing'
  BY <1>0 DEF InsertsOverNothing
<1>2. RemovesTheDisplayedEntry'
  BY <1>0 DEF RemovesTheDisplayedEntry
<1>3. NoPacketCountsTwice'
  <2> SUFFICES ASSUME NEW k \in Keys
               PROVE 2 * shown[k] + (IF OpenFlows'[k] = Absent THEN 0 ELSE 1) <= observed[k]
    BY DEF NoPacketCountsTwice
  <2>1. 2 * shown[k] + (IF OpenFlows[k] = Absent THEN 0 ELSE 1) <= observed[k]
    BY DEF NoPacketCountsTwice
  <2>2. OpenFlows'[k] \in {Absent, OpenFlows[k]}
    BY DEF OpenFlows
  <2>3. shown[k] \in Nat /\ observed[k] \in Nat
    BY DEF TypeOK
  <2> QED
    BY <2>1, <2>2, <2>3
<1> QED
  BY <1>1, <1>2, <1>3

LEMMA NextIInv == IInv /\ [Next]_vars => IInv'
<1> SUFFICES ASSUME IInv, [Next]_vars PROVE IInv'
  OBVIOUS
<1> USE DEF IInv
<1>1. CASE Advance
  <2> USE <1>1 DEF Advance, mainVars, pruneVars
  <2>1. TypeOK'
    BY Constants DEF TypeOK
  <2>2. OnlyForgets
    BY DEF OnlyForgets
  <2>3. now' <= clock'
    BY Constants DEF TypeOK
  <2>4. VictimWasStale'
    BY DEF VictimWasStale, Stale
  <2> QED
    BY <2>1, <2>2, <2>3, <2>4, ForgettingKeepsMatching
<1>2. CASE StopTicker
  <2> USE <1>2 DEF StopTicker, mainVars, pruneVars
  <2>1. TypeOK'
    BY DEF TypeOK
  <2>2. OnlyForgets
    BY DEF OnlyForgets
  <2>3. VictimWasStale'
    BY DEF VictimWasStale, Stale
  <2> QED
    BY <2>1, <2>2, <2>3, ForgettingKeepsMatching
<1>3. ASSUME NEW p \in Observation, Receive(p) PROVE IInv'
  <2> USE <1>3 DEF Receive, timeVars, pruneVars
  <2>1. TypeOK'
    BY DEF TypeOK
  <2>2. InsertsOverNothing' /\ RemovesTheDisplayedEntry' /\ VictimWasStale'
    BY DEF InsertsOverNothing, RemovesTheDisplayedEntry, VictimWasStale, Stale
  <2>3. NoPacketCountsTwice'
    <3>1. OpenFlows' = OpenFlows
      BY DEF OpenFlows
    <3> QED
      BY <3>1 DEF NoPacketCountsTwice
  <2> QED
    BY <2>1, <2>2, <2>3
<1>4. CASE Get
  <2> USE <1>4 DEF Get, Elapsed, timeVars, pruneVars
  <2>0. /\ pkt.key \in Keys /\ pkt.ts \in Nat
        /\ table[pkt.key] \in Nat \cup {Absent}
        /\ observed[pkt.key] \in Nat /\ shown[pkt.key] \in Nat
    BY Constants DEF TypeOK, Observation
  <2>1. TypeOK'
    BY <2>0, Nobody DEF TypeOK
  <2>2. InsertsOverNothing' /\ VictimWasStale'
    BY DEF InsertsOverNothing, VictimWasStale, Stale
  <2>3. RemovesTheDisplayedEntry'
    BY <2>0 DEF RemovesTheDisplayedEntry
  <2>4. NoPacketCountsTwice'
    <3> SUFFICES ASSUME NEW k \in Keys
                 PROVE 2 * shown'[k] + (IF OpenFlows'[k] = Absent THEN 0 ELSE 1)
                         <= observed'[k]
      BY DEF NoPacketCountsTwice
    <3>1. 2 * shown[k] + (IF table[k] = Absent THEN 0 ELSE 1) <= observed[k]
      BY DEF NoPacketCountsTwice, OpenFlows
    <3>2. shown[k] \in Nat /\ observed[k] \in Nat
      BY DEF TypeOK
    <3>3. CASE table[pkt.key] # Absent /\ Closes(pkt)
      BY <3>1, <3>2, <3>3, <2>0 DEF OpenFlows, TypeOK
    <3>4. CASE ~(table[pkt.key] # Absent /\ Closes(pkt))
      <4>1. OpenFlows'[k] = table[k] /\ shown'[k] = shown[k]
        BY <3>4 DEF OpenFlows
      <4>2. observed'[k] \in {observed[k], observed[k] + 1}
        BY <2>0 DEF TypeOK
      <4> QED
        BY <4>1, <4>2, <3>1, <3>2
    <3> QED
      BY <3>3, <3>4
  <2> QED
    BY <2>1, <2>2, <2>3, <2>4
<1>5. CASE Insert
  <2> USE <1>5 DEF Insert, timeVars, pruneVars
  <2>0. /\ pkt.key \in Keys /\ pkt.ts \in Timestamps
        /\ observed[pkt.key] \in Nat
    BY DEF TypeOK, Observation
  <2>1. TypeOK'
    BY <2>0, Nobody DEF TypeOK
  <2>2. InsertsOverNothing' /\ RemovesTheDisplayedEntry'
    BY DEF InsertsOverNothing, RemovesTheDisplayedEntry
  <2>3. VictimWasStale'
    BY <2>0 DEF VictimWasStale, Stale, TypeOK
  <2>4. NoPacketCountsTwice'
    <3> SUFFICES ASSUME NEW k \in Keys
                 PROVE 2 * shown'[k] + (IF OpenFlows'[k] = Absent THEN 0 ELSE 1)
                         <= observed'[k]
      BY DEF NoPacketCountsTwice
    <3>1. 2 * shown[k] + (IF table[k] = Absent THEN 0 ELSE 1) <= observed[k]
      BY DEF NoPacketCountsTwice, OpenFlows
    <3>2. shown[k] \in Nat /\ observed[k] \in Nat
      BY DEF TypeOK
    <3>3. CASE k = pkt.key
      <4>1. table[k] = Absent
        BY <3>3 DEF InsertsOverNothing
      <4>2. observed'[k] = observed[k] + 1 /\ shown'[k] = shown[k]
        BY <3>3 DEF TypeOK
      <4> QED
        BY <4>1, <4>2, <3>1, <3>2
    <3>4. CASE k # pkt.key
      <4>1. OpenFlows'[k] = table[k] /\ observed'[k] = observed[k]
        BY <3>4, <2>0 DEF OpenFlows, TypeOK
      <4> QED
        BY <4>1, <3>1
    <3> QED
      BY <3>3, <3>4
  <2> QED
    BY <2>1, <2>2, <2>3, <2>4
<1>6. CASE RemoveLoad
  <2> USE <1>6 DEF RemoveLoad, timeVars, pruneVars
  <2>1. TypeOK'
    BY Nobody DEF TypeOK
  <2>2. InsertsOverNothing' /\ RemovesTheDisplayedEntry' /\ VictimWasStale'
    BY DEF InsertsOverNothing, RemovesTheDisplayedEntry, VictimWasStale, Stale
  <2>3. NoPacketCountsTwice'
    <3>1. OpenFlows' = OpenFlows
      BY DEF OpenFlows
    <3> QED
      BY <3>1 DEF NoPacketCountsTwice
  <2> QED
    BY <2>1, <2>2, <2>3
<1>7. CASE RemoveDelete
  <2> USE <1>7 DEF RemoveDelete, timeVars, pruneVars
  <2>0. pkt.key \in Keys
    BY DEF TypeOK, Observation
  <2>1. TypeOK'
    BY <2>0, Nobody DEF TypeOK
  <2>2. InsertsOverNothing' /\ RemovesTheDisplayedEntry'
    BY DEF InsertsOverNothing, RemovesTheDisplayedEntry
  <2>3. VictimWasStale'
    BY <2>0 DEF VictimWasStale, Stale, TypeOK
  <2>4. NoPacketCountsTwice'
    <3>1. OpenFlows' = OpenFlows
      BY <2>0 DEF OpenFlows, TypeOK
    <3> QED
      BY <3>1 DEF NoPacketCountsTwice
  <2> QED
    BY <2>1, <2>2, <2>3, <2>4
<1>8. CASE PruneStart
  <2> USE <1>8 DEF PruneStart, mainVars
  <2>0. now' \in 0 .. MaxClock /\ now' <= clock
    BY ReadingsPast DEF TypeOK
  <2>1. TypeOK'
    BY <2>0 DEF TypeOK
  <2>2. OnlyForgets /\ VictimWasStale'
    BY DEF OnlyForgets, VictimWasStale
  <2> QED
    BY <2>0, <2>1, <2>2, ForgettingKeepsMatching
<1>9. ASSUME NEW k \in Keys, PruneVisit(k) PROVE IInv'
  <2> USE <1>9 DEF PruneVisit, PruneDone, mainVars, timeVars
  <2>0. table[k] \in Timestamps
    BY DEF TypeOK, Present
  <2>1. TypeOK'
    BY <2>0, Nobody, Constants DEF TypeOK
  <2>2. now' <= clock'
    BY Constants DEF TypeOK
  <2>3. OnlyForgets
    BY DEF OnlyForgets
  <2>4. VictimWasStale'
    BY DEF VictimWasStale, Stale
  <2> QED
    BY <2>1, <2>2, <2>3, <2>4, ForgettingKeepsMatching
<1>10. CASE PruneDelete
  <2> USE <1>10 DEF PruneDelete, mainVars, timeVars
  <2>0. victim.key \in Keys
    BY DEF TypeOK
  <2>1. TypeOK'
    BY <2>0, Nobody DEF TypeOK
  <2>2. OnlyForgets
    BY <2>0 DEF OnlyForgets, TypeOK
  <2>3. VictimWasStale'
    BY DEF VictimWasStale
  <2> QED
    BY <2>1, <2>2, <2>3, ForgettingKeepsMatching
<1>11. CASE PruneEnd
  <2> USE <1>11 DEF PruneEnd, PruneDone, mainVars, timeVars
  <2>1. TypeOK'
    BY Nobody, Constants DEF TypeOK
  <2>2. now' <= clock'
    BY Constants DEF TypeOK
  <2>3. OnlyForgets /\ VictimWasStale'
    BY DEF OnlyForgets, VictimWasStale
  <2> QED
    BY <2>1, <2>2, <2>3, ForgettingKeepsMatching
<1>12. CASE UNCHANGED vars
  <2> USE <1>12 DEF vars, timeVars, mainVars, pruneVars
  <2>1. TypeOK' /\ now' <= clock'
    BY DEF TypeOK
  <2>2. OnlyForgets /\ VictimWasStale'
    BY DEF OnlyForgets, VictimWasStale, Stale
  <2> QED
    BY <2>1, <2>2, ForgettingKeepsMatching
<1> QED
  BY <1>1, <1>2, <1>3, <1>4, <1>5, <1>6, <1>7, <1>8, <1>9, <1>10, <1>11, <1>12
     DEF Next, MainStep, PruneStep

-----------------------------------------------------------------------------
(* The strengthened invariant holds in every reachable state. *)
THEOREM Invariance == Spec => []IInv
BY InitIInv, NextIInv, PTL DEF Spec

(* Every variable keeps its type (the packets of UnmarshalBinary, the      *)
(* uint64 timestamps of the sync.Map, the phases of the two goroutines).   *)
THEOREM TypeCorrect == Spec => []TypeOK
<1>1. IInv => TypeOK
  BY DEF IInv
<1> QED
  BY <1>1, Invariance, PTL

(* No packet counts in two latencies (packet.go:103-137), whatever the     *)
(* number of flows and wherever Prune interrupts CalcLatency.              *)
THEOREM CountsOnce == Spec => []NoPacketCountsTwice
<1>1. IInv => NoPacketCountsTwice
  BY DEF IInv
<1> QED
  BY <1>1, Invariance, PTL

(* Remove deletes the entry whose latency was displayed, or nothing        *)
(* (flowtable.go:40-48).                                                   *)
THEOREM RemovesDisplayed == Spec => []RemovesTheDisplayedEntry
<1>1. IInv => RemovesTheDisplayedEntry
  BY DEF IInv
<1> QED
  BY <1>1, Invariance, PTL

-----------------------------------------------------------------------------
(* Prune (flowtable.go:51-65) deletes a young entry only if the entry was  *)
(* stored after Prune read the clock or stamped after the time it read.    *)
LEMMA PrunedIsOld ==
  ASSUME IInv, [Next]_vars, NEW k \in Keys,
         Pruned(k), k \notin recent, table[k] <= now
  PROVE  clock - table[k] > MaxAge * Milli
<1> USE DEF IInv
<1>1. prunePc = "delete" /\ victim.key = k /\ table[k] # Absent
  BY DEF Pruned
<1>2. table[k] = victim.ts /\ Stale(now, victim.ts)
  BY <1>1 DEF VictimWasStale
<1>3. now \in Timestamps /\ table[k] \in Timestamps /\ clock \in Nat
  BY <1>1, Constants DEF TypeOK
<1>4. now - table[k] > MaxAge * Milli
  BY <1>2, <1>3, StaleIsOld
<1>5. MaxAge * Milli \in Nat
  BY TableAssumption
<1>6. now <= clock /\ now \in Nat /\ table[k] \in Nat
  BY <1>3, Constants
<1> QED
  BY <1>3, <1>4, <1>5, <1>6

(* Young entries are safe from Prune but in these two ways                 *)
(* (flowtable.go:50-58).                                                   *)
THEOREM PrunesOldEntries == Spec => PrunesOnlyOldUnlessRaced
<1> DEFINE Old(k) == clock - table[k] > MaxAge * Milli
           P == \A k \in Keys : Pruned(k) /\ k \notin recent /\ table[k] <= now
                                  => Old(k)
<1>1. IInv /\ [Next]_vars => [P]_vars
  BY PrunedIsOld
<1> QED
  BY <1>1, Invariance, PTL DEF Spec, PrunesOnlyOldUnlessRaced

-----------------------------------------------------------------------------
(* What Range has visited is deleted, or about to be, or was stored again. *)
VisitedAreGone ==
  /\ prunePc = "wait" => seen = {}
  /\ \A k \in Present \cap seen :
       k \in recent \/ (prunePc = "delete" /\ victim.key = k)

LEMMA NextVisited == TypeOK /\ VisitedAreGone /\ [Next]_vars => VisitedAreGone'
<1> SUFFICES ASSUME TypeOK, VisitedAreGone, [Next]_vars PROVE VisitedAreGone'
  OBVIOUS
<1> USE DEF VisitedAreGone, Present
<1>0. /\ table \in [Keys -> Timestamps \cup {Absent}]
      /\ pkt.key \in Keys /\ victim.key \in Keys
  BY DEF TypeOK, Observation
<1>1. ASSUME UNCHANGED <<table, pruneVars, recent>> PROVE VisitedAreGone'
  BY <1>1 DEF pruneVars
<1>2. CASE Advance \/ StopTicker \/ Get \/ RemoveLoad \/ UNCHANGED vars
           \/ (\E p \in Observation : Receive(p))
  BY <1>1, <1>2 DEF Advance, StopTicker, Get, RemoveLoad, Receive, vars
<1>3. CASE Insert
  BY <1>0, <1>3 DEF Insert, pruneVars
<1>4. CASE RemoveDelete
  BY <1>0, <1>4 DEF RemoveDelete, pruneVars
<1>5. CASE PruneStart
  BY <1>5 DEF PruneStart
<1>6. ASSUME NEW k \in Keys, PruneVisit(k) PROVE VisitedAreGone'
  BY <1>6 DEF PruneVisit, PruneDone
<1>7. CASE PruneDelete
  BY <1>0, <1>7 DEF PruneDelete
<1>8. CASE PruneEnd
  BY <1>8 DEF PruneEnd, PruneDone
<1> QED
  BY <1>2, <1>3, <1>4, <1>5, <1>6, <1>7, <1>8 DEF Next, MainStep, PruneStep

(* Prune (flowtable.go:54-63) leaves an entry behind only if it has met a  *)
(* fresh one, or CalcLatency stored the entry while Prune ran.             *)
THEOREM PrunesAll == Spec => PrunesAllUnlessFresh
<1> DEFINE Ends == prunePc = "range" /\ prunePc' = "wait"
           Left == \/ Present \subseteq recent
                   \/ \E k \in Present : ~Stale(now, table[k])
<1>1. Init => VisitedAreGone
  BY DEF Init, VisitedAreGone
<1>2. TypeOK /\ VisitedAreGone /\ [Next]_vars => VisitedAreGone'
  BY NextVisited
<1>3. TypeOK /\ VisitedAreGone /\ [Next]_vars => [Ends => Left]_vars
  <2> SUFFICES ASSUME VisitedAreGone, [Next]_vars, Ends PROVE Left \/ UNCHANGED vars
    OBVIOUS
  <2>1. PruneEnd \/ (\E k \in Keys : PruneVisit(k)) \/ UNCHANGED vars
    BY DEF Next, Advance, StopTicker, Receive, MainStep, Get, Insert, RemoveLoad,
           RemoveDelete, PruneStep, PruneStart, PruneDelete, pruneVars
  <2>2. CASE PruneEnd
    BY <2>2 DEF PruneEnd, VisitedAreGone
  <2>3. ASSUME NEW k \in Keys, PruneVisit(k) PROVE Left
    BY <2>3 DEF PruneVisit
  <2> QED
    BY <2>1, <2>2, <2>3
<1> QED
  BY <1>1, <1>2, <1>3, TypeCorrect, PTL DEF Spec, PrunesAllUnlessFresh

-----------------------------------------------------------------------------
(* Refinement of FlowLatency *)

(* A step that only forgets maps to expiries, or to a stutter: at most one *)
(* entry goes.                                                             *)
LEMMA ForgettingRefines ==
  ASSUME IInv, UNCHANGED mainVars, NEW k \in Keys,
         table' \in {table, [table EXCEPT ![k] = Absent]}
  PROVE  Matching!Expire(k) \/ UNCHANGED Matching!vars
<1> USE DEF IInv, mainVars
<1>1. table \in [Keys -> Timestamps \cup {Absent}]
  BY DEF TypeOK
<1>2. CASE OpenFlows[k] = Absent \/ table' = table
  <2>1. OpenFlows' = OpenFlows
    BY <1>1, <1>2 DEF OpenFlows
  <2> QED
    BY <2>1 DEF Matching!vars
<1>3. CASE OpenFlows[k] # Absent /\ table' = [table EXCEPT ![k] = Absent]
  <2>1. OpenFlows' = [OpenFlows EXCEPT ![k] = Absent]
    BY <1>1, <1>3 DEF OpenFlows
  <2> QED
    BY <2>1, <1>3 DEF Matching!Expire, Matching!Absent, Absent
<1> QED
  BY <1>2, <1>3

(* What Observations defines, FlowLatency and FlowTable share. *)
LEMMA Shared ==
  /\ Matching!Absent = Absent /\ Matching!Observation = Observation
  /\ \A p : (Matching!Opens(p) <=> Opens(p)) /\ (Matching!Closes(p) <=> Closes(p))
BY DEF Matching!Absent, Absent, Matching!Observation, Observation,
       Matching!Segments, Segments, Matching!Timestamps, Timestamps,
       Matching!Opens, Opens, Matching!Closes, Closes

LEMMA StepRefines ==
  IInv /\ [Next]_vars => [Matching!Next]_(Matching!vars)
<1> SUFFICES ASSUME IInv, [Next]_vars
             PROVE  Matching!Next \/ UNCHANGED Matching!vars
  OBVIOUS
<1> USE DEF IInv
<1>0. /\ pkt \in Observation /\ pkt.key \in Keys /\ victim.key \in Keys
      /\ table \in [Keys -> Timestamps \cup {Absent}]
      /\ observed \in [Keys -> Nat] /\ shown \in [Keys -> Nat]
  BY DEF TypeOK, Observation
<1>1. ASSUME UNCHANGED <<mainVars, table>> PROVE UNCHANGED Matching!vars
  BY <1>1 DEF mainVars, OpenFlows, Matching!vars
<1>2. CASE Advance \/ StopTicker \/ PruneStart \/ PruneEnd
           \/ (\E k \in Keys : PruneVisit(k)) \/ UNCHANGED vars
  BY <1>1, <1>2 DEF Advance, StopTicker, PruneStart, PruneEnd, PruneDone,
                    PruneVisit, vars
<1>3. CASE PruneDelete
  BY <1>0, <1>3, ForgettingRefines DEF PruneDelete, mainVars, Matching!Next
<1>4. ASSUME NEW p \in Observation, Receive(p) PROVE UNCHANGED Matching!vars
  BY <1>4 DEF Receive, OpenFlows, Matching!vars
<1>5. CASE RemoveLoad
  BY <1>5 DEF RemoveLoad, OpenFlows, Matching!vars
<1>6. CASE RemoveDelete
  <2>1. OpenFlows' = OpenFlows
    BY <1>0, <1>6 DEF RemoveDelete, OpenFlows
  <2> QED
    BY <2>1, <1>6 DEF RemoveDelete, Matching!vars
<1>7. CASE Insert
  <2> USE <1>7 DEF Insert
  <2>1. OpenFlows = table /\ OpenFlows' = table'
    BY <1>0 DEF OpenFlows
  <2>2. OpenFlows[pkt.key] = Absent /\ Opens(pkt)
    BY <2>1 DEF InsertsOverNothing
  <2>3. Matching!Observe(pkt)
    BY <2>1, <2>2, Shared DEF Matching!Observe, Matching!Open
  <2> QED
    BY <1>0, <2>3, Shared DEF Matching!Next
<1>8. CASE Get
  <2> USE <1>8 DEF Get, Elapsed
  <2> DEFINE ts == table[pkt.key]
  <2>1. OpenFlows = table
    BY <1>0 DEF OpenFlows
  <2>2. CASE ts # Absent /\ Closes(pkt)
    <3>1. OpenFlows' = [OpenFlows EXCEPT ![pkt.key] = Absent]
      BY <1>0, <2>1, <2>2 DEF OpenFlows
    <3>2. Matching!Observe(pkt)
      BY <2>1, <2>2, <3>1, Shared DEF Matching!Observe, Matching!Close
    <3> QED
      BY <1>0, <3>2, Shared DEF Matching!Next
  <2>3. CASE ts = Absent /\ Opens(pkt)
    BY <1>0, <2>3 DEF OpenFlows, Matching!vars
  <2>4. CASE IF ts = Absent THEN ~Opens(pkt) ELSE ~Closes(pkt)
    <3>1. OpenFlows' = OpenFlows
      BY <1>0, <2>1, <2>4 DEF OpenFlows
    <3>2. Matching!Observe(pkt)
      BY <2>1, <2>4, <3>1, Shared DEF Matching!Observe, Matching!Ignore
    <3> QED
      BY <1>0, <3>2, Shared DEF Matching!Next
  <2> QED
    BY <2>2, <2>3, <2>4
<1> QED
  BY <1>2, <1>3, <1>4, <1>5, <1>6, <1>7, <1>8 DEF Next, MainStep, PruneStep

(* CalcLatency is atomic: its calls on the table, interleaved with those   *)
(* of Prune, implement the one-step matching of FlowLatency                *)
(* (packet.go:93-138, flowtable.go:24-65).                                 *)
THEOREM Refinement == Spec => CalcLatencyIsAtomic
<1>1. Init => Matching!Init
  BY DEF Init, OpenFlows, Matching!Init, Matching!Absent, Absent
<1> QED
  BY <1>1, StepRefines, Invariance, PTL
     DEF Spec, CalcLatencyIsAtomic, Matching!Spec
=============================================================================
