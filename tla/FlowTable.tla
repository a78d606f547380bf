------------------------------ MODULE FlowTable ------------------------------
(***************************************************************************)
(* The flow table of examples/flow and the two goroutines that share it.   *)
(*                                                                         *)
(* The main loop of Run matches one packet at a time (CalcLatency): a      *)
(* lookup, then an insertion or a removal.  The pruning goroutine wakes on *)
(* every tick and walks the table with sync.Map.Range.  Each call on the   *)
(* sync.Map is atomic, nothing larger is: an action here is one call.      *)
(*                                                                         *)
(* The last value of clock stands for all later time, so a model never     *)
(* stops: time goes on, and so do the ticks.                               *)
(***************************************************************************)
EXTENDS Observations, Folds

CONSTANTS
  Milli,         \* nanoseconds per millisecond (1000000)
  MaxAge,        \* age in milliseconds above which an entry is stale (10000)
  TickPeriod,    \* nanoseconds between two ticks (10 s)
  ClockMayFail,  \* may clock_gettime return an error?
  MaxClock,      \* bound: the last instant that is told apart
  LastStamp,     \* bound: the last instant at which a packet is stamped
  MaxObserved    \* bound: number of packets matched in all

ASSUME TableAssumption ==
  /\ Milli \in Nat \ {0} /\ TickPeriod \in Nat \ {0}
  /\ MaxAge \in Nat /\ MaxObserved \in Nat
  /\ ClockMayFail \in BOOLEAN
  /\ MaxClock \in Timestamps /\ LastStamp \in Nat

VARIABLES
  clock,     \* CLOCK_MONOTONIC, in nanoseconds
  ticking,   \* the ticker runs
  tick,      \* Ticker.C holds a tick (it holds at most one)
  table,     \* the sync.Map: hash -> timestamp
  pc,        \* main loop: what it does next
  pkt,       \* main loop: the packet at hand
  observed, shown, latency,   \* what was matched and displayed: FlowLatency
  prunePc,   \* pruning goroutine: what it does next
  now,       \* Prune: the time it read when it began
  seen,      \* Prune: the keys Range has visited
  recent,    \* the keys stored since Prune read the time
  victim     \* Prune: the entry that the callback found stale

mainVars  == <<pc, pkt, observed, shown, latency>>
pruneVars == <<prunePc, now, seen, victim>>
timeVars  == <<clock, ticking, tick>>
vars      == <<timeVars, table, mainVars, pruneVars, recent>>

NoVictim == [key |-> CHOOSE k \in Keys : TRUE, ts |-> 0]
NoPacket == [key |-> CHOOSE k \in Keys : TRUE, ts |-> 0,
             seg |-> CHOOSE s \in Segments : TRUE]

Matched == MapThenFoldSet(+, 0, LAMBDA k : observed[k],
                          LAMBDA ks : CHOOSE k \in ks : TRUE, Keys)
Present == {k \in Keys : table[k] # Absent}

(* NewFlowTable, and the two goroutines before their first event.          *)
Init ==
  /\ clock = 0 /\ ticking = TRUE /\ tick = FALSE
  /\ table = [k \in Keys |-> Absent]
  /\ pc = "idle" /\ pkt = NoPacket
  /\ observed = [k \in Keys |-> 0] /\ shown = [k \in Keys |-> 0]
  /\ latency = 0
  /\ prunePc = "wait" /\ now = 0
  /\ seen = {} /\ recent = {} /\ victim = NoVictim

-----------------------------------------------------------------------------
(* Time *)

(* Mutation: Ticker.Stop is forgotten. *)
AdvanceUnstopped ==
  /\ clock' = IF clock < MaxClock THEN clock + 1 ELSE MaxClock
  /\ tick'  = \/ tick
              \/ (clock = MaxClock \/ clock' % TickPeriod = 0)
  /\ UNCHANGED <<ticking, table, mainVars, pruneVars, recent>>

Advance ==
  /\ clock' = IF clock < MaxClock THEN clock + 1 ELSE MaxClock
  /\ tick'  = \/ tick
              \/ ticking /\ (clock = MaxClock \/ clock' % TickPeriod = 0)
  /\ UNCHANGED <<ticking, table, mainVars, pruneVars, recent>>

(* The main loop ends with Ticker.Stop: it takes no further packet, and no *)
(* tick is delivered after it, not even one that waits (since Go 1.23).    *)
StopTicker ==
  /\ ticking
  /\ pc = "idle"
  /\ ticking' = FALSE /\ tick' = FALSE
  /\ UNCHANGED <<clock, table, mainVars, pruneVars, recent>>

-----------------------------------------------------------------------------
(* The main loop: CalcLatency *)

Receive(p) ==
  /\ pc = "idle"
  /\ ticking
  /\ Matched < MaxObserved
  /\ pkt' = p
  /\ pc' = "get"
  /\ UNCHANGED <<timeVars, table, observed, shown, latency, pruneVars, recent>>

(* Mutation: the two timestamps trade places.                              *)
ElapsedBackwards(from, to) == from - to

(* The latency that is displayed, in nanoseconds.                          *)
Elapsed(from, to) == to - from

(* Mutation: a packet that may open an entry opens one even over another.  *)
GetWithoutMiss ==
  LET ts   == table[pkt.key]
      hit  == ts # Absent /\ Closes(pkt)
      miss == ~hit /\ Opens(pkt)
  IN /\ pc = "get"
     /\ pc' = IF hit THEN "remove" ELSE IF miss THEN "insert" ELSE "idle"
     /\ pkt' = IF hit \/ miss THEN pkt ELSE NoPacket
     /\ observed' = IF miss THEN observed
                            ELSE [observed EXCEPT ![pkt.key] = @ + 1]
     /\ shown'    = IF hit THEN [shown EXCEPT ![pkt.key] = @ + 1] ELSE shown
     /\ latency'  = IF hit THEN pkt.ts - ts ELSE latency
     /\ UNCHANGED <<timeVars, table, pruneVars, recent>>

(* A packet that neither opens nor closes an entry is dropped here, a      *)
(* packet that closes one is displayed.                                    *)
Get ==
  LET ts   == table[pkt.key]
      hit  == ts # Absent /\ Closes(pkt)
      miss == ts = Absent /\ Opens(pkt)
  IN /\ pc = "get"
     /\ pc' = IF hit THEN "remove" ELSE IF miss THEN "insert" ELSE "idle"
     /\ pkt' = IF hit \/ miss THEN pkt ELSE NoPacket
     /\ observed' = IF miss THEN observed
                            ELSE [observed EXCEPT ![pkt.key] = @ + 1]
     /\ shown'    = IF hit THEN [shown EXCEPT ![pkt.key] = @ + 1] ELSE shown
     /\ latency'  = IF hit THEN Elapsed(ts, pkt.ts) ELSE latency
     /\ UNCHANGED <<timeVars, table, pruneVars, recent>>

Insert ==
  /\ pc = "insert"
  /\ table'    = [table EXCEPT ![pkt.key] = pkt.ts]
  /\ recent'   = IF prunePc = "wait" THEN recent ELSE recent \cup {pkt.key}
  /\ observed' = [observed EXCEPT ![pkt.key] = @ + 1]
  /\ pc' = "idle" /\ pkt' = NoPacket
  /\ UNCHANGED <<timeVars, shown, latency, pruneVars>>

(* Remove loads the entry, and deletes it in a second call if it is there. *)
RemoveLoad ==
  /\ pc = "remove"
  /\ IF table[pkt.key] # Absent
       THEN pc' = "delete" /\ pkt' = pkt
       ELSE pc' = "idle"   /\ pkt' = NoPacket
  /\ UNCHANGED <<timeVars, table, observed, shown, latency, pruneVars, recent>>

(* Mutation: the entry is found, and stays.                                *)
RemoveNothing ==
  /\ pc = "delete"
  /\ pc' = "idle" /\ pkt' = NoPacket
  /\ UNCHANGED <<timeVars, table, observed, shown, latency, pruneVars, recent>>

RemoveDelete ==
  /\ pc = "delete"
  /\ table' = [table EXCEPT ![pkt.key] = Absent]
  /\ pc' = "idle" /\ pkt' = NoPacket
  /\ UNCHANGED <<timeVars, observed, shown, latency, pruneVars, recent>>

-----------------------------------------------------------------------------
(* The pruning goroutine: Prune *)

(* Mutation: the error code is taken for a time.                           *)
ReadingsOrError == {clock} \cup (IF ClockMayFail THEN {-1} ELSE {})

(* GetNanosecSeinceBoot answers 0 when the clock cannot be read.           *)
Readings == {clock} \cup (IF ClockMayFail THEN {0} ELSE {})

(* Mutation: an entry is stale at MaxAge, not above it.                    *)
StaleAtMaxAge(n, ts) == ((n - ts) % Word) \div Milli >= MaxAge

(* (n - ts)/1000000 > 10000, in uint64 arithmetic.                         *)
Stale(n, ts) == ((n - ts) % Word) \div Milli > MaxAge

PruneStart ==
  /\ prunePc = "wait"
  /\ tick
  /\ tick' = FALSE
  /\ now' \in Readings
  /\ prunePc' = "range"
  /\ UNCHANGED <<clock, ticking, table, mainVars, seen, recent, victim>>

(* Mutation: the goroutine awaits one tick, not every one. *)
PruneDoneForGood ==
  /\ prunePc' = "done" /\ now' = 0
  /\ seen' = {} /\ recent' = {} /\ victim' = NoVictim

(* Prune returns, its locals are gone, and the goroutine ranges on over the *)
(* ticks.                                                                  *)
PruneDone ==
  /\ prunePc' = "wait" /\ now' = 0
  /\ seen' = {} /\ recent' = {} /\ victim' = NoVictim

(* Range calls back with an entry.  The callback goes on to delete it, or  *)
(* answers false, which ends the Range.                                    *)
PruneVisit(k) ==
  /\ prunePc = "range"
  /\ k \in Present \ seen
  /\ IF Stale(now, table[k])
       THEN /\ victim' = [key |-> k, ts |-> table[k]]
            /\ seen' = seen \cup {k}
            /\ prunePc' = "delete"
            /\ UNCHANGED <<now, recent>>
       ELSE PruneDone
  /\ UNCHANGED <<timeVars, table, mainVars>>

(* Mutation: the callback logs the stale entry and leaves it.              *)
PruneDeleteNothing ==
  /\ prunePc = "delete"
  /\ prunePc' = "range"
  /\ victim' = NoVictim
  /\ UNCHANGED <<timeVars, table, mainVars, now, seen, recent>>

PruneDelete ==
  /\ prunePc = "delete"
  /\ table' = [table EXCEPT ![victim.key] = Absent]
  /\ prunePc' = "range"
  /\ victim' = NoVictim
  /\ UNCHANGED <<timeVars, mainVars, now, seen, recent>>

(* Range has visited every key, but may have missed one stored meanwhile.  *)
PruneEnd ==
  /\ prunePc = "range"
  /\ Present \subseteq seen \cup recent
  /\ PruneDone
  /\ UNCHANGED <<timeVars, table, mainVars>>

-----------------------------------------------------------------------------
MainStep  == Get \/ Insert \/ RemoveLoad \/ RemoveDelete
PruneStep == PruneStart \/ (\E k \in Keys : PruneVisit(k)) \/ PruneDelete
               \/ PruneEnd

(* A packet was stamped before it is received. *)
Next ==
  \/ Advance \/ StopTicker
  \/ \E p \in Observation : p.ts <= clock /\ p.ts <= LastStamp /\ Receive(p)
  \/ MainStep
  \/ PruneStep

(* Time passes, Go schedules both goroutines, and the clock is not         *)
(* unreadable every time that Prune asks for it.                           *)
Fairness ==
  /\ WF_vars(Advance) /\ WF_vars(MainStep) /\ WF_vars(PruneStep)
  /\ SF_vars(PruneStart /\ now' = clock)

Spec     == Init /\ [][Next]_vars
FairSpec == Spec /\ Fairness

-----------------------------------------------------------------------------
(* Properties *)

TypeOK ==
  /\ clock \in 0 .. MaxClock /\ ticking \in BOOLEAN /\ tick \in BOOLEAN
  /\ table \in [Keys -> Timestamps \cup {Absent}]
  /\ pc \in {"idle", "get", "insert", "remove", "delete"}
  /\ pkt \in Observation
  /\ observed \in [Keys -> Nat] /\ shown \in [Keys -> Nat] /\ latency \in Int
  /\ prunePc \in {"wait", "range", "delete"}
  /\ now \in 0 .. MaxClock
  /\ seen \subseteq Keys /\ recent \subseteq Keys
  /\ victim \in [key : Keys, ts : Timestamps]

(* The flows that are open: once a latency is displayed its flow is closed,*)
(* although Remove has yet to delete the entry.                            *)
OpenFlows ==
  [k \in Keys |-> IF pc \in {"remove", "delete"} /\ pkt.key = k
                    THEN Absent ELSE table[k]]

Matching == INSTANCE FlowLatency WITH open <- OpenFlows

(* CalcLatency's two or three calls on the table (packet.go:103-136) act   *)
(* as one step although Prune runs between any two of them: no packet is   *)
(* matched against an entry that is half removed, or inserted over another.*)
CalcLatencyIsAtomic == Matching!Spec

(* No packet counts in two latencies: a displayed latency uses up the      *)
(* packet that opened the flow and the one that closed it, whatever Prune  *)
(* deletes between the lookup and the removal (packet.go:103, 125, 136).   *)
NoPacketCountsTwice ==
  \A k \in Keys :
    2 * shown[k] + (IF OpenFlows[k] = Absent THEN 0 ELSE 1) <= observed[k]

(* What Remove is about to delete is the very entry whose latency was      *)
(* displayed, or nothing (flowtable.go:40-44): Prune may take it first, but*)
(* never leaves another in its place.                                      *)
RemovesTheDisplayedEntry ==
  pc \in {"remove", "delete"} => table[pkt.key] \in {Absent, pkt.ts - latency}

(* The callback of Range deletes an entry.                                 *)
Pruned(k) == /\ prunePc = "delete" /\ prunePc' = "range"
             /\ victim.key = k /\ table[k] # Absent

(* Prune deletes only entries older than 10 seconds (flowtable.go:50), but *)
(* for two kinds: one stored since it read the clock, and one stamped after*)
(* the instant it takes for the present.                                   *)
PrunesOnlyOldUnlessRaced ==
  [][\A k \in Keys : Pruned(k) /\ k \notin recent /\ table[k] <= now
                       => clock - table[k] > MaxAge * Milli]_vars

(* Prune leaves an entry that was there when it began only if it has met a *)
(* fresh one, which ends its Range (flowtable.go:54-63): without one it     *)
(* empties the table, but for what CalcLatency stored meanwhile.           *)
PrunesAllUnlessFresh ==
  [][prunePc = "range" /\ prunePc' = "wait"
       => \/ Present \subseteq recent
          \/ \E k \in Present : ~Stale(now, table[k])]_vars

(* "Prune removes entries from the flow table that are older than 10       *)
(* seconds" (flowtable.go:50): when Prune returns, no entry is left that   *)
(* was there when it began and was stale by its clock.                     *)
PrunesAllOld ==
  [][prunePc = "range" /\ prunePc' = "wait"
       => \A k \in Present \ recent : ~Stale(now, table[k])]_vars

(* While Run goes on and traffic ceases the table drains: a fresh entry    *)
(* ends a Range early (flowtable.go:63) but is itself stale one day, and   *)
(* each Range deletes the stale entries it meets before.                   *)
Drains == []ticking => <>[](Present = {})

(* Ticker.Stop does not close Ticker.C, so the pruning goroutine outlives  *)
(* Run (kprobe.go:169-173, 214): a Prune under way goes on, ends, and no   *)
(* other begins.                                                           *)
WindsDown == ~ticking ~> [](prunePc = "wait")
=============================================================================
