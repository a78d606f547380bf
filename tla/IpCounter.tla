------------------------------ MODULE IpCounter ------------------------------
(***************************************************************************)
(* ip-counter: the XDP program that counts packets on every CPU, and the   *)
(* process that loads it, prints the count at every tick and ends when it  *)
(* is interrupted.                                                         *)
(*                                                                         *)
(* log.Fatal ends the process without its deferred calls; the kernel then  *)
(* closes what they would have closed.  SIGINT is relayed to the channel   *)
(* stop from signal.Notify on; before, and for SIGTERM always, the process *)
(* is killed.                                                              *)
(***************************************************************************)
EXTENDS Integers, FiniteSets

CONSTANTS
  Queues,      \* the CPUs that receive packets
  Word,        \* bound: the counter is modulo Word, for 2^64
  MaxPackets   \* bound on the packets

ASSUME CounterAssumption == Word \in Nat \ {0} /\ MaxPackets \in Nat

VARIABLES
  at,          \* the next call of main, or where the process is
  defers,      \* the deferred calls pending: closing "objs" and "link"
  xdp,         \* the interface has the program
  tick,        \* a tick waits in its channel
  stop,        \* a signal waits in the channel stop
  worker,      \* worker[q]: the program runs on q, with this count in hand
  pktCount,    \* the one entry of the map
  packets,     \* the packets that the program has let pass
  shown        \* the counts printed so far, as pairs of a count and `packets'

counterVars == <<at, defers, xdp, tick, stop, worker, pktCount, packets, shown>>

Absent == -1

CounterInit ==
  /\ at = "memlock" /\ defers = {} /\ xdp = FALSE
  /\ tick = FALSE /\ stop = FALSE
  /\ worker = [q \in Queues |-> Absent]
  /\ pktCount = 0 /\ packets = 0 /\ shown = {}

-----------------------------------------------------------------------------
(* count_packets; the lookup of entry 0 of an array cannot fail *)

Lookup(q) ==
  /\ xdp /\ worker[q] = Absent
  /\ packets + Cardinality({r \in Queues : worker[r] # Absent}) < MaxPackets
  /\ worker' = [worker EXCEPT ![q] = pktCount]
  /\ UNCHANGED <<at, defers, xdp, tick, stop, pktCount, packets, shown>>

(* Mutation: the count in hand is written back, one up. *)
WriteBack(q) ==
  /\ worker[q] # Absent
  /\ pktCount' = (worker[q] + 1) % Word
  /\ worker' = [worker EXCEPT ![q] = Absent]
  /\ packets' = packets + 1
  /\ UNCHANGED <<at, defers, xdp, tick, stop, shown>>

(* __sync_fetch_and_add, through the pointer that the lookup returned. *)
FetchAndAdd(q) ==
  /\ worker[q] # Absent
  /\ pktCount' = (pktCount + 1) % Word
  /\ worker' = [worker EXCEPT ![q] = Absent]
  /\ packets' = packets + 1
  /\ UNCHANGED <<at, defers, xdp, tick, stop, shown>>

-----------------------------------------------------------------------------
(* main *)

CallsOf(here, there) == at = here /\ at' = there

MemlockAndName ==
  /\ CallsOf("memlock", "load") \/ CallsOf("ifname", "attach")
  /\ UNCHANGED <<defers, xdp, tick, stop, worker, pktCount, packets, shown>>

LoadCounter ==
  /\ CallsOf("load", "ifname")
  /\ defers' = defers \cup {"objs"}
  /\ UNCHANGED <<xdp, tick, stop, worker, pktCount, packets, shown>>

AttachXDP ==
  /\ CallsOf("attach", "notify")
  /\ defers' = defers \cup {"link"} /\ xdp' = TRUE
  /\ UNCHANGED <<tick, stop, worker, pktCount, packets, shown>>

Notify ==
  /\ CallsOf("notify", "select")
  /\ UNCHANGED <<defers, xdp, tick, stop, worker, pktCount, packets, shown>>

SelectTick ==
  /\ CallsOf("select", "lookup")
  /\ tick /\ tick' = FALSE
  /\ UNCHANGED <<defers, xdp, stop, worker, pktCount, packets, shown>>

(* Lookup copies the count out, and it is printed. *)
ShowCount ==
  /\ CallsOf("lookup", "select")
  /\ shown' = shown \cup {<<pktCount, packets>>}
  /\ UNCHANGED <<defers, xdp, tick, stop, worker, pktCount, packets>>

(* Mutation: a tick that waits is served first. *)
SelectStopLast ==
  /\ CallsOf("select", "returned")
  /\ stop /\ ~tick
  /\ UNCHANGED <<defers, xdp, tick, stop, worker, pktCount, packets, shown>>

SelectStop ==
  /\ CallsOf("select", "returned")
  /\ stop
  /\ UNCHANGED <<defers, xdp, tick, stop, worker, pktCount, packets, shown>>

(* Mutation: the objects are closed first. *)
CloseObjectsFirst ==
  /\ at = "returned"
  /\ \/ "objs" \in defers /\ defers' = defers \ {"objs"} /\ UNCHANGED <<at, xdp>>
     \/ defers = {"link"} /\ defers' = {} /\ xdp' = FALSE /\ UNCHANGED at
     \/ defers = {} /\ at' = "ended" /\ UNCHANGED <<defers, xdp>>
  /\ UNCHANGED <<tick, stop, worker, pktCount, packets, shown>>

CloseLast ==
  /\ at = "returned"
  /\ \/ "link" \in defers /\ defers' = defers \ {"link"} /\ xdp' = FALSE /\ UNCHANGED at
     \/ defers = {"objs"} /\ defers' = {} /\ UNCHANGED <<at, xdp>>
     \/ defers = {} /\ at' = "ended" /\ UNCHANGED <<defers, xdp>>
  /\ UNCHANGED <<tick, stop, worker, pktCount, packets, shown>>

EndsAtOnce ==
  /\ at' = "ended" /\ defers' = {} /\ xdp' = FALSE
  /\ UNCHANGED <<tick, stop, worker, pktCount, packets, shown>>

LogFatal ==
  at \in {"memlock", "load", "ifname", "attach", "lookup"} /\ EndsAtOnce

-----------------------------------------------------------------------------
(* What comes from outside *)

Tick ==
  /\ at \in {"select", "lookup"} /\ tick' = TRUE
  /\ UNCHANGED <<at, defers, xdp, stop, worker, pktCount, packets, shown>>

Sigint ==
  \/ at \in {"memlock", "load", "ifname", "attach", "notify"} /\ EndsAtOnce
  \/ /\ at \in {"select", "lookup", "returned"} /\ stop' = TRUE
     /\ UNCHANGED <<at, defers, xdp, tick, worker, pktCount, packets, shown>>

Sigterm == at # "ended" /\ EndsAtOnce

CounterStep ==
  MemlockAndName \/ LoadCounter \/ AttachXDP \/ Notify \/ SelectTick \/ ShowCount \/ CloseLast

CounterNext ==
  \/ \E q \in Queues : Lookup(q) \/ FetchAndAdd(q)
  \/ CounterStep \/ SelectStop \/ LogFatal
  \/ Tick \/ Sigint \/ Sigterm

(* Programs end, and main goes on.  select chooses at random among the     *)
(* channels that are ready: it does not pass over one for ever.            *)
CounterFairness ==
  /\ \A q \in Queues : WF_counterVars(FetchAndAdd(q))
  /\ WF_counterVars(CounterStep \/ SelectStop \/ LogFatal)
  /\ SF_counterVars(SelectStop)

-----------------------------------------------------------------------------
(* Properties *)

CounterTypeOK ==
  /\ at \in {"memlock", "load", "ifname", "attach", "notify", "select",
             "lookup", "returned", "ended"}
  /\ defers \subseteq {"objs", "link"}
  /\ xdp \in BOOLEAN /\ tick \in BOOLEAN /\ stop \in BOOLEAN
  /\ worker \in [Queues -> {Absent} \cup 0 .. Word - 1]
  /\ pktCount \in 0 .. Word - 1 /\ packets \in 0 .. MaxPackets
  /\ shown \subseteq (0 .. Word - 1) \X (0 .. MaxPackets)

(* Whatever the CPUs do at once, no packet is lost from the count, and     *)
(* what is printed is the number of packets let pass so far, up to the     *)
(* width of the counter (counter.c:15-23, main.go:53-59).                  *)
CountsEveryPacket ==
  /\ pktCount = packets % Word
  /\ \A s \in shown : s[1] = s[2] % Word

(* A signal taken by the channel ends the process, however busy it is with *)
(* ticks (main.go:49-64).                                                  *)
StopsWhenInterrupted == stop ~> at = "ended"

(* The program leaves the interface before its maps and itself are closed, *)
(* and nothing stays behind (main.go:26, 42).                              *)
HeldByMain == (defers \cap {"objs"}) \cup {r \in {"link"} : xdp}
MainCloses == at \in {"returned", "ended"}

CounterStack == INSTANCE ResourceStack
  WITH Procs <- {"main"}, Resources <- {"objs", "link"},
       Rank <- [r \in {"objs", "link"} |-> IF r = "objs" THEN 1 ELSE 2],
       Lasting <- {}, Perishable <- {},
       held <- [p \in {"main"} |-> HeldByMain],
       closing <- [p \in {"main"} |-> MainCloses]
=============================================================================
