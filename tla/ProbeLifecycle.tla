---------------------------- MODULE ProbeLifecycle ----------------------------
(***************************************************************************)
(* How the flow monitor attaches itself to an interface and lets go of it: *)
(* Run and newProbe call by call, each of which may fail, the signal that  *)
(* cancels Run, crashes at any point, and the next start of the program on *)
(* what the earlier ones left in the kernel.                               *)
(*                                                                         *)
(* When a process ends the kernel closes its descriptors, but not the      *)
(* qdisc nor the filters: they belong to the interface, and a filter keeps *)
(* its program and the program's ring.  The calls on netlink are external, *)
(* modelled from what createQdisc and createFilters expect of them: `add'  *)
(* may fail because the thing exists, `replace' then takes its place.      *)
(***************************************************************************)
EXTENDS Integers, Sequences

CONSTANT MaxRuns   \* bound: starts of the program while anything may fail

ASSUME RunsAssumption == MaxRuns \in Nat \ {0}

VARIABLES
  stacks,     \* does the kernel add a filter beside one that is there?
  calm,       \* no more call fails by itself, no crash, no signal
  run,        \* how many times the program was started
  pc,         \* the next call of Run, or where the process is
  cancelled,  \* a signal has cancelled the context
  ticking,    \* the flow table's ticker runs
  handle,     \* the netlink handle is open
  loaded,     \* program and maps are open
  reader,     \* the ring buffer reader is open
  next,       \* the filter that createFilters adds next; 0 when it does not run
  qdisc,      \* the interface has a clsact qdisc
  attached    \* attached[h]: the runs whose program is attached at h

worldVars  == <<stacks, calm>>
kernelVars == <<qdisc, attached>>
ownVars    == <<ticking, handle, loaded, reader, next>>
vars       == <<worldVars, run, pc, cancelled, ownVars, kernelVars>>

(* The filters, in the order in which createFilters adds them. *)
Filters == << <<"ingress", "IP">>,   <<"egress", "IP">>,
              <<"ingress", "IPv6">>, <<"egress", "IPv6">> >>
Hooks == {Filters[i] : i \in 1 .. Len(Filters)}

Nowhere == [h \in Hooks |-> {}]

Init ==
  /\ stacks \in BOOLEAN /\ calm = FALSE
  /\ run = 0 /\ pc = "down" /\ cancelled = FALSE
  /\ ticking = FALSE /\ handle = FALSE /\ loaded = FALSE /\ reader = FALSE
  /\ next = 0
  /\ qdisc = FALSE /\ attached = Nowhere

-----------------------------------------------------------------------------
(* The process *)

(* main up to Run; if the interface it looks up is not there, it exits as   *)
(* Crash would have it.                                                    *)
Launch ==
  /\ pc = "down"
  /\ run < MaxRuns \/ (calm /\ run = MaxRuns)
  /\ run' = run + 1
  /\ pc' = "rlimit"
  /\ UNCHANGED <<worldVars, cancelled, ownVars, kernelVars>>

(* The process ends, and its descriptors are closed for it. *)
Die ==
  /\ pc' = "down" /\ cancelled' = FALSE
  /\ ticking' = FALSE /\ handle' = FALSE /\ loaded' = FALSE /\ reader' = FALSE
  /\ next' = 0
  /\ UNCHANGED <<worldVars, run, kernelVars>>

Crash == pc # "down" /\ ~calm /\ Die

(* Run has returned to main, which has nothing left to do. *)
Exit == pc = "returned" /\ Die

(* The error of newProbe is not looked at; hook.bpfObjects, of a nil hook, *)
(* is a panic.                                                             *)
NilHook == pc = "nilHook" /\ Die

(* SIGINT or SIGTERM, from signal.Notify on. *)
Cancel ==
  /\ pc # "down" /\ ~cancelled /\ ~calm
  /\ cancelled' = TRUE
  /\ UNCHANGED <<worldVars, run, pc, ownVars, kernelVars>>

Calm ==
  /\ ~calm /\ calm' = TRUE
  /\ UNCHANGED <<stacks, run, pc, cancelled, ownVars, kernelVars>>

-----------------------------------------------------------------------------
(* Run, up to its loop *)

(* The call at `here' goes wrong, for no reason that concerns the model.   *)
FailsAt(here, there) ==
  /\ pc = here /\ ~calm
  /\ pc' = there
  /\ UNCHANGED <<worldVars, run, cancelled, ownVars, kernelVars>>

(* setrlimit; then NewFlowTable starts the ticker. *)
SetRlimit ==
  /\ pc = "rlimit"
  /\ pc' = "lookup" /\ ticking' = TRUE
  /\ UNCHANGED <<worldVars, run, cancelled, handle, loaded, reader, next, kernelVars>>

LinkByName ==
  /\ pc = "lookup"
  /\ pc' = "handle"
  /\ UNCHANGED <<worldVars, run, cancelled, ownVars, kernelVars>>

NewHandle ==
  /\ pc = "handle"
  /\ pc' = "load" /\ handle' = TRUE
  /\ UNCHANGED <<worldVars, run, cancelled, ticking, loaded, reader, next, kernelVars>>

LoadObjects ==
  /\ pc = "load"
  /\ pc' = "addQdisc" /\ loaded' = TRUE
  /\ UNCHANGED <<worldVars, run, cancelled, ticking, handle, reader, next, kernelVars>>

NewReader ==
  /\ pc = "reader"
  /\ pc' = "serving" /\ reader' = TRUE
  /\ UNCHANGED <<worldVars, run, cancelled, ticking, handle, loaded, next, kernelVars>>

(* Mutation: a filter that cannot be placed is only logged. *)
CallFailsUnnoticed ==
  \/ FailsAt("rlimit", "returned") \/ FailsAt("lookup", "returned")
  \/ FailsAt("handle", "nilHook")  \/ FailsAt("load", "nilHook")
  \/ FailsAt("addQdisc", "replaceQdisc") \/ FailsAt("replaceQdisc", "nilHook")
  \/ FailsAt("addFilter", "replaceFilter") \/ FailsAt("replaceFilter", "reader")
  \/ FailsAt("reader", "returned")

(* Of the failures, those inside newProbe leave a nil hook behind, and an  *)
(* `add' that fails is tried again as a `replace'.                         *)
CallFails ==
  \/ FailsAt("rlimit", "returned") \/ FailsAt("lookup", "returned")
  \/ FailsAt("handle", "nilHook")  \/ FailsAt("load", "nilHook")
  \/ FailsAt("addQdisc", "replaceQdisc") \/ FailsAt("replaceQdisc", "nilHook")
  \/ FailsAt("addFilter", "replaceFilter") \/ FailsAt("replaceFilter", "nilHook")
  \/ FailsAt("reader", "returned")

-----------------------------------------------------------------------------
(* createQdisc and createFilters *)

(* Mutation: a qdisc that is there already is an error. *)
AddQdiscOnly ==
  /\ pc = "addQdisc"
  /\ IF qdisc THEN pc' = "nilHook" /\ UNCHANGED <<qdisc, next>>
              ELSE pc' = "addFilter" /\ qdisc' = TRUE /\ next' = 1
  /\ UNCHANGED <<worldVars, run, cancelled, ticking, handle, loaded, reader, attached>>

AddQdisc ==
  /\ pc = "addQdisc"
  /\ IF qdisc THEN pc' = "replaceQdisc" /\ UNCHANGED <<qdisc, next>>
              ELSE pc' = "addFilter" /\ qdisc' = TRUE /\ next' = 1
  /\ UNCHANGED <<worldVars, run, cancelled, ticking, handle, loaded, reader, attached>>

(* What becomes of the filters of the qdisc that is replaced, the code     *)
(* does not say.                                                           *)
ReplaceQdisc ==
  /\ pc = "replaceQdisc"
  /\ pc' = "addFilter" /\ next' = 1
  /\ qdisc' = TRUE /\ attached' \in {attached, Nowhere}
  /\ UNCHANGED <<worldVars, run, cancelled, ticking, handle, loaded, reader>>

(* Mutation: one filter too many. *)
FilterPlacedTooFar(programs) ==
  /\ attached' = [attached EXCEPT ![Filters[next]] = programs]
  /\ IF next > Len(Filters)
       THEN pc' = "reader" /\ next' = 0
       ELSE pc' = "addFilter" /\ next' = next + 1
  /\ UNCHANGED <<worldVars, run, cancelled, ticking, handle, loaded, reader, qdisc>>

(* One filter is in place; after the last one newProbe is done. *)
FilterPlaced(programs) ==
  /\ attached' = [attached EXCEPT ![Filters[next]] = programs]
  /\ IF next = Len(Filters)
       THEN pc' = "reader" /\ next' = 0
       ELSE pc' = "addFilter" /\ next' = next + 1
  /\ UNCHANGED <<worldVars, run, cancelled, ticking, handle, loaded, reader, qdisc>>

AddFilter ==
  /\ pc = "addFilter"
  /\ LET there == attached[Filters[next]]
     IN IF there # {} /\ ~stacks
          THEN /\ pc' = "replaceFilter"
               /\ UNCHANGED <<worldVars, run, cancelled, ownVars, kernelVars>>
          ELSE FilterPlaced(there \cup {run})

(* Mutation: the new filter is put beside the old one. *)
ReplaceFilterBeside ==
  /\ pc = "replaceFilter"
  /\ FilterPlaced(attached[Filters[next]] \cup {run})

(* One of the filters that are there gives way, if there is one. *)
ReplaceFilter ==
  /\ pc = "replaceFilter"
  /\ LET there == attached[Filters[next]]
     IN \E old \in IF there = {} THEN {{}} ELSE {{r} : r \in there} :
          FilterPlaced((there \ old) \cup {run})

-----------------------------------------------------------------------------
(* Mutation: the signal is noticed only while the loop is entered. *)
DoneUnlessServing ==
  /\ pc = "reader" /\ cancelled
  /\ ticking' = FALSE /\ loaded' = FALSE
  /\ pc' = "returned"
  /\ UNCHANGED <<worldVars, run, cancelled, handle, reader, next, kernelVars>>

(* The loop of Run ends: the ticker is stopped, program and maps closed.   *)
(* Close, which would remove the qdisc, is not called here nor elsewhere.  *)
Done ==
  /\ pc = "serving" /\ cancelled
  /\ ticking' = FALSE /\ loaded' = FALSE
  /\ pc' = "returned"
  /\ UNCHANGED <<worldVars, run, cancelled, handle, reader, next, kernelVars>>

RunStep ==
  \/ SetRlimit \/ LinkByName \/ NewHandle \/ LoadObjects \/ NewReader
  \/ AddQdisc \/ ReplaceQdisc \/ AddFilter \/ ReplaceFilter
  \/ Done \/ Exit \/ NilHook

Next == Launch \/ RunStep \/ CallFails \/ Crash \/ Cancel \/ Calm

(* A process goes on, and a program that has ended is started again.       *)
Fairness == WF_vars(RunStep \/ CallFails) /\ WF_vars(Launch)

Spec     == Init /\ [][Next]_vars
FairSpec == Spec /\ Fairness

-----------------------------------------------------------------------------
(* Properties *)

TypeOK ==
  /\ stacks \in BOOLEAN /\ calm \in BOOLEAN /\ cancelled \in BOOLEAN
  /\ run \in 0 .. MaxRuns + 1
  /\ pc \in {"down", "rlimit", "lookup", "handle", "load", "addQdisc",
             "replaceQdisc", "addFilter", "replaceFilter", "nilHook",
             "reader", "serving", "returned"}
  /\ ticking \in BOOLEAN /\ handle \in BOOLEAN
  /\ loaded \in BOOLEAN /\ reader \in BOOLEAN
  /\ next \in 0 .. Len(Filters)
  /\ qdisc \in BOOLEAN
  /\ attached \in [Hooks -> SUBSET (1 .. MaxRuns + 1)]

(* Whatever failed on the way, and whatever earlier runs left behind, a    *)
(* Run that has reached its loop has its own program at all four places    *)
(* and reads that program's ring (kprobe.go:182-226): a newProbe that      *)
(* failed half-way does not get there, though nobody checks its error.     *)
ServesOnlyComplete ==
  pc = "serving" =>
    /\ qdisc /\ loaded /\ reader /\ ticking
    /\ \A h \in Hooks : run \in attached[h]

(* ... and where the kernel keeps one filter a place, no earlier run's     *)
(* program is left beside it (kprobe.go:139-145).                          *)
SupersedesEarlierRuns ==
  pc = "serving" /\ ~stacks => \A h \in Hooks : attached[h] = {run}

(* Once nothing fails by itself any more, the program comes to serve,      *)
(* whatever crashes left behind (kprobe.go:98-102, 140-144).               *)
Recovers == calm ~> [](pc = "serving")

(* A signal ends the process, however early it comes (kprobe.go:211-215,   *)
(* cmd/flat.go:49-57).                                                     *)
StopsWhenSignalled == cancelled ~> pc = "down"

(* "Close will remove the qdisc, netlink handle, eBPF program, and eBPF    *)
(* maps when the program gets interrupted (SIGINT) or terminated           *)
(* (SIGTERM)" (kprobe.go:232-233): they are gone when its loop has ended.  *)
RemovesQdiscWhenInterrupted ==
  [][pc = "serving" /\ pc' = "returned" => ~qdisc' /\ ~handle' /\ ~loaded']_vars
=============================================================================
