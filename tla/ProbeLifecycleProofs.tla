------------------------- MODULE ProbeLifecycleProofs -------------------------
(***************************************************************************)
(* The set-up of the probe proved for any number of starts and crashes.    *)
(***************************************************************************)
EXTENDS ProbeLifecycle, TLAPS

(* What Run and newProbe hold when they make a call. *)
Ticks     == pc \notin {"down", "rlimit", "nilHook", "returned"}
Loads     == Ticks /\ pc \notin {"lookup", "handle", "load"}
HasQdisc  == Loads /\ pc \notin {"addQdisc", "replaceQdisc"}
Filtering == pc \in {"addFilter", "replaceFilter"}
Filtered  == pc \in {"reader", "serving"}

(* The places that createFilters is done with. *)
Placed == {Filters[i] : i \in {j \in 1 .. 4 : Filtered \/ (Filtering /\ j < next)}}

Acquired ==
  /\ Ticks => ticking
  /\ Loads => loaded
  /\ HasQdisc => qdisc
  /\ pc = "serving" => reader
  /\ Filtering => next # 0

PlacesOwn == \A h \in Placed : run \in attached[h]

(* A kernel that does not stack filters keeps one a place, and a place     *)
(* that createFilters is done with is this run's.                          *)
OneAPlace ==
  ~stacks => /\ \A h \in Hooks : \A r, s \in attached[h] : r = s
             /\ \A h \in Placed : attached[h] = {run}

(* No filter belongs to a run that is still to come. *)
NoneFromTheFuture ==
  /\ \A h \in Hooks : attached[h] \subseteq 1 .. run
  /\ pc # "down" => run # 0

IInv == TypeOK /\ Acquired /\ PlacesOwn /\ OneAPlace /\ NoneFromTheFuture

-----------------------------------------------------------------------------
LEMMA FourFilters == Len(Filters) = 4 /\ \A i \in 1 .. 4 : Filters[i] \in Hooks
BY DEF Filters, Hooks

LEMMA AllPlaced == Filtered => Placed = Hooks
BY FourFilters DEF Placed, Hooks

LEMMA InitIInv == Init => IInv
<1> SUFFICES ASSUME Init PROVE IInv
  OBVIOUS
<1> USE DEF Init
<1>1. TypeOK
  <2>1. Nowhere \in [Hooks -> SUBSET (1 .. MaxRuns + 1)]
    BY DEF Nowhere
  <2>2. 0 \in 0 .. MaxRuns + 1 /\ 0 \in 0 .. Len(Filters)
    BY FourFilters, RunsAssumption
  <2> QED
    BY <2>1, <2>2 DEF TypeOK
<1>2. Acquired
  BY DEF Acquired, Ticks, Loads, HasQdisc, Filtering
<1>3. Placed = {}
  BY DEF Placed, Filtered, Filtering
<1>4. PlacesOwn /\ OneAPlace /\ NoneFromTheFuture
  BY <1>3 DEF PlacesOwn, OneAPlace, NoneFromTheFuture, Nowhere
<1> QED
  BY <1>1, <1>2, <1>4 DEF IInv

-----------------------------------------------------------------------------
(* A step that leaves the filters alone, and places none by what it calls  *)
(* next, keeps what is known of them.                                      *)
LEMMA KeepsFilters ==
  ASSUME IInv, UNCHANGED <<stacks, attached>>,
         Placed' = {} \/ (Placed' = Placed /\ run' = run),
         run' \in Nat, run' >= run, pc' # "down" => run' # 0
  PROVE  PlacesOwn' /\ OneAPlace' /\ NoneFromTheFuture'
<1> USE DEF IInv
<1>1. PlacesOwn'
  BY DEF PlacesOwn
<1>2. OneAPlace'
  BY DEF OneAPlace
<1>3. NoneFromTheFuture'
  <2>1. run \in Nat
    BY RunsAssumption DEF TypeOK
  <2> QED
    BY <2>1 DEF NoneFromTheFuture
<1> QED
  BY <1>1, <1>2, <1>3

(* The run puts its program at the place that is next. *)
LEMMA PlacesFilter ==
  ASSUME IInv, NEW programs, FilterPlaced(programs), Filtering,
         programs \in SUBSET (1 .. run), run \in programs,
         ~stacks => programs = {run}
  PROVE  IInv'
<1> USE FourFilters DEF IInv, FilterPlaced, worldVars
<1> DEFINE h == Filters[next]
<1>1. next \in 1 .. 4 /\ h \in Hooks /\ run \in Nat /\ run <= MaxRuns + 1
  BY RunsAssumption DEF TypeOK, Acquired
<1>2. /\ attached' = [attached EXCEPT ![h] = programs]
      /\ attached \in [Hooks -> SUBSET (1 .. MaxRuns + 1)]
      /\ attached' \in [Hooks -> SUBSET (1 .. MaxRuns + 1)]
  <2>1. programs \subseteq 1 .. MaxRuns + 1
    BY <1>1, RunsAssumption
  <2> QED
    BY <1>1, <2>1 DEF TypeOK
<1>3. TypeOK'
  BY <1>1, <1>2 DEF TypeOK
<1>4. Acquired'
  BY <1>1 DEF Acquired, Ticks, Loads, HasQdisc, Filtering
<1>5. \A g \in Placed' : g \in Hooks /\ (g = h \/ g \in Placed)
  BY <1>1 DEF Placed, Filtered, Filtering
<1>6. PlacesOwn'
  BY <1>1, <1>2, <1>5 DEF PlacesOwn
<1>7. OneAPlace'
  <2> SUFFICES ASSUME ~stacks
               PROVE  /\ \A g \in Hooks : \A r, s \in attached'[g] : r = s
                      /\ \A g \in Placed' : attached'[g] = {run}
    BY DEF OneAPlace
  <2>1. \A g \in Hooks : attached'[g] = IF g = h THEN {run} ELSE attached[g]
    BY <1>1, <1>2
  <2> QED
    BY <2>1, <1>5 DEF OneAPlace
<1>8. NoneFromTheFuture'
  <2> HIDE DEF h
  <2>1. \A g \in Hooks : attached'[g] = IF g = h THEN programs ELSE attached[g]
    BY <1>1, <1>2
  <2>2. run' = run /\ run # 0
    BY DEF NoneFromTheFuture, Filtering
  <2>3. \A g \in Hooks : attached'[g] \subseteq 1 .. run
    BY <2>1 DEF NoneFromTheFuture
  <2> QED
    BY <2>2, <2>3 DEF NoneFromTheFuture
<1> QED
  BY <1>3, <1>4, <1>6, <1>7, <1>8

LEMMA NextIInv == IInv /\ [Next]_vars => IInv'
<1> SUFFICES ASSUME IInv, [Next]_vars PROVE IInv'
  OBVIOUS
<1> USE FourFilters DEF IInv, worldVars, ownVars, kernelVars
<1>0. run \in Nat /\ run <= MaxRuns + 1 /\ (pc # "down" => run # 0)
  BY RunsAssumption DEF TypeOK, NoneFromTheFuture
<1>1. CASE Launch
  <2> USE <1>1 DEF Launch
  <2>1. run + 1 \in 0 .. MaxRuns + 1
    BY <1>0, RunsAssumption
  <2>2. TypeOK' /\ Acquired'
    BY <2>1 DEF TypeOK, Acquired, Ticks, Loads, HasQdisc, Filtering
  <2>3. Placed' = {}
    BY DEF Placed, Filtered, Filtering
  <2> QED
    BY <1>0, <2>2, <2>3, KeepsFilters
<1>2. CASE Die
  <2> USE <1>2 DEF Die
  <2>1. TypeOK' /\ Acquired'
    <3>1. 0 \in 0 .. Len(Filters)
      BY FourFilters
    <3>2. TypeOK'
      BY <3>1 DEF TypeOK
    <3> QED
      BY <3>2 DEF Acquired, Ticks, Loads, HasQdisc, Filtering
  <2>2. Placed' = {}
    BY DEF Placed, Filtered, Filtering
  <2> QED
    BY <1>0, <2>1, <2>2, KeepsFilters
<1>3. CASE Cancel \/ Calm \/ UNCHANGED vars
  <2> USE <1>3 DEF Cancel, Calm, vars
  <2>1. TypeOK' /\ Acquired'
    <3>1. TypeOK'
      <4>1. CASE Cancel
        BY <4>1 DEF TypeOK
      <4>2. CASE Calm
        BY <4>2 DEF TypeOK
      <4>3. CASE UNCHANGED vars
        BY <4>3 DEF TypeOK
      <4> QED
        BY <4>1, <4>2, <4>3
    <3>2. Acquired'
      BY DEF Acquired, Ticks, Loads, HasQdisc, Filtering
    <3> QED
      BY <3>1, <3>2
  <2>2. Placed' = Placed
    BY DEF Placed, Filtered, Filtering
  <2> QED
    BY <1>0, <2>1, <2>2, KeepsFilters
<1>4. CASE SetRlimit \/ LinkByName \/ NewHandle \/ LoadObjects \/ Done
  <2> USE <1>4 DEF SetRlimit, LinkByName, NewHandle, LoadObjects, Done
  <2>1. TypeOK' /\ Acquired'
    <3>1. TypeOK'
      BY DEF TypeOK
    <3>2. Acquired'
      BY DEF Acquired, Ticks, Loads, HasQdisc, Filtering
    <3> QED
      BY <3>1, <3>2
  <2>2. Placed' = {}
    BY DEF Placed, Filtered, Filtering
  <2> QED
    BY <1>0, <2>1, <2>2, KeepsFilters
<1>5. CASE NewReader
  <2> USE <1>5 DEF NewReader
  <2>1. TypeOK' /\ Acquired'
    <3>1. TypeOK'
      BY DEF TypeOK
    <3>2. Acquired'
      BY DEF Acquired, Ticks, Loads, HasQdisc, Filtering
    <3> QED
      BY <3>1, <3>2
  <2>2. Placed' = Placed
    BY DEF Placed, Filtered, Filtering
  <2> QED
    BY <1>0, <2>1, <2>2, KeepsFilters
<1>6. CASE CallFails
  <2> USE <1>6 DEF CallFails, FailsAt
  <2>1. TypeOK' /\ Acquired'
    <3>1. TypeOK'
      BY DEF TypeOK
    <3>2. Acquired'
      BY DEF Acquired, Ticks, Loads, HasQdisc, Filtering
    <3> QED
      BY <3>1, <3>2
  <2>2. Placed' \in {{}, Placed}
    BY DEF Placed, Filtered, Filtering
  <2> QED
    BY <1>0, <2>1, <2>2, KeepsFilters
<1>7. CASE AddQdisc
  <2> USE <1>7 DEF AddQdisc
  <2>1. TypeOK' /\ Acquired'
    <3>1. 1 \in 0 .. Len(Filters) /\ 1 # 0
      BY FourFilters
    <3>2. TypeOK'
      BY <3>1 DEF TypeOK
    <3> QED
      BY <3>1, <3>2 DEF Acquired, Ticks, Loads, HasQdisc, Filtering
  <2>2. Placed' = {}
    BY DEF Placed, Filtered, Filtering
  <2> QED
    BY <1>0, <2>1, <2>2, KeepsFilters
<1>8. CASE ReplaceQdisc
  <2> USE <1>8 DEF ReplaceQdisc
  <2>1. TypeOK' /\ Acquired'
    <3>1. 1 \in 0 .. Len(Filters) /\ 1 # 0
      BY FourFilters
    <3>2. TypeOK'
      BY <3>1 DEF TypeOK, Nowhere
    <3> QED
      BY <3>1, <3>2 DEF Acquired, Ticks, Loads, HasQdisc, Filtering
  <2>2. Placed' = {}
    BY DEF Placed, Filtered, Filtering
  <2>3. CASE attached' = attached
    BY <1>0, <2>1, <2>2, <2>3, KeepsFilters
  <2>4. CASE attached' = Nowhere
    BY <1>0, <2>1, <2>2, <2>4
       DEF PlacesOwn, OneAPlace, NoneFromTheFuture, Nowhere
  <2> QED
    BY <2>3, <2>4
<1>9. CASE AddFilter
  <2> DEFINE there == attached[Filters[next]]
  <2>1. next \in 1 .. 4 /\ there \subseteq 1 .. run /\ Filtering
    BY <1>9 DEF AddFilter, TypeOK, Acquired, Filtering, NoneFromTheFuture
  <2>2. CASE there # {} /\ ~stacks
    <3> USE <1>9, <2>2 DEF AddFilter
    <3>1. TypeOK' /\ Acquired'
      BY DEF TypeOK, Acquired, Ticks, Loads, HasQdisc, Filtering
    <3>2. Placed' = Placed
      BY DEF Placed, Filtered, Filtering
    <3> QED
      BY <1>0, <3>1, <3>2, KeepsFilters
  <2>3. CASE ~(there # {} /\ ~stacks)
    <3>1. FilterPlaced(there \cup {run}) /\ pc = "addFilter"
      BY <1>9, <2>3 DEF AddFilter
    <3>2. there \cup {run} \in SUBSET (1 .. run)
      BY <1>0, <2>1, <3>1
    <3>3. ~stacks => there \cup {run} = {run}
      BY <2>3
    <3> QED
      BY <2>1, <3>1, <3>2, <3>3, PlacesFilter
  <2> QED
    BY <2>2, <2>3
<1>10. CASE ReplaceFilter
  <2> DEFINE there == attached[Filters[next]]
  <2>1. next \in 1 .. 4 /\ there \subseteq 1 .. run /\ Filtering /\ pc # "down"
    BY <1>10 DEF ReplaceFilter, TypeOK, Acquired, Filtering, NoneFromTheFuture
  <2>2. PICK old \in IF there = {} THEN {{}} ELSE {{r} : r \in there} :
          FilterPlaced((there \ old) \cup {run})
    BY <1>10 DEF ReplaceFilter
  <2>3. (there \ old) \cup {run} \in SUBSET (1 .. run)
    BY <1>0, <2>1
  <2>4. ~stacks => (there \ old) \cup {run} = {run}
    <3>1. ~stacks => \A r, s \in there : r = s
      BY <2>1 DEF OneAPlace
    <3> QED
      BY <2>2, <3>1
  <2> QED
    BY <2>1, <2>2, <2>3, <2>4, PlacesFilter
<1> QED
  BY <1>1, <1>2, <1>3, <1>4, <1>5, <1>6, <1>7, <1>8, <1>9, <1>10
     DEF Next, RunStep, Crash, Exit, NilHook

-----------------------------------------------------------------------------
(* The strengthened invariant holds in every reachable state. *)
THEOREM ProbeInvariance == Spec => []IInv
BY InitIInv, NextIInv, PTL DEF Spec

(* Every variable keeps its type (kprobe.go:56-226). *)
THEOREM ProbeTypeCorrect == Spec => []TypeOK
<1>1. IInv => TypeOK
  BY DEF IInv
<1> QED
  BY <1>1, ProbeInvariance, PTL

(* A Run that reaches its loop has its own program at all four places and  *)
(* reads that program's ring, whatever failed on the way and whatever      *)
(* earlier runs left behind (kprobe.go:139-146, 182-226).                  *)
THEOREM ServesComplete == Spec => []ServesOnlyComplete
<1>1. IInv => ServesOnlyComplete
  BY AllPlaced DEF IInv, ServesOnlyComplete, Acquired, PlacesOwn, Ticks, Loads,
                   HasQdisc, Filtered
<1> QED
  BY <1>1, ProbeInvariance, PTL

(* Where the kernel keeps one filter a place, no earlier run's program is  *)
(* left beside that of a Run in its loop (kprobe.go:139-145).              *)
THEOREM Supersedes == Spec => []SupersedesEarlierRuns
<1>1. IInv => SupersedesEarlierRuns
  BY AllPlaced DEF IInv, SupersedesEarlierRuns, OneAPlace, Filtered
<1> QED
  BY <1>1, ProbeInvariance, PTL
=============================================================================
