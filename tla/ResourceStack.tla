---------------------------- MODULE ResourceStack ----------------------------
(***************************************************************************)
(* What the programs' clean-up promises: a process takes its resources one *)
(* on top of the other, and once it lets go of one it takes no more and    *)
(* gives them back from the top.  A process that is killed gives nothing   *)
(* back itself: what outlives it stays, the rest is gone at once.  Some    *)
(* resources may also be taken away from outside.                          *)
(***************************************************************************)
EXTENDS Integers

CONSTANTS
  Procs,       \* the processes
  Resources,   \* what a process may hold
  Rank,        \* the order of creation
  Lasting,     \* the resources that outlive a killed process
  Perishable   \* the resources that others may take away

VARIABLES
  held,      \* held[p]: what p holds
  closing    \* closing[p]: p is giving back

stackVars == <<held, closing>>

StackInit ==
  /\ held = [p \in Procs |-> {}]
  /\ closing = [p \in Procs |-> FALSE]

Acquire(p, r) ==
  /\ ~closing[p]
  /\ \A s \in held[p] : Rank[s] < Rank[r]
  /\ held' = [held EXCEPT ![p] = @ \cup {r}]
  /\ UNCHANGED closing

Close(p) ==
  /\ closing' = [closing EXCEPT ![p] = TRUE]
  /\ UNCHANGED held

(* Only the newest of what is held is given back. *)
Release(p, r) ==
  /\ closing[p]
  /\ r \in held[p]
  /\ \A s \in held[p] : Rank[s] <= Rank[r]
  /\ held' = [held EXCEPT ![p] = @ \ {r}]
  /\ UNCHANGED closing

Kill(p) ==
  /\ held' = [held EXCEPT ![p] = @ \cap Lasting]
  /\ closing' = [closing EXCEPT ![p] = TRUE]

Vanish(p) ==
  /\ held' = [held EXCEPT ![p] = @ \ Perishable]
  /\ UNCHANGED closing

StackNext ==
  \E p \in Procs :
    \/ \E r \in Resources : Acquire(p, r) \/ Release(p, r)
    \/ Close(p) \/ Kill(p) \/ Vanish(p)

StackSpec == StackInit /\ [][StackNext]_stackVars
=============================================================================
