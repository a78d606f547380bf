----------------------------- MODULE HookPrograms -----------------------------
(***************************************************************************)
(* NetkitEvents, IpCounter and TraceKills, side by side.  They have        *)
(* nothing to do with one another, so that in each behaviour one of them   *)
(* runs and the others have yet to be started.                             *)
(***************************************************************************)
EXTENDS NetkitEvents, IpCounter, TraceKills

VARIABLE program   \* the one that runs

vars == <<program, evVars, counterVars, killVars>>

Init ==
  /\ EventsInit /\ CounterInit /\ KillsInit
  /\ program \in {"netkit-ipv6", "ip-counter", "trace-kills"}

Next ==
  /\ UNCHANGED program
  /\ \/ /\ program = "netkit-ipv6" /\ EventsNext
        /\ UNCHANGED <<counterVars, killVars>>
     \/ /\ program = "ip-counter" /\ CounterNext
        /\ UNCHANGED <<evVars, killVars>>
     \/ /\ program = "trace-kills" /\ KillsNext
        /\ UNCHANGED <<evVars, counterVars>>

(* What each program may count on when it is the one that runs.            *)
Fairness ==
  /\ program = "netkit-ipv6" => EventsFairness
  /\ program = "ip-counter" => CounterFairness

Spec == Init /\ [][Next]_vars /\ Fairness

HooksTypeOK == EventsTypeOK /\ CounterTypeOK /\ KillsTypeOK

(* What each of the two loaders holds it gives back from the top.          *)
LoadersReleaseInReverse == CounterStack!StackSpec /\ LoaderStack!StackSpec
=============================================================================
