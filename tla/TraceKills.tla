------------------------------ MODULE TraceKills ------------------------------
(***************************************************************************)
(* trace-kills: the loader, whose error paths all go through `cleanup',    *)
(* and the program at sys_enter_kill, which writes a line to the kernel's  *)
(* trace for each SIGKILL.                                                 *)
(*                                                                         *)
(* The loader sleeps for ever once it has attached the program: only a     *)
(* signal ends it, and what it holds is then closed by the kernel.         *)
(***************************************************************************)
EXTENDS Integers, Sequences

CONSTANTS
  Pids,       \* what callers of kill(2) pass as pid, negative ones included
  Signals,    \* ... and as sig
  UInt,       \* bound: an unsigned int is modulo UInt, for 2^32
  MaxKills    \* bound on the calls of kill(2)

(* A pid is a signed int, handed over in a word that is wider. *)
ASSUME KillsAssumption ==
  UInt \in Nat \ {0} /\ MaxKills \in Nat /\ Pids \subseteq -UInt .. UInt - 1

VARIABLES
  step,       \* the next call of the loader, or where it is
  objOpen,    \* the object is open
  link,       \* the variable link is not NULL
  hookedUp,   \* the program is attached to the tracepoint
  err,        \* what main returns
  kills,      \* the calls of kill(2) while the program was attached
  trace       \* the numbers in the lines of the trace

loaderVars == <<step, objOpen, link, hookedUp, err>>
killVars   == <<loaderVars, kills, trace>>

KillsInit ==
  /\ step = "open" /\ objOpen = FALSE /\ link = FALSE /\ hookedUp = FALSE
  /\ err = -1 /\ kills = <<>> /\ trace = <<>>

-----------------------------------------------------------------------------
(* kill_example.  The tracepoint hands it four words. *)

Words(pid, sig) == <<"pad", "nr", pid, sig>>

(* Mutation: struct syscalls_enter_kill_args without its first field. *)
ArgsUnpadded(ctx) == [syscall_nr |-> ctx[1], pid |-> ctx[2], sig |-> ctx[3]]

Args(ctx) == [syscall_nr |-> ctx[2], pid |-> ctx[3], sig |-> ctx[4]]

(* Mutation: %d. *)
AsPrintedSigned(n) == n

(* %u takes the low word of a long, and takes it for unsigned. *)
AsPrinted(n) == n % UInt

Kill(pid, sig) ==
  LET ctx == Args(Words(pid, sig))
  IN /\ Len(kills) < MaxKills
     /\ hookedUp
     /\ kills' = Append(kills, <<pid, sig>>)
     /\ trace' = IF ctx.sig # 9 THEN trace ELSE Append(trace, AsPrinted(ctx.pid))
     /\ UNCHANGED loaderVars

-----------------------------------------------------------------------------
(* The loader *)

To(here, there) == step = here /\ step' = there

OpenFile ==
  /\ \/ To("open", "find") /\ objOpen' = TRUE
     \/ To("open", "ended") /\ UNCHANGED objOpen
  /\ UNCHANGED <<link, hookedUp, err, kills, trace>>

FindAndLoad ==
  /\ \/ To("find", "load") \/ To("find", "destroy")
     \/ To("load", "attach") \/ To("load", "destroy")
  /\ UNCHANGED <<objOpen, link, hookedUp, err, kills, trace>>

Attach ==
  /\ \/ To("attach", "sleep") /\ link' = TRUE /\ hookedUp' = TRUE /\ err' = 0
     \/ To("attach", "destroy") /\ UNCHANGED <<link, hookedUp, err>>
  /\ UNCHANGED <<objOpen, kills, trace>>

(* bpf_link__destroy, which takes NULL for nothing to do. *)
DestroyLink ==
  /\ To("destroy", "close")
  /\ hookedUp' = (hookedUp /\ ~link)
  /\ UNCHANGED <<objOpen, link, err, kills, trace>>

CloseObject ==
  /\ To("close", "ended") /\ objOpen' = FALSE
  /\ UNCHANGED <<link, hookedUp, err, kills, trace>>

Killed ==
  /\ step # "ended" /\ step' = "ended"
  /\ objOpen' = FALSE /\ hookedUp' = FALSE
  /\ UNCHANGED <<link, err, kills, trace>>

LoaderStep == OpenFile \/ FindAndLoad \/ Attach \/ DestroyLink \/ CloseObject

KillsNext ==
  \/ \E pid \in Pids, sig \in Signals : Kill(pid, sig)
  \/ LoaderStep \/ Killed

-----------------------------------------------------------------------------
(* Properties *)

KillsTypeOK ==
  /\ step \in {"open", "find", "load", "attach", "sleep", "destroy", "close", "ended"}
  /\ objOpen \in BOOLEAN /\ link \in BOOLEAN /\ hookedUp \in BOOLEAN
  /\ err \in {-1, 0}
  /\ kills \in Seq(Pids \X Signals) /\ trace \in Seq(0 .. UInt - 1)

(* "PID 7743 is being killed!" (trace-kills/README.md:29): the lines of    *)
(* the trace name, in order, those whom a SIGKILL was sent to and nobody   *)
(* else; of a process group or of everybody, which kill(2) takes as a      *)
(* negative pid, they give the number modulo the width of an unsigned int  *)
(* (kill.c:15-19).  Line n comes of the call call[n].                      *)
TracesSigkills ==
  \E call \in [1 .. Len(trace) -> 1 .. Len(kills)] :
    /\ \A m, n \in 1 .. Len(trace) : m < n => call[m] < call[n]
    /\ \A i \in 1 .. Len(kills) :
         kills[i][2] = 9 <=> \E n \in 1 .. Len(trace) : call[n] = i
    /\ \A n \in 1 .. Len(trace) :
         LET pid == kills[call[n]][1]
         IN trace[n] = IF pid >= 0 THEN pid ELSE UInt + pid

(* On every error path the link goes before the object, and a program is   *)
(* attached only as long as its object is open (loader.c:23-53).           *)
HeldByLoader == {r \in {"obj"} : objOpen} \cup {r \in {"link"} : hookedUp}
LoaderCloses == step \in {"destroy", "close", "ended"}

LoaderStack == INSTANCE ResourceStack
  WITH Procs <- {"loader"}, Resources <- {"obj", "link"},
       Rank <- [r \in {"obj", "link"} |-> IF r = "obj" THEN 1 ELSE 2],
       Lasting <- {}, Perishable <- {},
       held <- [p \in {"loader"} |-> HeldByLoader],
       closing <- [p \in {"loader"} |-> LoaderCloses]
=============================================================================
