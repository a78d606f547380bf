--------------------------- MODULE NetkitLifecycle ---------------------------
(***************************************************************************)
(* netkit-ipv6 from start to end: run call by call, each of which may      *)
(* fail, the deferred calls that undo them, signals, crashes, and other    *)
(* processes of the same program that want a pair of the same name.        *)
(*                                                                         *)
(* A pair is named by the process that made it, which stands for the two   *)
(* interface indices: every call of the program but one uses the index.    *)
(* LinkByName alone goes by the name, and finds whatever pair has it now.  *)
(* The kernel is external: of the pair it keeps which end is up, which has *)
(* an address, and whose programs are attached.  Deleting the pair takes   *)
(* all of it; the end of a process detaches its programs, and only them.   *)
(***************************************************************************)
EXTENDS Integers, FiniteSets

CONSTANTS
  Procs,    \* the processes of the program, each of which runs once
  NoPair    \* no interface of that name

ASSUME ProcsAssumption == NoPair \notin Procs

VARIABLES
  pair,       \* whose pair it is that has the name now, or NoPair
  up,         \* the ends of that pair that are up
  addressed,  \* the ends that were given an address
  attached,   \* attached[e]: the processes whose program is attached to end e
  pc,         \* pc[p]: the next call of p's run
  primary,    \* primary[p], peer[p]: the interfaces that CreatePair has in hand
  peer,
  deferred,   \* deferred[p]: the deferred calls that have still to run
  ctx,        \* ctx[p]: what a signal does to p, and whether one has come
  spoiled     \* spoiled[p]: p was killed, or could not delete its pair

kernelVars == <<pair, up, addressed, attached>>
procVars   == <<pc, primary, peer, deferred, ctx>>
vars       == <<kernelVars, procVars, spoiled>>

Ends   == {"primary", "peer"}
NoHook == [e \in Ends |-> {}]

(* The deferred calls, by the order in which they are pushed.  The ranks   *)
(* of cleanupPrimary's deletion and of run's are one: while the first is   *)
(* pending the second is not, and both delete the primary interface.       *)
Defers == {"pair", "objs", "primaryLink", "peerLink", "rd", "cancel"}
Pushed == [d \in Defers |->
             CASE d = "pair" -> 1 [] d = "objs" -> 2 [] d = "primaryLink" -> 3
               [] d = "peerLink" -> 4 [] d = "rd" -> 5 [] d = "cancel" -> 6]

(* The calls of run, and of what it calls. *)
Calls == {"memlock", "add", "findPeer", "upPrimary", "upPeer", "addrPrimary",
          "addrPeer", "load", "attachPrimary", "attachPeer", "reader"}

Init ==
  /\ pair = NoPair /\ up = {} /\ addressed = {} /\ attached = NoHook
  /\ pc = [p \in Procs |-> "memlock"]
  /\ primary = [p \in Procs |-> NoPair] /\ peer = [p \in Procs |-> NoPair]
  /\ deferred = [p \in Procs |-> {}]
  /\ ctx = [p \in Procs |-> "default"]
  /\ spoiled = [p \in Procs |-> FALSE]

-----------------------------------------------------------------------------
(* run, CreatePair and ConfigureIPv6LinkLocal, when all goes well *)

Goes(p, here, there) == pc[p] = here /\ pc' = [pc EXCEPT ![p] = there]
Defer(p, d)          == deferred' = [deferred EXCEPT ![p] = @ \cup {d}]

RemoveMemlock(p) ==
  /\ Goes(p, "memlock", "add")
  /\ UNCHANGED <<kernelVars, primary, peer, deferred, ctx, spoiled>>

(* Mutation: a pair that has the name already will do. *)
LinkAddOrAdopt(p) ==
  /\ Goes(p, "add", "findPeer")
  /\ IF pair = NoPair
       THEN pair' = p /\ up' = {} /\ addressed' = {} /\ attached' = NoHook
       ELSE UNCHANGED kernelVars
  /\ primary' = [primary EXCEPT ![p] = pair']
  /\ Defer(p, "pair")
  /\ UNCHANGED <<peer, ctx, spoiled>>

(* Mutation: the cleanup is deferred only when the peer has been found. *)
LinkAddNoCleanup(p) ==
  /\ pair = NoPair
  /\ Goes(p, "add", "findPeer")
  /\ pair' = p /\ up' = {} /\ addressed' = {} /\ attached' = NoHook
  /\ primary' = [primary EXCEPT ![p] = p]
  /\ UNCHANGED <<peer, deferred, ctx, spoiled>>

(* The kernel refuses a second interface of the name. *)
LinkAdd(p) ==
  /\ pair = NoPair
  /\ Goes(p, "add", "findPeer")
  /\ pair' = p /\ up' = {} /\ addressed' = {} /\ attached' = NoHook
  /\ primary' = [primary EXCEPT ![p] = p]
  /\ Defer(p, "pair")
  /\ UNCHANGED <<peer, ctx, spoiled>>

LinkByName(p) ==
  /\ pair # NoPair
  /\ Goes(p, "findPeer", "upPrimary")
  /\ peer' = [peer EXCEPT ![p] = pair]
  /\ UNCHANGED <<kernelVars, primary, deferred, ctx, spoiled>>

SetUp(p, end, link) ==
  /\ pair = link
  /\ up' = up \cup {end}
  /\ UNCHANGED <<pair, addressed, attached, primary, peer, deferred, ctx, spoiled>>

(* Mutation: an error of the primary is not looked at. *)
SetUpPrimaryUnchecked(p) ==
  /\ Goes(p, "upPrimary", "upPeer")
  /\ IF pair = primary[p] THEN up' = up \cup {"primary"} ELSE UNCHANGED up
  /\ UNCHANGED <<pair, addressed, attached, primary, peer, deferred, ctx, spoiled>>

SetUpPrimary(p) == Goes(p, "upPrimary", "upPeer") /\ SetUp(p, "primary", primary[p])

(* Mutation: the primary is brought up twice. *)
SetUpPrimaryAgain(p) == Goes(p, "upPeer", "addrPrimary") /\ SetUp(p, "primary", primary[p])

SetUpPeer(p) == Goes(p, "upPeer", "addrPrimary") /\ SetUp(p, "peer", peer[p])

AssignLinkLocal(p, end, link) ==
  /\ pair = link
  /\ addressed' = addressed \cup {end}
  /\ UNCHANGED <<pair, up, attached, primary, peer, deferred, ctx, spoiled>>

ConfigurePrimary(p) ==
  Goes(p, "addrPrimary", "addrPeer") /\ AssignLinkLocal(p, "primary", primary[p])
ConfigurePeer(p) ==
  Goes(p, "addrPeer", "load") /\ AssignLinkLocal(p, "peer", peer[p])

LoadObjects(p) ==
  /\ Goes(p, "load", "attachPrimary") /\ Defer(p, "objs")
  /\ UNCHANGED <<kernelVars, primary, peer, ctx, spoiled>>

(* Both programs are attached by way of the primary's index. *)
Attach(p, end) ==
  /\ pair = primary[p]
  /\ attached' = [attached EXCEPT ![end] = @ \cup {p}]
  /\ UNCHANGED <<pair, up, addressed, primary, peer, ctx, spoiled>>

AttachPrimary(p) ==
  /\ Goes(p, "attachPrimary", "attachPeer")
  /\ Attach(p, "primary") /\ Defer(p, "primaryLink")

AttachPeer(p) ==
  /\ Goes(p, "attachPeer", "reader")
  /\ Attach(p, "peer") /\ Defer(p, "peerLink")

NewReader(p) ==
  /\ Goes(p, "reader", "notify") /\ Defer(p, "rd")
  /\ UNCHANGED <<kernelVars, primary, peer, ctx, spoiled>>

NotifyContext(p) ==
  /\ Goes(p, "notify", "serving") /\ Defer(p, "cancel")
  /\ ctx' = [ctx EXCEPT ![p] = "waiting"]
  /\ UNCHANGED <<kernelVars, primary, peer, spoiled>>

(* Any call may fail, and some must: then run returns. *)
CallFails(p) ==
  /\ pc[p] \in Calls
  /\ pc' = [pc EXCEPT ![p] = "unwind"]
  /\ UNCHANGED <<kernelVars, primary, peer, deferred, ctx, spoiled>>

Done(p) ==
  /\ ctx[p] = "done"
  /\ Goes(p, "serving", "unwind")
  /\ UNCHANGED <<kernelVars, primary, peer, deferred, ctx, spoiled>>

-----------------------------------------------------------------------------
(* The deferred calls *)

Detach(p, end) ==
  /\ attached' = [attached EXCEPT ![end] = @ \ {p}]
  /\ UNCHANGED <<pair, up, addressed, spoiled>>

PairGone == pair' = NoPair /\ up' = {} /\ addressed' = {} /\ attached' = NoHook

(* Mutation: the pair is deleted by its name. *)
DeleteByName(p) ==
  \/ pair # NoPair /\ PairGone /\ UNCHANGED spoiled
  \/ pair = NoPair /\ UNCHANGED <<kernelVars, spoiled>>

(* Mutation: an interface that is not found is waited for. *)
DeleteFound(p) == pair = primary[p] /\ PairGone /\ UNCHANGED spoiled

(* Delete, and LinkDel of CreatePair.  Nobody looks at their error; that   *)
(* the interface is gone already is none.                                  *)
Delete(p) ==
  \/ pair = primary[p] /\ PairGone /\ UNCHANGED spoiled
  \/ pair = primary[p] /\ spoiled' = [spoiled EXCEPT ![p] = TRUE] /\ UNCHANGED kernelVars
  \/ pair # primary[p] /\ UNCHANGED <<kernelVars, spoiled>>

(* cancel stops the relaying of signals: the next one kills. *)
Undo(p, d) ==
  /\ CASE d = "peerLink"    -> Detach(p, "peer")
       [] d = "primaryLink" -> Detach(p, "primary")
       [] d = "pair"        -> Delete(p)
       [] OTHER             -> UNCHANGED <<kernelVars, spoiled>>
  /\ ctx' = IF d = "cancel" THEN [ctx EXCEPT ![p] = "default"] ELSE ctx

(* Mutation: the deferred calls run in the order they were pushed in. *)
UnwindOldest(p) ==
  /\ pc[p] = "unwind"
  /\ \E d \in deferred[p] :
       /\ \A e \in deferred[p] : Pushed[d] <= Pushed[e]
       /\ deferred' = [deferred EXCEPT ![p] = @ \ {d}]
       /\ Undo(p, d)
  /\ UNCHANGED <<pc, primary, peer>>

Unwind(p) ==
  /\ pc[p] = "unwind"
  /\ \E d \in deferred[p] :
       /\ \A e \in deferred[p] : Pushed[e] <= Pushed[d]
       /\ deferred' = [deferred EXCEPT ![p] = @ \ {d}]
       /\ Undo(p, d)
  /\ UNCHANGED <<pc, primary, peer>>

Exit(p) ==
  /\ deferred[p] = {}
  /\ Goes(p, "unwind", "ended")
  /\ UNCHANGED <<kernelVars, primary, peer, deferred, ctx, spoiled>>

-----------------------------------------------------------------------------
(* What comes from outside *)

(* Nothing deferred runs; the kernel closes the descriptors. *)
Die(p) ==
  /\ pc[p] # "ended"
  /\ pc' = [pc EXCEPT ![p] = "ended"]
  /\ deferred' = [deferred EXCEPT ![p] = {}]
  /\ ctx' = [ctx EXCEPT ![p] = "default"]
  /\ spoiled' = [spoiled EXCEPT ![p] = TRUE]
  /\ attached' = [e \in Ends |-> attached[e] \ {p}]
  /\ UNCHANGED <<pair, up, addressed, primary, peer>>

Crash(p) == Die(p)

(* SIGINT or SIGTERM: outside the reach of NotifyContext it kills; when    *)
(* the context is done already it does nothing.                            *)
Signal(p) ==
  \/ ctx[p] = "default" /\ Die(p)
  \/ /\ ctx[p] = "waiting"
     /\ ctx' = [ctx EXCEPT ![p] = "done"]
     /\ UNCHANGED <<kernelVars, pc, primary, peer, deferred, spoiled>>

(* Somebody else deletes the interface. *)
DeletedByHand == pair # NoPair /\ PairGone /\ UNCHANGED <<procVars, spoiled>>

-----------------------------------------------------------------------------
Succeeds(p) ==
  \/ RemoveMemlock(p)
  \/ LinkAdd(p) \/ LinkByName(p) \/ SetUpPrimary(p) \/ SetUpPeer(p)
  \/ ConfigurePrimary(p) \/ ConfigurePeer(p)
  \/ LoadObjects(p) \/ AttachPrimary(p) \/ AttachPeer(p)
  \/ NewReader(p) \/ NotifyContext(p) \/ Done(p)

RunStep(p) == Succeeds(p) \/ CallFails(p) \/ Unwind(p) \/ Exit(p)

Next == (\E p \in Procs : RunStep(p) \/ Crash(p) \/ Signal(p)) \/ DeletedByHand

(* Calls return, and a process that can go on does. *)
Fairness == \A p \in Procs : WF_vars(RunStep(p))

Spec     == Init /\ [][Next]_vars
FairSpec == Spec /\ Fairness

-----------------------------------------------------------------------------
(* Properties *)

TypeOK ==
  /\ pair \in Procs \cup {NoPair} /\ up \in SUBSET Ends /\ addressed \in SUBSET Ends
  /\ attached \in [Ends -> SUBSET Procs]
  /\ pc \in [Procs -> Calls \cup {"notify", "serving", "unwind", "ended"}]
  /\ primary \in [Procs -> Procs \cup {NoPair}]
  /\ peer \in [Procs -> Procs \cup {NoPair}]
  /\ deferred \in [Procs -> SUBSET Defers]
  /\ ctx \in [Procs -> {"default", "waiting", "done"}]
  /\ spoiled \in [Procs -> BOOLEAN]

(* run, by the calls that are behind it. *)
Past(p, calls) == pc[p] \notin calls \cup {"unwind", "ended"}

Made(p)    == Past(p, {"memlock", "add"})
Upped(p)   == Past(p, {"memlock", "add", "findPeer", "upPrimary"})
Upped2(p)  == Upped(p) /\ pc[p] # "upPeer"
Fitted(p)  == Upped2(p) /\ pc[p] # "addrPrimary"
Fitted2(p) == Fitted(p) /\ pc[p] # "addrPeer"
Loaded(p)  == pc[p] \in {"attachPrimary", "attachPeer", "reader", "notify", "serving"}
Hooked(p)  == Loaded(p) /\ pc[p] # "attachPrimary"
Hooked2(p) == Hooked(p) /\ pc[p] # "attachPeer"
Reads(p)   == pc[p] \in {"notify", "serving"}

(* CreatePair looks for the peer by name, and hands it out with a primary  *)
(* it has by index: by the time it has brought the primary up, the two are *)
(* ends of one pair, the one it made itself (netkit.go:59-72), although    *)
(* between the two calls the pair may be deleted and another process may   *)
(* make its own of the same name.                                          *)
PairsMatch == \A p \in Procs : Upped(p) => primary[p] = p /\ peer[p] = p

(* A program that serves a pair that is still there has it complete: both  *)
(* ends up and addressed, and its program at both (main.go:37-86).         *)
ServesWhole ==
  \A p \in Procs :
    pc[p] = "serving" /\ pair = p =>
      up = Ends /\ addressed = Ends /\ \A e \in Ends : p \in attached[e]

(* No process ever inspects the traffic of a pair that it did not make,    *)
(* whatever has the name by then (main.go:66-82).                          *)
InspectsOwnPair == \A e \in Ends : attached[e] \subseteq {pair}

(* A process that has ended of itself, at whatever call it failed, leaves  *)
(* neither its pair nor a program behind (netkit.go:50-56, main.go:45-93), *)
(* unless the kernel refused to delete the pair.                           *)
EndsClean ==
  \A p \in Procs : pc[p] = "ended" /\ ~spoiled[p] =>
    pair # p /\ \A e \in Ends : p \notin attached[e]

(* Whatever a process does, it does nothing to a pair of another process,  *)
(* though both go by the same name (netkit.go:46-72, 84-99; ipv6.go:13-23).*)
LeavesOthersAlone ==
  [][\A p \in Procs :
       <<pc[p], deferred[p]>>' # <<pc[p], deferred[p]>> /\ pair \notin {p, NoPair} =>
         UNCHANGED <<pair, up, addressed>>]_vars

(* The deferred calls are those of the calls that have succeeded, and when *)
(* run has returned, the older ones of them.                               *)
DefersMatch(p) ==
  /\ Made(p) \/ pc[p] = "unwind" \/ deferred[p] = {}
  /\ pc[p] # "unwind" =>
       /\ "pair" \in deferred[p] <=> Made(p)
       /\ "objs" \in deferred[p] <=> Loaded(p)
       /\ "primaryLink" \in deferred[p] <=> Hooked(p)
       /\ "peerLink" \in deferred[p] <=> Hooked2(p)
       /\ "rd" \in deferred[p] <=> Reads(p)
       /\ "cancel" \in deferred[p] <=> pc[p] = "serving"

(* A process has its own pair in hand, and nothing of a pair that was gone *)
(* before it looked for the peer.                                          *)
HandsMatch(p) ==
  /\ Made(p) \/ "pair" \in deferred[p] => primary[p] = p
  /\ pair = p => pc[p] \notin {"memlock", "add"}
  /\ pair = p /\ pc[p] = "upPrimary" => peer[p] = p

(* What a call has done to the pair lasts as long as the pair. *)
PairMatches(p) ==
  pair = p =>
    /\ Upped(p)   => "primary" \in up
    /\ Upped2(p)  => "peer" \in up
    /\ Fitted(p)  => "primary" \in addressed
    /\ Fitted2(p) => "peer" \in addressed
    /\ Hooked(p)  => p \in attached["primary"]
    /\ Hooked2(p) => p \in attached["peer"]
    /\ pc[p] = "unwind" => spoiled[p] \/ "pair" \in deferred[p]

(* A program is attached as long as its link has yet to be closed. *)
LinksMatch(p) ==
  /\ p \in attached["primary"] => "primaryLink" \in deferred[p]
  /\ p \in attached["peer"]    => "peerLink" \in deferred[p]

(* The inductive invariant: which call has succeeded, which deferred call  *)
(* is pending and what the kernel holds agree at every step, for every     *)
(* process (main.go:31-120, netkit.go:46-81).                              *)
NetkitInv ==
  /\ TypeOK /\ PairsMatch /\ InspectsOwnPair /\ EndsClean
  /\ \A p \in Procs :
       DefersMatch(p) /\ HandsMatch(p) /\ PairMatches(p) /\ LinksMatch(p)

(* "All resources are cleaned up via `defer` statements in reverse         *)
(* creation order" (netkit-ipv6/README.md:135): what the kernel really     *)
(* holds for a process is given back from the top.                         *)
HeldBy(p) ==
  (deferred[p] \cap {"objs", "rd", "cancel"})
    \cup {d \in {"pair"} : pair = p}
    \cup {d \in {"primaryLink"} : p \in attached["primary"]}
    \cup {d \in {"peerLink"} : p \in attached["peer"]}

Closing(p) == pc[p] \in {"unwind", "ended"}

Stack == INSTANCE ResourceStack
           WITH Resources <- Defers, Rank <- Pushed, Lasting <- {"pair"},
                Perishable <- {"pair", "primaryLink", "peerLink"},
                held <- [p \in Procs |-> HeldBy(p)],
                closing <- [p \in Procs |-> Closing(p)]

ReleasesInReverse == Stack!StackSpec

(* A signal that the context has taken ends the process, whatever has      *)
(* become of its pair in the meantime (main.go:116-119, netkit.go:90-94).  *)
StopsWhenSignalled == \A p \in Procs : ctx[p] = "done" ~> pc[p] = "ended"
=============================================================================
