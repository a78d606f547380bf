------------------------- MODULE NetkitLifecycleProofs -------------------------
(***************************************************************************)
(* netkit-ipv6 proved for any number of processes.                         *)
(***************************************************************************)
EXTENDS NetkitLifecycle, TLAPS

(* What NetkitInv says of one process. *)
Own(p) ==
  /\ DefersMatch(p) /\ HandsMatch(p) /\ PairMatches(p) /\ LinksMatch(p)
  /\ Upped(p) => primary[p] = p /\ peer[p] = p
  /\ \A e \in Ends : p \in attached[e] => pair = p
  /\ pc[p] = "ended" /\ ~spoiled[p] => pair # p

LEMMA InvIsOwn == TypeOK /\ (\A p \in Procs : Own(p)) <=> NetkitInv
<1> USE ProcsAssumption DEF Ends
<1>1. ASSUME TypeOK, \A p \in Procs : Own(p)
      PROVE  NetkitInv
  <2>1. InspectsOwnPair
    BY <1>1 DEF Own, InspectsOwnPair, TypeOK
  <2>2. EndsClean
    BY <1>1 DEF Own, EndsClean, TypeOK
  <2>3. PairsMatch
    BY <1>1 DEF Own, PairsMatch
  <2> QED
    BY <1>1, <2>1, <2>2, <2>3 DEF NetkitInv, Own
<1>2. ASSUME NetkitInv, NEW p \in Procs
      PROVE  Own(p)
  BY <1>2 DEF NetkitInv, Own, TypeOK, PairsMatch, EndsClean, InspectsOwnPair
<1> QED
  BY <1>1, <1>2 DEF NetkitInv

LEMMA InitInv == Init => NetkitInv
<1> USE ProcsAssumption DEF Init, Ends, NoHook
<1> SUFFICES ASSUME Init
             PROVE  TypeOK /\ \A p \in Procs : Own(p)
  BY InvIsOwn
<1>1. TypeOK
  BY DEF TypeOK, Calls
<1>2. ASSUME NEW p \in Procs
      PROVE  Own(p)
  BY DEF Own, DefersMatch, HandsMatch, PairMatches, LinksMatch, Made, Past,
         Upped, Upped2, Fitted, Fitted2, Loaded, Hooked, Hooked2, Reads
<1> QED
  BY <1>1, <1>2

-----------------------------------------------------------------------------
(* The steps of process p, and what they leave of Own, for p itself and    *)
(* for every other process.                                                *)
LEMMA SuccessKeepsOwn ==
  ASSUME TypeOK, NEW p \in Procs, Succeeds(p), NEW q \in Procs, Own(q)
  PROVE  TypeOK' /\ Own(q)'
<1> USE ProcsAssumption
    DEF Ends, Defers, kernelVars, Own, DefersMatch, HandsMatch, PairMatches,
        LinksMatch, Made, Past, Upped, Upped2, Fitted, Fitted2, Loaded, Hooked,
        Hooked2, Reads
<1>1. CASE RemoveMemlock(p)
  <2>1. TypeOK'
    BY <1>1 DEF TypeOK, Calls, RemoveMemlock, Goes
  <2>2. Own(q)'
    BY <1>1 DEF TypeOK, RemoveMemlock, Goes
  <2> QED
    BY <2>1, <2>2
<1>2. CASE LinkAdd(p)
  <2>1. TypeOK'
    BY <1>2 DEF TypeOK, Calls, LinkAdd, Goes, Defer, NoHook
  <2>2. Own(q)'
    BY <1>2 DEF TypeOK, LinkAdd, Goes, Defer, NoHook
  <2> QED
    BY <2>1, <2>2
<1>3. CASE LinkByName(p)
  <2>1. TypeOK'
    BY <1>3 DEF TypeOK, Calls, LinkByName, Goes
  <2>2. Own(q)'
    BY <1>3 DEF TypeOK, LinkByName, Goes
  <2> QED
    BY <2>1, <2>2
<1>4. CASE SetUpPrimary(p)
  <2>1. TypeOK'
    BY <1>4 DEF TypeOK, Calls, SetUpPrimary, SetUp, Goes
  <2>2. Own(q)'
    BY <1>4 DEF TypeOK, SetUpPrimary, SetUp, Goes
  <2> QED
    BY <2>1, <2>2
<1>5. CASE SetUpPeer(p)
  <2>1. TypeOK'
    BY <1>5 DEF TypeOK, Calls, SetUpPeer, SetUp, Goes
  <2>2. Own(q)'
    BY <1>5 DEF TypeOK, SetUpPeer, SetUp, Goes
  <2> QED
    BY <2>1, <2>2
<1>6. CASE ConfigurePrimary(p)
  <2>1. TypeOK'
    BY <1>6 DEF TypeOK, Calls, ConfigurePrimary, AssignLinkLocal, Goes
  <2>2. Own(q)'
    BY <1>6 DEF TypeOK, ConfigurePrimary, AssignLinkLocal, Goes
  <2> QED
    BY <2>1, <2>2
<1>7. CASE ConfigurePeer(p)
  <2>1. TypeOK'
    BY <1>7 DEF TypeOK, Calls, ConfigurePeer, AssignLinkLocal, Goes
  <2>2. Own(q)'
    BY <1>7 DEF TypeOK, ConfigurePeer, AssignLinkLocal, Goes
  <2> QED
    BY <2>1, <2>2
<1>8. CASE LoadObjects(p)
  <2>1. TypeOK'
    BY <1>8 DEF TypeOK, Calls, LoadObjects, Goes, Defer
  <2>2. Own(q)'
    BY <1>8 DEF TypeOK, LoadObjects, Goes, Defer
  <2> QED
    BY <2>1, <2>2
<1>9. CASE AttachPrimary(p)
  <2>1. TypeOK'
    BY <1>9 DEF TypeOK, Calls, AttachPrimary, Attach, Goes, Defer
  <2>2. Own(q)'
    BY <1>9 DEF TypeOK, AttachPrimary, Attach, Goes, Defer
  <2> QED
    BY <2>1, <2>2
<1>10. CASE AttachPeer(p)
  <2>1. TypeOK'
    BY <1>10 DEF TypeOK, Calls, AttachPeer, Attach, Goes, Defer
  <2>2. Own(q)'
    BY <1>10 DEF TypeOK, AttachPeer, Attach, Goes, Defer
  <2> QED
    BY <2>1, <2>2
<1>11. CASE NewReader(p)
  <2>1. TypeOK'
    BY <1>11 DEF TypeOK, Calls, NewReader, Goes, Defer
  <2>2. Own(q)'
    BY <1>11 DEF TypeOK, NewReader, Goes, Defer
  <2> QED
    BY <2>1, <2>2
<1>12. CASE NotifyContext(p)
  <2>1. TypeOK'
    BY <1>12 DEF TypeOK, Calls, NotifyContext, Goes, Defer
  <2>2. Own(q)'
    BY <1>12 DEF TypeOK, NotifyContext, Goes, Defer
  <2> QED
    BY <2>1, <2>2
<1>13. CASE Done(p)
  <2>1. TypeOK'
    BY <1>13 DEF TypeOK, Calls, Done, Goes
  <2>2. Own(q)'
    BY <1>13 DEF TypeOK, Done, Goes
  <2> QED
    BY <2>1, <2>2
<1> QED
   BY <1>1, <1>2, <1>3, <1>4, <1>5, <1>6, <1>7, <1>8, <1>9, <1>10, <1>11, <1>12, <1>13
     DEF Succeeds

LEMMA StopKeepsOwn ==
  ASSUME TypeOK, NEW p \in Procs, NEW q \in Procs, Own(q),
         CallFails(p) \/ Exit(p) \/ Crash(p) \/ Signal(p)
  PROVE  TypeOK' /\ Own(q)'
<1> USE ProcsAssumption
    DEF Ends, Defers, kernelVars, Own, DefersMatch, HandsMatch, PairMatches,
        LinksMatch, Made, Past, Upped, Upped2, Fitted, Fitted2, Loaded, Hooked,
        Hooked2, Reads
<1>1. CASE CallFails(p)
  <2>1. TypeOK'
    BY <1>1 DEF TypeOK, CallFails, Calls
  <2>2. Own(q)'
    BY <1>1 DEF TypeOK, CallFails, Calls
  <2> QED
    BY <2>1, <2>2
<1>2. CASE Exit(p)
  <2>1. TypeOK'
    BY <1>2 DEF TypeOK, Exit, Goes
  <2>2. Own(q)'
    BY <1>2 DEF TypeOK, Exit, Goes
  <2> QED
    BY <2>1, <2>2
<1>3. CASE Die(p)
  <2>1. TypeOK'
    BY <1>3 DEF TypeOK, Die
  <2>2. Own(q)'
    BY <1>3 DEF TypeOK, Die
  <2> QED
    BY <2>1, <2>2
<1>4. CASE /\ ctx' = [ctx EXCEPT ![p] = "done"]
           /\ UNCHANGED <<kernelVars, pc, primary, peer, deferred, spoiled>>
  <2>1. TypeOK'
    BY <1>4 DEF TypeOK
  <2>2. Own(q)'
    BY <1>4
  <2> QED
    BY <2>1, <2>2
<1> QED
  BY <1>1, <1>2, <1>3, <1>4 DEF Crash, Signal

(* A deferred call that runs is the newest of those that are pending.      *)
LEMMA RanksOfDefers ==
  /\ Pushed["pair"] = 1 /\ Pushed["objs"] = 2 /\ Pushed["primaryLink"] = 3
  /\ Pushed["peerLink"] = 4 /\ Pushed["rd"] = 5 /\ Pushed["cancel"] = 6
BY DEF Pushed, Defers

LEMMA UnwindKeepsOwn ==
  ASSUME TypeOK, NEW p \in Procs, Unwind(p), NEW q \in Procs, Own(q), Own(p)
  PROVE  TypeOK' /\ Own(q)'
<1> USE ProcsAssumption
    DEF Ends, Defers, kernelVars, Own, DefersMatch, HandsMatch, PairMatches,
        LinksMatch, Made, Past, Upped, Upped2, Fitted, Fitted2, Loaded, Hooked,
        Hooked2, Reads
<1>1. PICK d \in deferred[p] :
        /\ \A e \in deferred[p] : Pushed[e] <= Pushed[d]
        /\ deferred' = [deferred EXCEPT ![p] = @ \ {d}]
        /\ Undo(p, d)
  BY DEF Unwind
<1>2. pc[p] = "unwind" /\ UNCHANGED <<pc, primary, peer>>
  BY DEF Unwind
<1>3. d \in Defers
  BY DEF TypeOK
<1>4. ctx' \in [Procs -> {"default", "waiting", "done"}]
  BY <1>1 DEF TypeOK, Undo
<1>5. CASE d = "pair"
  <2>1. deferred[p] = {"pair"}
    BY <1>1, <1>5, RanksOfDefers DEF TypeOK
  <2>2. Delete(p)
    BY <1>1, <1>5 DEF Undo
  <2>3. TypeOK'
    <3>1. deferred' \in [Procs -> SUBSET Defers]
      BY <1>1 DEF TypeOK
    <3>2. TypeOK' \/ ~UNCHANGED <<kernelVars, spoiled>>
      BY <1>2, <1>4, <3>1 DEF TypeOK
    <3>3. TypeOK' \/ ~(PairGone /\ UNCHANGED spoiled)
      BY <1>2, <1>4, <3>1 DEF TypeOK, PairGone, NoHook
    <3>4. TypeOK' \/ ~(spoiled' = [spoiled EXCEPT ![p] = TRUE] /\ UNCHANGED kernelVars)
      BY <1>2, <1>4, <3>1 DEF TypeOK
    <3> QED
      BY <2>2, <3>2, <3>3, <3>4 DEF Delete
  <2>4. Own(q)'
    BY <1>1, <1>2, <1>5, <2>1, <2>2 DEF TypeOK, Delete, PairGone, NoHook
  <2> QED
    BY <2>3, <2>4
<1>6. CASE d = "primaryLink" \/ d = "peerLink"
  <2>1. PICK end \in Ends : Detach(p, end) /\ d = IF end = "peer" THEN "peerLink" ELSE "primaryLink"
    BY <1>1, <1>6 DEF Undo
  <2>2. TypeOK'
    BY <1>1, <1>2, <1>4, <2>1 DEF TypeOK, Detach
  <2>3. Own(q)'
    BY <1>1, <1>2, <2>1 DEF TypeOK, Detach
  <2> QED
    BY <2>2, <2>3
<1>7. CASE d \in {"objs", "rd", "cancel"}
  <2>1. UNCHANGED <<kernelVars, spoiled>>
    BY <1>1, <1>7 DEF Undo
  <2>2. TypeOK'
    BY <1>1, <1>2, <1>4, <2>1 DEF TypeOK
  <2>3. Own(q)'
    BY <1>1, <1>2, <1>7, <2>1 DEF TypeOK
  <2> QED
    BY <2>2, <2>3
<1> QED
  BY <1>3, <1>5, <1>6, <1>7

LEMMA HandKeepsOwn ==
  ASSUME TypeOK, DeletedByHand, NEW q \in Procs, Own(q)
  PROVE  TypeOK' /\ Own(q)'
<1> USE ProcsAssumption
    DEF Ends, Defers, procVars, DeletedByHand, PairGone, NoHook
<1>1. TypeOK'
  BY DEF TypeOK
<1>2. Own(q)'
  BY DEF Own, DefersMatch, HandsMatch, PairMatches, LinksMatch, Made, Past,
         Upped, Upped2, Fitted, Fitted2, Loaded, Hooked, Hooked2, Reads
<1> QED
  BY <1>1, <1>2

LEMMA StutterKeepsOwn ==
  ASSUME TypeOK, UNCHANGED vars, NEW q \in Procs, Own(q)
  PROVE  TypeOK' /\ Own(q)'
BY DEF vars, kernelVars, procVars, TypeOK, Own, DefersMatch, HandsMatch,
       PairMatches, LinksMatch, Made, Past, Upped, Upped2, Fitted, Fitted2,
       Loaded, Hooked, Hooked2, Reads

LEMMA NextKeepsInv == NetkitInv /\ [Next]_vars => NetkitInv'
<1> SUFFICES ASSUME NetkitInv, [Next]_vars
             PROVE  NetkitInv'
  OBVIOUS
<1>1. TypeOK /\ \A q \in Procs : Own(q)
  BY InvIsOwn
<1>2. TypeOK' /\ \A q \in Procs : Own(q)'
  <2>1. ASSUME NEW p \in Procs, Succeeds(p)
        PROVE  TypeOK' /\ \A q \in Procs : Own(q)'
    BY <1>1, <2>1, SuccessKeepsOwn
  <2>2. ASSUME NEW p \in Procs, CallFails(p) \/ Exit(p) \/ Crash(p) \/ Signal(p)
        PROVE  TypeOK' /\ \A q \in Procs : Own(q)'
    BY <1>1, <2>2, StopKeepsOwn
  <2>3. ASSUME NEW p \in Procs, Unwind(p)
        PROVE  TypeOK' /\ \A q \in Procs : Own(q)'
    BY <1>1, <2>3, UnwindKeepsOwn
  <2>4. CASE DeletedByHand
    <3>1. ASSUME NEW q \in Procs
          PROVE  TypeOK' /\ Own(q)'
      BY <1>1, <2>4, HandKeepsOwn
    <3>2. TypeOK'
      BY <2>4, <1>1 DEF TypeOK, DeletedByHand, PairGone, NoHook, procVars
    <3> QED
      BY <3>1, <3>2
  <2>5. CASE UNCHANGED vars
    <3>1. ASSUME NEW q \in Procs
          PROVE  Own(q)'
      BY <1>1, <2>5, StutterKeepsOwn
    <3>2. TypeOK'
      BY <2>5, <1>1 DEF TypeOK, vars, kernelVars, procVars
    <3> QED
      BY <3>1, <3>2
  <2> QED
    BY <2>1, <2>2, <2>3, <2>4, <2>5 DEF Next, RunStep
<1>3. InspectsOwnPair' /\ EndsClean'
  BY <1>2 DEF Own, InspectsOwnPair, EndsClean, TypeOK, Ends
<1>4. PairsMatch'
  BY <1>2 DEF Own, PairsMatch
<1> QED
  BY <1>2, <1>3, <1>4 DEF NetkitInv, Own

-----------------------------------------------------------------------------
(* Whatever calls fail, whoever is killed and whatever is deleted by hand, *)
(* calls, deferred calls and kernel agree (main.go:31-120).                *)
THEOREM InvHolds == Spec => []NetkitInv
BY InitInv, NextKeepsInv, PTL DEF Spec

(* CreatePair hands out two ends of the pair it made (netkit.go:59-72).    *)
THEOREM ReturnsMatchedPair == Spec => []PairsMatch
BY InvHolds, PTL DEF NetkitInv

(* A program is attached to no pair but its own process's (main.go:66-82). *)
THEOREM NeverInspectsAnother == Spec => []InspectsOwnPair
BY InvHolds, PTL DEF NetkitInv

(* A process that ends of itself leaves nothing behind (netkit.go:50-56).  *)
THEOREM LeavesNothing == Spec => []EndsClean
BY InvHolds, PTL DEF NetkitInv

(* A process serves its pair complete or not at all (main.go:37-86).       *)
THEOREM ServesCompletePair == Spec => []ServesWhole
<1>1. NetkitInv => ServesWhole
  <2> SUFFICES ASSUME NetkitInv, NEW p \in Procs, pc[p] = "serving", pair = p
               PROVE  up = Ends /\ addressed = Ends /\ \A e \in Ends : p \in attached[e]
    BY DEF ServesWhole
  <2> USE DEF PairMatches, Past, Upped, Upped2, Fitted, Fitted2, Loaded, Hooked, Hooked2
  <2>1. PairMatches(p) /\ up \subseteq Ends /\ addressed \subseteq Ends
    BY DEF NetkitInv, TypeOK
  <2>2. "primary" \in up /\ "peer" \in up
    BY <2>1
  <2>3. "primary" \in addressed /\ "peer" \in addressed
    BY <2>1
  <2>4. p \in attached["primary"] /\ p \in attached["peer"]
    BY <2>1
  <2> QED
    BY <2>1, <2>2, <2>3, <2>4 DEF Ends
<1> QED
  BY <1>1, InvHolds, PTL

-----------------------------------------------------------------------------
(* A step of p is a step of no other process, and leaves the pair of       *)
(* another alone.                                                          *)
LEMMA StepsApart ==
  ASSUME TypeOK, NEW p \in Procs, RunStep(p) \/ Crash(p) \/ Signal(p), Own(p)
  PROVE  /\ \A q \in Procs \ {p} : pc'[q] = pc[q] /\ deferred'[q] = deferred[q]
         /\ pair \notin {p, NoPair} => UNCHANGED <<pair, up, addressed>>
<1> USE DEF TypeOK, kernelVars
<1>1. CASE RemoveMemlock(p)
  BY <1>1 DEF RemoveMemlock, Goes
<1>2. CASE LinkAdd(p)
  BY <1>2 DEF LinkAdd, Goes, Defer
<1>3. CASE LinkByName(p)
  BY <1>3 DEF LinkByName, Goes
<1>4. CASE SetUpPrimary(p)
  BY <1>4 DEF SetUpPrimary, SetUp, Goes, Own, HandsMatch, Made, Upped, Past
<1>5. CASE SetUpPeer(p)
  BY <1>5 DEF SetUpPeer, SetUp, Goes, Own, HandsMatch, Made, Upped, Past
<1>6. CASE ConfigurePrimary(p)
   BY <1>6 DEF ConfigurePrimary, AssignLinkLocal, Goes, Own, HandsMatch, Made, Upped,
              Past
<1>7. CASE ConfigurePeer(p)
  BY <1>7 DEF ConfigurePeer, AssignLinkLocal, Goes, Own, HandsMatch, Made, Upped, Past
<1>8. CASE LoadObjects(p)
  BY <1>8 DEF LoadObjects, Goes, Defer
<1>9. CASE AttachPrimary(p)
  BY <1>9 DEF AttachPrimary, Attach, Ends, Goes, Defer
<1>10. CASE AttachPeer(p)
  BY <1>10 DEF AttachPeer, Attach, Ends, Goes, Defer
<1>11. CASE NewReader(p)
  BY <1>11 DEF NewReader, Goes, Defer
<1>12. CASE NotifyContext(p)
  BY <1>12 DEF NotifyContext, Goes, Defer
<1>13. CASE Done(p)
  BY <1>13 DEF Done, Goes
<1>14. CASE CallFails(p)
  BY <1>14 DEF CallFails
<1>15. CASE Exit(p)
  BY <1>15 DEF Exit, Goes
<1>16. CASE Die(p)
  BY <1>16 DEF Die
<1>17. CASE Unwind(p)
  <2>1. PICK d \in deferred[p] : deferred' = [deferred EXCEPT ![p] = @ \ {d}] /\ Undo(p, d)
    BY <1>17 DEF Unwind
  <2>2. pc' = pc
    BY <1>17 DEF Unwind
  <2>3. d \in Defers
    OBVIOUS
  <2>4. pair \notin {p, NoPair} => UNCHANGED <<pair, up, addressed>>
    <3>1. CASE d = "pair"
      BY <2>1, <3>1 DEF Undo, Delete, Own, HandsMatch
    <3>2. CASE d # "pair"
      BY <2>1, <2>3, <3>2 DEF Undo, Detach, Defers
    <3> QED
      BY <3>1, <3>2
  <2> QED
    BY <2>1, <2>2, <2>4
<1>18. CASE ctx[p] = "waiting" /\ Signal(p)
  BY <1>18 DEF Signal
<1> QED
   BY <1>1, <1>2, <1>3, <1>4, <1>5, <1>6, <1>7, <1>8, <1>9, <1>10, <1>11, <1>12, <1>13,
     <1>14, <1>15, <1>16, <1>17, <1>18 DEF RunStep, Succeeds, Crash, Signal

(* No process changes the pair of another (netkit.go:46-72, 84-99).        *)
THEOREM SparesOtherPairs == Spec => LeavesOthersAlone
<1> DEFINE Spares ==
      \A p \in Procs :
        <<pc[p], deferred[p]>>' # <<pc[p], deferred[p]>> /\ pair \notin {p, NoPair}
          => UNCHANGED <<pair, up, addressed>>
<1>1. NetkitInv /\ [Next]_vars => [Spares]_vars
  <2> SUFFICES ASSUME NetkitInv, Next,
                      NEW q \in Procs, pair \notin {q, NoPair},
                      <<pc[q], deferred[q]>>' # <<pc[q], deferred[q]>>
               PROVE  UNCHANGED <<pair, up, addressed>>
    OBVIOUS
  <2>1. TypeOK /\ \A p \in Procs : Own(p)
    BY InvIsOwn
  <2>2. PICK p \in Procs : RunStep(p) \/ Crash(p) \/ Signal(p)
    BY DEF Next, DeletedByHand, procVars
  <2>3. p = q
    BY <2>1, <2>2, StepsApart
  <2> QED
    BY <2>1, <2>2, <2>3, StepsApart
<1> QED
  BY <1>1, InvHolds, PTL DEF Spec, LeavesOthersAlone


-----------------------------------------------------------------------------
(* What is held is given back from the top: NetkitLifecycle implements     *)
(* ResourceStack.  A step in which one process changes what it holds.      *)
Alone(p) ==
  \A q \in Procs \ {p} : HeldBy(q)' = HeldBy(q) /\ Closing(q)' = Closing(q)

LEMMA StackStep ==
  ASSUME NEW p \in Procs, Alone(p), HeldBy(p) \in SUBSET Defers,
         \/ HeldBy(p)' = HeldBy(p)
         \/ /\ Closing(p)' = Closing(p)
            /\ \E d \in Defers :
                 \/ /\ ~Closing(p) /\ HeldBy(p)' = HeldBy(p) \cup {d}
                    /\ \A s \in HeldBy(p) : Pushed[s] < Pushed[d]
                 \/ /\ Closing(p) /\ d \in HeldBy(p) /\ HeldBy(p)' = HeldBy(p) \ {d}
                    /\ \A s \in HeldBy(p) : Pushed[s] <= Pushed[d]
         \/ Closing(p)' /\ HeldBy(p)' = HeldBy(p) \cap {"pair"}
         \/ /\ Closing(p)' = Closing(p)
            /\ HeldBy(p)' = HeldBy(p) \ {"pair", "primaryLink", "peerLink"},
         Closing(p) => Closing(p)'
  PROVE  [Stack!StackNext]_(Stack!stackVars)
<1> DEFINE h == [q \in Procs |-> HeldBy(q)]
           c == [q \in Procs |-> Closing(q)]
<1>1. h' = [h EXCEPT ![p] = HeldBy(p)'] /\ h[p] = HeldBy(p)
  BY DEF Alone
<1>2. c' = [c EXCEPT ![p] = Closing(p)'] /\ c[p] = Closing(p)
  BY DEF Alone
<1>3. Closing(p) \in BOOLEAN /\ Closing(p)' \in BOOLEAN
  BY DEF Closing
<1>4. c' = c \/ Closing(p)' = TRUE
  BY <1>2, <1>3
<1>5. CASE HeldBy(p)' = HeldBy(p)
  <2>1. h' = h
    BY <1>1, <1>5
  <2>2. c' = c \/ c' = [c EXCEPT ![p] = TRUE]
    BY <1>2, <1>4
  <2> QED
    BY <2>1, <2>2 DEF Stack!StackNext, Stack!Close, Stack!stackVars
<1>6. CASE Closing(p)' = Closing(p)
  <2>1. c' = c
    BY <1>2, <1>6
  <2>2. ASSUME NEW d \in Defers, ~Closing(p), HeldBy(p)' = HeldBy(p) \cup {d},
               \A s \in HeldBy(p) : Pushed[s] < Pushed[d]
        PROVE  Stack!Acquire(p, d)
    BY <1>1, <1>2, <2>1, <2>2 DEF Stack!Acquire
  <2>3. ASSUME NEW d \in Defers, Closing(p), d \in HeldBy(p),
               HeldBy(p)' = HeldBy(p) \ {d},
               \A s \in HeldBy(p) : Pushed[s] <= Pushed[d]
        PROVE  Stack!Release(p, d)
    BY <1>1, <1>2, <2>1, <2>3 DEF Stack!Release
  <2>4. ASSUME HeldBy(p)' = HeldBy(p) \ {"pair", "primaryLink", "peerLink"}
        PROVE  Stack!Vanish(p)
    BY <1>1, <2>1, <2>4 DEF Stack!Vanish
  <2>5. ASSUME Closing(p)', HeldBy(p)' = HeldBy(p) \cap {"pair"}
        PROVE  Stack!Kill(p)
    <3>1. c' = [c EXCEPT ![p] = TRUE]
      BY <1>2, <1>3, <2>5
    <3> QED
      BY <1>1, <2>5, <3>1 DEF Stack!Kill
  <2> QED
    BY <1>5, <2>2, <2>3, <2>4, <2>5 DEF Stack!StackNext
<1>7. CASE Closing(p)' /\ HeldBy(p)' = HeldBy(p) \cap {"pair"}
  <2>1. c' = [c EXCEPT ![p] = TRUE]
    BY <1>2, <1>3, <1>7
  <2>2. Stack!Kill(p)
    BY <1>1, <1>7, <2>1 DEF Stack!Kill
  <2> QED
    BY <2>2 DEF Stack!StackNext
<1> QED
  BY <1>5, <1>6, <1>7

LEMMA HeldIsSet == \A p : HeldBy(p) \in SUBSET Defers
BY DEF HeldBy, Defers

LEMMA SuccessIsStackStep ==
  ASSUME TypeOK, NEW p \in Procs, Succeeds(p), \A q \in Procs : Own(q)
  PROVE  [Stack!StackNext]_(Stack!stackVars)
<1> USE ProcsAssumption DEF TypeOK, kernelVars
<1>1. Alone(p)
  <2> SUFFICES ASSUME NEW q \in Procs \ {p}
               PROVE  HeldBy(q)' = HeldBy(q) /\ Closing(q)' = Closing(q)
    BY DEF Alone
  <2>1. pc'[q] = pc[q] /\ deferred'[q] = deferred[q]
    BY StepsApart DEF RunStep
  <2>2. (pair' = q) = (pair = q)
    BY DEF Succeeds, RemoveMemlock, LinkAdd, LinkByName, SetUpPrimary, SetUpPeer,
           SetUp, ConfigurePrimary, ConfigurePeer, AssignLinkLocal, LoadObjects,
           AttachPrimary, AttachPeer, Attach, NewReader, NotifyContext, Done
  <2>3. \A e \in Ends : (q \in attached'[e]) = (q \in attached[e])
    <3>1. CASE LinkAdd(p)
      BY <3>1 DEF LinkAdd, NoHook, Own
    <3>2. CASE ~LinkAdd(p)
      BY <3>2 DEF Succeeds, RemoveMemlock, LinkByName, SetUpPrimary, SetUpPeer,
           SetUp, ConfigurePrimary, ConfigurePeer, AssignLinkLocal, LoadObjects,
           AttachPrimary, AttachPeer, Attach, NewReader, NotifyContext, Done
    <3> QED
      BY <3>1, <3>2
  <2> QED
    BY <2>1, <2>2, <2>3 DEF HeldBy, Closing, Ends
<1>2. HeldBy(p) \in SUBSET Defers
  BY HeldIsSet
<1>3. Own(p)
  OBVIOUS
<1>4. Closing(p) => Closing(p)'
  BY DEF Succeeds, RemoveMemlock, LinkAdd, LinkByName, SetUpPrimary, SetUpPeer,
         SetUp, ConfigurePrimary, ConfigurePeer, AssignLinkLocal, LoadObjects,
         AttachPrimary, AttachPeer, Attach, NewReader, NotifyContext, Done, Goes, Closing
<1>5. CASE RemoveMemlock(p)
  <2>1. HeldBy(p)' = HeldBy(p)
    BY <1>5 DEF RemoveMemlock, Goes, HeldBy
  <2> QED
    BY <1>1, <1>2, <1>4, <2>1, StackStep
<1>6. CASE LinkByName(p)
  <2>1. HeldBy(p)' = HeldBy(p)
    BY <1>6 DEF LinkByName, Goes, HeldBy
  <2> QED
    BY <1>1, <1>2, <1>4, <2>1, StackStep
<1>7. CASE SetUpPrimary(p)
  <2>1. HeldBy(p)' = HeldBy(p)
    BY <1>7 DEF SetUpPrimary, SetUp, Goes, HeldBy
  <2> QED
    BY <1>1, <1>2, <1>4, <2>1, StackStep
<1>8. CASE SetUpPeer(p)
  <2>1. HeldBy(p)' = HeldBy(p)
    BY <1>8 DEF SetUpPeer, SetUp, Goes, HeldBy
  <2> QED
    BY <1>1, <1>2, <1>4, <2>1, StackStep
<1>9. CASE ConfigurePrimary(p)
  <2>1. HeldBy(p)' = HeldBy(p)
    BY <1>9 DEF ConfigurePrimary, AssignLinkLocal, Goes, HeldBy
  <2> QED
    BY <1>1, <1>2, <1>4, <2>1, StackStep
<1>10. CASE ConfigurePeer(p)
  <2>1. HeldBy(p)' = HeldBy(p)
    BY <1>10 DEF ConfigurePeer, AssignLinkLocal, Goes, HeldBy
  <2> QED
    BY <1>1, <1>2, <1>4, <2>1, StackStep
<1>11. CASE Done(p)
  <2>1. HeldBy(p)' = HeldBy(p)
    BY <1>11 DEF Done, Goes, HeldBy
  <2> QED
    BY <1>1, <1>2, <1>4, <2>1, StackStep
<1>12. CASE LinkAdd(p)
  <2>1. HeldBy(p)' = HeldBy(p) \cup {"pair"}
    <3>1. deferred[p] = {} /\ p \notin attached["primary"] /\ p \notin attached["peer"]
      BY <1>12, <1>3 DEF LinkAdd, Goes, Own, LinksMatch, DefersMatch, Made, Past
    <3>2. HeldBy(p) = {}
      BY <1>12, <3>1 DEF LinkAdd, HeldBy
    <3>3. HeldBy(p)' = {"pair"}
      BY <1>12, <3>1 DEF LinkAdd, Defer, NoHook, HeldBy, Ends
    <3> QED
      BY <3>2, <3>3
  <2>2. \A s \in HeldBy(p) : Pushed[s] < Pushed["pair"]
     BY <1>12, <1>3, RanksOfDefers DEF LinkAdd, Goes, Defer, NoHook, HeldBy, Own,
                                      LinksMatch, DefersMatch,
         HandsMatch, Made, Past, Loaded, Hooked, Hooked2, Reads
  <2>3. ~Closing(p) /\ Closing(p)' = Closing(p)
    BY <1>12 DEF LinkAdd, Goes, Closing
  <2> QED
    BY <1>1, <1>2, <1>4, <2>1, <2>2, <2>3, StackStep DEF Defers
<1>13. CASE LoadObjects(p)
  <2>1. HeldBy(p)' = HeldBy(p) \cup {"objs"}
     BY <1>13, <1>3 DEF LoadObjects, Goes, Defer, HeldBy, Own, LinksMatch, DefersMatch,
                       Made, Past,
         Loaded, Hooked, Hooked2, Reads
  <2>2. \A s \in HeldBy(p) : Pushed[s] < Pushed["objs"]
     BY <1>13, <1>3, RanksOfDefers DEF LoadObjects, Goes, Defer, HeldBy, Own,
                                      LinksMatch, DefersMatch,
         HandsMatch, Made, Past, Loaded, Hooked, Hooked2, Reads
  <2>3. ~Closing(p) /\ Closing(p)' = Closing(p)
    BY <1>13 DEF LoadObjects, Goes, Closing
  <2> QED
    BY <1>1, <1>2, <1>4, <2>1, <2>2, <2>3, StackStep DEF Defers
<1>14. CASE AttachPrimary(p)
  <2>1. HeldBy(p)' = HeldBy(p) \cup {"primaryLink"}
     BY <1>14, <1>3 DEF AttachPrimary, Attach, Ends, Goes, Defer, HeldBy, Own,
                       LinksMatch, DefersMatch, Made, Past,
         Loaded, Hooked, Hooked2, Reads
  <2>2. \A s \in HeldBy(p) : Pushed[s] < Pushed["primaryLink"]
     BY <1>14, <1>3, RanksOfDefers DEF AttachPrimary, Attach, Ends, Goes, Defer, HeldBy,
                                      Own, LinksMatch, DefersMatch,
         HandsMatch, Made, Past, Loaded, Hooked, Hooked2, Reads
  <2>3. ~Closing(p) /\ Closing(p)' = Closing(p)
    BY <1>14 DEF AttachPrimary, Goes, Closing
  <2> QED
    BY <1>1, <1>2, <1>4, <2>1, <2>2, <2>3, StackStep DEF Defers
<1>15. CASE AttachPeer(p)
  <2>1. HeldBy(p)' = HeldBy(p) \cup {"peerLink"}
     BY <1>15, <1>3 DEF AttachPeer, Attach, Ends, Goes, Defer, HeldBy, Own, LinksMatch,
                       DefersMatch, Made, Past,
         Loaded, Hooked, Hooked2, Reads
  <2>2. \A s \in HeldBy(p) : Pushed[s] < Pushed["peerLink"]
     BY <1>15, <1>3, RanksOfDefers DEF AttachPeer, Attach, Ends, Goes, Defer, HeldBy,
                                      Own, LinksMatch, DefersMatch,
         HandsMatch, Made, Past, Loaded, Hooked, Hooked2, Reads
  <2>3. ~Closing(p) /\ Closing(p)' = Closing(p)
    BY <1>15 DEF AttachPeer, Goes, Closing
  <2> QED
    BY <1>1, <1>2, <1>4, <2>1, <2>2, <2>3, StackStep DEF Defers
<1>16. CASE NewReader(p)
  <2>1. HeldBy(p)' = HeldBy(p) \cup {"rd"}
     BY <1>16, <1>3 DEF NewReader, Goes, Defer, HeldBy, Own, LinksMatch, DefersMatch,
                       Made, Past,
         Loaded, Hooked, Hooked2, Reads
  <2>2. \A s \in HeldBy(p) : Pushed[s] < Pushed["rd"]
     BY <1>16, <1>3, RanksOfDefers DEF NewReader, Goes, Defer, HeldBy, Own, LinksMatch,
                                      DefersMatch,
         HandsMatch, Made, Past, Loaded, Hooked, Hooked2, Reads
  <2>3. ~Closing(p) /\ Closing(p)' = Closing(p)
    BY <1>16 DEF NewReader, Goes, Closing
  <2> QED
    BY <1>1, <1>2, <1>4, <2>1, <2>2, <2>3, StackStep DEF Defers
<1>17. CASE NotifyContext(p)
  <2>1. HeldBy(p)' = HeldBy(p) \cup {"cancel"}
     BY <1>17, <1>3 DEF NotifyContext, Goes, Defer, HeldBy, Own, LinksMatch,
                       DefersMatch, Made, Past,
         Loaded, Hooked, Hooked2, Reads
  <2>2. \A s \in HeldBy(p) : Pushed[s] < Pushed["cancel"]
     BY <1>17, <1>3, RanksOfDefers DEF NotifyContext, Goes, Defer, HeldBy, Own,
                                      LinksMatch, DefersMatch,
         HandsMatch, Made, Past, Loaded, Hooked, Hooked2, Reads
  <2>3. ~Closing(p) /\ Closing(p)' = Closing(p)
    BY <1>17 DEF NotifyContext, Goes, Closing
  <2> QED
    BY <1>1, <1>2, <1>4, <2>1, <2>2, <2>3, StackStep DEF Defers
<1> QED
   BY <1>5, <1>6, <1>7, <1>8, <1>9, <1>10, <1>11, <1>12, <1>13, <1>14, <1>15, <1>16,
     <1>17 DEF Succeeds

LEMMA StopIsStackStep ==
  ASSUME TypeOK, NEW p \in Procs, CallFails(p) \/ Exit(p) \/ Crash(p) \/ Signal(p)
  PROVE  [Stack!StackNext]_(Stack!stackVars)
<1> USE DEF TypeOK, kernelVars
<1>1. HeldBy(p) \in SUBSET Defers
  BY HeldIsSet
<1>2. CASE CallFails(p) \/ Exit(p)
  <2>1. Alone(p) /\ HeldBy(p)' = HeldBy(p) /\ (Closing(p) => Closing(p)')
    BY <1>2 DEF CallFails, Exit, Goes, Alone, HeldBy, Closing, Calls
  <2> QED
    BY <1>1, <2>1, StackStep
<1>3. CASE Die(p)
  <2>1. Alone(p) /\ Closing(p)'
    BY <1>3 DEF Die, Alone, HeldBy, Closing, Ends
  <2>2. HeldBy(p)' = HeldBy(p) \cap {"pair"}
    BY <1>3 DEF Die, HeldBy, Ends
  <2> QED
    BY <1>1, <2>1, <2>2, StackStep
<1>4. CASE UNCHANGED <<kernelVars, pc, primary, peer, deferred, spoiled>>
  <2>1. Alone(p) /\ HeldBy(p)' = HeldBy(p) /\ (Closing(p) => Closing(p)')
    BY <1>4 DEF Alone, HeldBy, Closing
  <2> QED
    BY <1>1, <2>1, StackStep
<1> QED
  BY <1>2, <1>3, <1>4 DEF Crash, Signal

LEMMA UnwindIsStackStep ==
  ASSUME TypeOK, NEW p \in Procs, Unwind(p), \A q \in Procs : Own(q)
  PROVE  [Stack!StackNext]_(Stack!stackVars)
<1> USE ProcsAssumption DEF TypeOK, kernelVars
<1>1. PICK d \in deferred[p] :
        /\ \A e \in deferred[p] : Pushed[e] <= Pushed[d]
        /\ deferred' = [deferred EXCEPT ![p] = @ \ {d}]
        /\ Undo(p, d)
  BY DEF Unwind
<1>2. pc[p] = "unwind" /\ pc' = pc /\ Own(p) /\ d \in Defers
  BY DEF Unwind
<1>3. Closing(p) /\ Closing(p)' = Closing(p)
  BY <1>2 DEF Closing
<1>4. Pushed["pair"] <= Pushed[d]
  BY <1>2, RanksOfDefers DEF Defers
<1>5. \A s \in HeldBy(p) : Pushed[s] <= Pushed[d]
  <2> TAKE s \in HeldBy(p)
  <2>1. s \in deferred[p] \/ s = "pair"
    BY <1>2 DEF HeldBy, Own, LinksMatch
  <2> QED
    BY <1>1, <1>4, <2>1
<1>6. Alone(p)
  <2> SUFFICES ASSUME NEW q \in Procs \ {p}
               PROVE  HeldBy(q)' = HeldBy(q) /\ Closing(q)' = Closing(q)
    BY DEF Alone
  <2>1. pc'[q] = pc[q] /\ deferred'[q] = deferred[q]
    BY <1>1, <1>2
  <2>2. (pair' = q) = (pair = q) /\ \A e \in Ends : (q \in attached'[e]) = (q \in attached[e])
    <3>1. CASE d = "pair"
      BY <1>1, <1>2, <3>1
         DEF Undo, Delete, PairGone, NoHook, Own, HandsMatch
    <3>2. CASE d # "pair"
      BY <1>1, <1>2, <3>2 DEF Undo, Detach, Defers
    <3> QED
      BY <3>1, <3>2
  <2> QED
    BY <2>1, <2>2 DEF HeldBy, Closing, Ends
<1>7. HeldBy(p)' = HeldBy(p) \/ (d \in HeldBy(p) /\ HeldBy(p)' = HeldBy(p) \ {d})
  <2>1. CASE d = "pair"
    <3>1. deferred[p] = {"pair"} /\ deferred'[p] = {}
      BY <1>1, <2>1, RanksOfDefers DEF Defers
    <3>2. p \notin attached["primary"] /\ p \notin attached["peer"]
      BY <1>2, <3>1 DEF Own, LinksMatch
    <3>3. HeldBy(p) = {e \in {"pair"} : pair = p}
      BY <3>1, <3>2 DEF HeldBy
    <3>4. p \notin attached'["primary"] /\ p \notin attached'["peer"]
      BY <1>1, <2>1, <3>2 DEF Undo, Delete, PairGone, NoHook, Ends
    <3>5. HeldBy(p)' = {e \in {"pair"} : pair' = p}
      BY <3>1, <3>4 DEF HeldBy
    <3>6. pair' = pair \/ (pair = p /\ pair' # p)
      BY <1>1, <1>2, <2>1 DEF Undo, Delete, PairGone, Own, HandsMatch
    <3> QED
      BY <2>1, <3>3, <3>5, <3>6
  <2>2. CASE d = "primaryLink"
    BY <1>1, <2>2 DEF Undo, Detach, HeldBy, Ends
  <2>3. CASE d = "peerLink"
    BY <1>1, <2>3 DEF Undo, Detach, HeldBy, Ends
  <2>4. CASE d \in {"objs", "rd", "cancel"}
    BY <1>1, <2>4 DEF Undo, HeldBy
  <2> QED
    BY <1>2, <2>1, <2>2, <2>3, <2>4 DEF Defers
<1>8. HeldBy(p) \in SUBSET Defers
  BY HeldIsSet
<1> QED
  BY <1>2, <1>3, <1>5, <1>6, <1>7, <1>8, StackStep

LEMMA HandIsStackStep ==
  ASSUME TypeOK, DeletedByHand, \A q \in Procs : Own(q)
  PROVE  [Stack!StackNext]_(Stack!stackVars)
<1> USE ProcsAssumption DEF TypeOK, DeletedByHand, PairGone, NoHook, procVars, Ends
<1>1. pair \in Procs /\ HeldBy(pair) \in SUBSET Defers
  BY HeldIsSet
<1> DEFINE p == pair
<1>2. \A q \in Procs : Closing(q)' = Closing(q)
  BY DEF Closing
<1>3. \A q \in Procs \ {p} : q \notin attached["primary"] /\ q \notin attached["peer"]
  BY DEF Own
<1>4. ASSUME NEW q \in Procs \ {p}
      PROVE  HeldBy(q)' = HeldBy(q)
  BY <1>3 DEF HeldBy
<1>5. ASSUME NEW q \in Procs
      PROVE  HeldBy(q)' = deferred[q] \cap {"objs", "rd", "cancel"}
  BY DEF HeldBy
<1>6. PICK q \in Procs : q = pair
  BY <1>1
<1>7. HeldBy(q) \ {"pair", "primaryLink", "peerLink"}
        = deferred[q] \cap {"objs", "rd", "cancel"}
  BY DEF HeldBy
<1>8. HeldBy(q)' = HeldBy(q) \ {"pair", "primaryLink", "peerLink"}
  BY <1>5, <1>7
<1>9. Alone(q)
  BY <1>2, <1>4, <1>6 DEF Alone
<1> QED
  BY <1>2, <1>8, <1>9, HeldIsSet, StackStep

(* "All resources are cleaned up via `defer` statements in reverse         *)
(* creation order" (netkit-ipv6/README.md:135), for whatever is there to clean up.     *)
THEOREM ImplementsStack == Spec => ReleasesInReverse
<1>1. Init => Stack!StackInit
  <2> SUFFICES ASSUME Init
               PROVE  Stack!StackInit
    OBVIOUS
  <2>1. ASSUME NEW p \in Procs
        PROVE  HeldBy(p) = {} /\ Closing(p) = FALSE
    BY ProcsAssumption DEF Init, HeldBy, Closing, NoHook, Ends
  <2> QED
    BY <2>1 DEF Stack!StackInit
<1>2. NetkitInv /\ [Next]_vars => [Stack!StackNext]_(Stack!stackVars)
  <2> SUFFICES ASSUME NetkitInv, [Next]_vars
               PROVE  [Stack!StackNext]_(Stack!stackVars)
    OBVIOUS
  <2>1. TypeOK /\ \A q \in Procs : Own(q)
    BY InvIsOwn
  <2>2. ASSUME NEW p \in Procs, Succeeds(p)
        PROVE  [Stack!StackNext]_(Stack!stackVars)
    BY <2>1, <2>2, SuccessIsStackStep
  <2>3. ASSUME NEW p \in Procs, CallFails(p) \/ Exit(p) \/ Crash(p) \/ Signal(p)
        PROVE  [Stack!StackNext]_(Stack!stackVars)
    BY <2>1, <2>3, StopIsStackStep
  <2>4. ASSUME NEW p \in Procs, Unwind(p)
        PROVE  [Stack!StackNext]_(Stack!stackVars)
    BY <2>1, <2>4, UnwindIsStackStep
  <2>5. ASSUME DeletedByHand
        PROVE  [Stack!StackNext]_(Stack!stackVars)
    BY <2>1, <2>5, HandIsStackStep
  <2>6. ASSUME UNCHANGED vars
        PROVE  UNCHANGED Stack!stackVars
    BY <2>6 DEF vars, kernelVars, procVars, Stack!stackVars, HeldBy, Closing
  <2> QED
    BY <2>2, <2>3, <2>4, <2>5, <2>6 DEF Next, RunStep
<1> QED
  BY <1>1, <1>2, InvHolds, PTL DEF Spec, ReleasesInReverse, Stack!StackSpec
====
