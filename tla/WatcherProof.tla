--------------------------- MODULE WatcherProof ---------------------------
(***************************************************************************)
(* Theorems about Watcher, for any number of watchers and clients, any     *)
(* files, edits and faults, and any bounds.                                *)
(***************************************************************************)
EXTENDS Watcher, BlockerProof

USE WatchersAssumption, RestartsAssumption

(* A watcher changes the files and calls of Blocker by Blocker's own steps *)
(* only: starting, calling reapplyBlock and ending.                        *)
LEMMA StepSimulation == [WNext]_wvars => [Next]_vars
<1> SUFFICES ASSUME [WNext]_wvars PROVE [Next]_vars
  OBVIOUS
<1>1. ASSUME NEW w \in Watchers, WatcherStep(w) PROVE [Next]_vars
  <2>1. CASE Exit(w)
    BY <2>1 DEF Next, Environment
  <2>2. CASE ReapplyBlock(w)
    BY <2>2 DEF Next, CallStep
  <2>3. Exit(w) \/ ReapplyBlock(w) \/ UNCHANGED vars
    BY <1>1 DEF WatcherStep, Check, Verify, Repair, RepairFailed, TakeTime, NoTime, GiveUp,
                LookForPeer, StartPeer, NoPeer
  <2>4. QED
    BY <2>1, <2>2, <2>3
<1>2. ASSUME NEW p \in Process \ Watchers, Client(p) PROVE [Next]_vars
  BY <1>2 DEF Client, Next, WriterStep, Environment
<1>3. CASE Surroundings
  BY <1>3 DEF Surroundings, StartWatcher, PeerChanges, Next, Environment
<1>4. CASE UNCHANGED wvars
  BY <1>4 DEF wvars
<1>5. QED
  BY <1>1, <1>2, <1>3, <1>4 DEF WNext

(* What Blocker promises holds with watchers beside it: every behaviour of *)
(* the two together is one of Blocker.                                     *)
THEOREM WatchersImplementBlocker == WSpec => Spec
<1>1. WInit => Init
  BY DEF WInit
<1>2. QED
  BY <1>1, StepSimulation, PTL DEF WSpec, Spec

---------------------------------------------------------------------------
LEMMA OverType ==
  ASSUME WTypeOK, NEW victims \in SUBSET Process, Over(victims)
  PROVE  /\ wstage' \in [Watchers -> WStages] /\ modified' \in [Watchers -> BOOLEAN]
         /\ peer' \in [Watchers -> Peers] /\ restarts' \in [Watchers -> 0..MaxRestarts]
         /\ missed' \in [Watchers -> BOOLEAN]
         /\ \A w \in Watchers : IF w \in victims THEN wstage'[w] = "off"
                                ELSE /\ wstage'[w] = wstage[w]
                                     /\ modified'[w] = modified[w] /\ missed'[w] = missed[w]
  BY DEF Over, WTypeOK, WStages, Peers

LEMMA EndedPc ==
  ASSUME NEW victims \in SUBSET Process, Terminated(victims)
  PROVE  \A q \in Process : pc'[q] = IF q \in victims THEN "dead" ELSE pc[q]
  BY DEF Terminated

LEMMA ExitKeeps ==
  ASSUME NEW p \in Process, Exit(p)
  PROVE  Terminated({p}) /\ hosts' = hosts
  BY DEF Exit, files

(* reapplyBlock returns at once to a watcher, which has no list.           *)
LEMMA ReapplyKeeps ==
  ASSUME TypeOK, NEW p \in Process, domains[p] = <<>>, ReapplyBlock(p)
  PROVE  /\ hosts' = hosts /\ pc' = pc /\ domains' = domains
         /\ result'[p] = "intact" => Blocked(hosts)
<1> USE DEF ReapplyBlock, Call, TypeOK
<1>1. hosts' = hosts /\ pc[p] = "idle"
  OBVIOUS
<1>2. CASE Finished(p, "intact") /\ Blocked(hosts)
  BY <1>1, <1>2 DEF Finished
<1>3. CASE EnterApply(p)
  <2>1. Finished(p, "failed")
    BY <1>3 DEF EnterApply
  <2>2. pc' = [pc EXCEPT ![p] = pc[p]]
    BY <1>1, <2>1 DEF Finished
  <2>3. domains' = domains /\ result'[p] = "failed"
    BY <2>1 DEF Finished
  <2>4. QED
    BY <1>1, <2>2, <2>3
<1>4. \E blocked \in IsBlocked :
        IF blocked THEN Finished(p, "intact") ELSE EnterApply(p)
  OBVIOUS
<1>5. \A blocked \in IsBlocked : blocked => Blocked(hosts)
  BY DEF IsBlocked, Blocked
<1>6. QED
  BY <1>2, <1>3, <1>4, <1>5

---------------------------------------------------------------------------
(* NothingSlips is not inductive: what the look found must still be there  *)
(* when the time is taken.                                                 *)
Guarded(w) == wstage[w] = "stamp" \/ (wstage[w] # "off" /\ ~modified[w])

SlipInv == \A w \in Watchers : Guarded(w) /\ ~missed[w] => Blocked(hosts)

WInv == TypeInv /\ WTypeOK /\ SlipInv

LEMMA WInitInv == WInit => WInv
  BY TypeInit DEF WInit, Init, WInv, TypeInv, WTypeOK, WStages, Peers, SlipInv, Guarded

LEMMA WNextInv == WInv /\ [WNext]_wvars => WInv'
<1> SUFFICES ASSUME WInv, [WNext]_wvars PROVE WInv'
  OBVIOUS
<1> USE DEF WInv, WTypeOK
<1>0. TypeInv'
  BY StepSimulation, TypeNext
<1>t. TypeOK' /\ TypeOK
  BY <1>0 DEF TypeInv
(* The end of processes keeps whatever the others know.                    *)
<1>o. ASSUME NEW victims \in SUBSET Process, Terminated(victims), Over(victims), hosts' = hosts
      PROVE  WInv'
  <2>1. domains' = domains
    BY <1>o DEF Terminated
  <2>2. \A w \in Watchers : pc'[w] = (IF wstage'[w] = "off" THEN "dead" ELSE "idle")
    <3> SUFFICES ASSUME NEW w \in Watchers
                 PROVE  pc'[w] = (IF wstage'[w] = "off" THEN "dead" ELSE "idle")
      OBVIOUS
    <3>1. pc'[w] = IF w \in victims THEN "dead" ELSE pc[w]
      BY <1>o, EndedPc
    <3>2. IF w \in victims THEN wstage'[w] = "off" ELSE wstage'[w] = wstage[w]
      BY <1>o, OverType
    <3>3. pc[w] = (IF wstage[w] = "off" THEN "dead" ELSE "idle")
      OBVIOUS
    <3>4. QED
      BY <3>1, <3>2, <3>3
  <2>3. SlipInv'
    BY <1>o, OverType DEF SlipInv, Guarded
  <2>4. QED
    BY <1>o, <1>0, <1>t, <2>1, <2>2, <2>3, OverType
<1>e. ASSUME NEW w \in Watchers, NEW from, GiveUp(w, from) PROVE WInv'
  BY <1>e, <1>o, ExitKeeps DEF GiveUp
(* A step of a watcher that leaves Blocker alone.                          *)
<1>1. ASSUME NEW w \in Watchers, WatcherStep(w) PROVE WInv'
  <2> USE DEF Step, WStages
  <2>u. UNCHANGED vars => UNCHANGED <<hosts, pc, domains>>
    BY DEF vars, files, locals
  <2>1. CASE Check(w)
    <3>1. CASE NoTime(w, "check")
      BY <3>1, <1>e DEF NoTime
    <3>2. CASE ~NoTime(w, "check")
      BY <2>1, <3>2, <2>u, <1>0, <1>t DEF Check, SlipInv, Guarded
    <3>3. QED
      BY <3>1, <3>2
  <2>2. CASE Verify(w)
    <3>1. \A blocked \in IsBlocked : blocked => Blocked(hosts)
      BY DEF IsBlocked, Blocked
    <3>2. PICK blocked \in IsBlocked : Looked(w, "verify", blocked, "repair")
      BY <2>2 DEF Verify
    <3>3. UNCHANGED <<hosts, pc, domains>>
      BY <2>2, <2>u DEF Verify
    <3>4. QED
      BY <3>1, <3>2, <3>3, <1>0, <1>t DEF Looked, SlipInv, Guarded
  <2>3. CASE Repair(w)
    <3>1. UNCHANGED <<hosts, pc, domains>> /\ (result'[w] = "intact" => Blocked(hosts))
      BY <2>3, <1>t, ReapplyKeeps DEF Repair
    <3>2. QED
      BY <2>3, <3>1, <1>0, <1>t DEF Repair, Looked, SlipInv, Guarded
  <2>4. CASE RepairFailed(w)
    BY <2>4, <1>e DEF RepairFailed
  <2>5. CASE TakeTime(w)
    <3>1. CASE NoTime(w, "stamp")
      BY <3>1, <1>e DEF NoTime
    <3>2. CASE ~NoTime(w, "stamp")
      BY <2>5, <3>2, <2>u, <1>0, <1>t DEF TakeTime, SlipInv, Guarded
    <3>3. QED
      BY <3>1, <3>2
  <2>6. CASE LookForPeer(w)
    BY <2>6, <2>u, <1>0, <1>t DEF LookForPeer, SlipInv, Guarded, Peers
  <2>7. CASE StartPeer(w)
    BY <2>7, <2>u, <1>0, <1>t DEF StartPeer, SlipInv, Guarded
  <2>8. CASE NoPeer(w)
    BY <2>8, <2>u, <1>0, <1>t DEF NoPeer, SlipInv, Guarded
  <2>9. QED
    BY <1>1, <2>1, <2>2, <2>3, <2>4, <2>5, <2>6, <2>7, <2>8 DEF WatcherStep
(* A write of the hosts file makes every watcher look again.               *)
<1>w. ASSUME Written, \A w \in Watchers : pc'[w] = pc[w] /\ domains'[w] = domains[w]
      PROVE  WInv'
  BY <1>w, <1>0, <1>t DEF Written, SlipInv, Guarded, WStages
<1>s. ASSUME UNCHANGED watching, hosts' = hosts,
             \A w \in Watchers : pc'[w] = pc[w] /\ domains'[w] = domains[w]
      PROVE  WInv'
  BY <1>s, <1>0, <1>t DEF watching, SlipInv, Guarded
<1>c. ASSUME NEW p \in Process \ Watchers, CallStep(p) \/ ProgramStep(p)
      PROVE  hosts' = hosts /\ \A w \in Watchers : pc'[w] = pc[w] /\ domains'[w] = domains[w]
  BY <1>c, <1>t, CallLocal DEF Untouched
<1>2. ASSUME NEW p \in Process \ Watchers, Client(p) PROVE WInv'
  <2> USE DEF TypeOK, files, locals, history
  <2>1. CASE (CallStep(p) \/ ProgramStep(p)) /\ UNCHANGED watching
    BY <2>1, <1>s, <1>c
  <2>2. CASE (HwOpenFails(p) \/ HwCopyFails(p)) /\ UNCHANGED watching
    BY <2>2, <1>s DEF HwOpenFails, HwCopyFails, HwEnds
  <2>3. CASE (HwOpen(p) \/ HwCopyLine(p) \/ HwDone(p)) /\ Written
    BY <2>3, <1>w DEF HwOpen, HwCopyLine, HwDone, HwEnds
  <2>4. CASE StartInstance(p) /\ UNCHANGED watching
    BY <2>4, <1>s, <1>t DEF StartInstance, Goto
  <2>5. CASE Exit(p) /\ UNCHANGED watching
    <3>1. Terminated({p}) /\ hosts' = hosts
      BY <2>5, ExitKeeps
    <3>2. \A w \in Watchers : pc'[w] = pc[w]
      <4>1. {p} \in SUBSET Process
        OBVIOUS
      <4>2. \A q \in Process : pc'[q] = IF q \in {p} THEN "dead" ELSE pc[q]
        BY <3>1, <4>1, EndedPc
      <4>3. QED
        BY <4>2
    <3>3. domains' = domains
      BY <3>1 DEF Terminated
    <3>4. QED
      BY <2>5, <3>1, <3>2, <3>3, <1>s
  <2>6. QED
    BY <1>2, <2>1, <2>2, <2>3, <2>4, <2>5 DEF Client
<1>3. CASE Surroundings
  <2> USE DEF files, locals, history
  <2>1. ASSUME NEW w \in Watchers, NEW q \in Peers, StartWatcher(w, q) PROVE WInv'
    <3>1. hosts' = hosts
      BY <2>1 DEF StartWatcher, StartInstance
    <3>2. \A v \in Watchers : /\ pc'[v] = IF v = w THEN "idle" ELSE pc[v]
                              /\ domains'[v] = <<>>
      BY <2>1, <1>t DEF StartWatcher, StartInstance, Goto, TypeOK
    <3>3. WTypeOK'
      BY <2>1, <3>2, <1>t DEF StartWatcher, Step, WStages
    <3>4. SlipInv'
      BY <2>1, <3>1 DEF StartWatcher, Step, SlipInv, Guarded
    <3>5. QED
      BY <3>3, <3>4, <1>0
  <2>2. ASSUME NEW w \in Watchers, NEW from \in Peers, NEW to \in Peers, PeerChanges(w, from, to)
        PROVE  WInv'
    BY <2>2, <1>0, <1>t DEF PeerChanges, vars, SlipInv, Guarded
  <2>3. ASSUME NEW p \in Process, Kill(p), Over({p}) PROVE WInv'
    BY <2>3, <1>o DEF Kill
  <2>4. CASE Reboot /\ Over(Process)
    BY <2>4, <1>o DEF Reboot
  <2>5. ASSUME NEW f \in EditFiles, UserEdit(f), Written PROVE WInv'
    BY <2>5, <1>w DEF UserEdit
  <2>6. QED
    BY <1>3, <2>1, <2>2, <2>3, <2>4, <2>5 DEF Surroundings, Peers
<1>4. CASE UNCHANGED wvars
  BY <1>4, <1>s DEF wvars, vars, files, locals
<1>5. QED
  BY <1>1, <1>2, <1>3, <1>4 DEF WNext

(* The variables of a watcher keep their types, it never has a list, and   *)
(* no call of its Blocker gets past the first check.                       *)
THEOREM WatcherTypeCorrect == WSpec => []WTypeOK
<1>1. WInv => WTypeOK
  BY DEF WInv
<1>2. QED
  BY WInitInv, WNextInv, <1>1, PTL DEF WSpec

(* A watcher that sees no change stands before a file with a block, unless *)
(* a write fell between its look and its taking of the time, or the file   *)
(* had no block when the watcher started.                                  *)
THEOREM NothingSlipsHolds == WSpec => []NothingSlips
<1>1. WInv => NothingSlips
  BY DEF WInv, SlipInv, Guarded, NothingSlips, Running
<1>2. QED
  BY WInitInv, WNextInv, <1>1, PTL DEF WSpec

(* Watchers beside the instances take nothing from what those guarantee of *)
(* the hosts file.                                                         *)
THEOREM WatchersKeepIntegrity == WSpec => []BlockIntegrity
  BY WatchersImplementBlocker, IntegrityHolds, PTL

(* Beside any number of watchers too the temporary file goes away, whose   *)
(* repairs use the same one.                                               *)
THEOREM WatchersLeaveNoTemp == WSpec => []NoTempLeft
  BY WatchersImplementBlocker, NoTempLeftHolds, PTL
==========================================================================
