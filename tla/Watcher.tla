------------------------------ MODULE Watcher -----------------------------
(***************************************************************************)
(* Watcher::Run (src/src/watcher.cpp) in processes of its own, beside the  *)
(* instances that call Blocker (its clients).  A watcher has a Blocker     *)
(* that nobody gives a list; its looks at the hosts file and its call of   *)
(* reapplyBlock are steps of module Blocker.                               *)
(*                                                                         *)
(* lastWriteTime is kept as the one thing it is compared for: modified[w]  *)
(* says that it differs from the write time of the hosts file now.  Of     *)
(* peerPID is kept what the watcher can find out: whether that process     *)
(* runs, be it the peer or one that was given its id.  Run has no caller   *)
(* in the repository (wmain takes --watchdog for an unknown option), so    *)
(* what starts a watcher is outside, and a peer that a watcher starts ends *)
(* at once.                                                                *)
(***************************************************************************)
EXTENDS Blocker

CONSTANTS
  Watchers,     \* the processes that run Watcher::Run
  MaxRestarts,  \* MAX_RESTARTS: 5 in the source
  ClientCalls   \* bound: calls of Blocker made by the other processes

ASSUME WatchersAssumption == Watchers \subseteq Process
ASSUME RestartsAssumption == MaxRestarts \in Nat

VARIABLES
  wstage,     \* where each watcher is in its loop
  modified,   \* lastWriteTime is not the write time of the hosts file
  peer,       \* peerPID: "zero", or the id of a process that runs or is "gone"
  restarts,   \* restartCount
  \* Observed only:
  missed      \* the hosts file was written between the look that found the
              \* block and the taking of the time; or no look found it yet

watching == <<wstage, modified, peer, restarts, missed>>
wvars == <<vars, watching>>

WStages == {"off", "check", "verify", "repair", "stamp", "failed", "peer"}
Peers == {"zero", "runs", "gone"}
Running == {w \in Watchers : wstage[w] # "off"}

WInit ==
  /\ Init
  /\ wstage = [w \in Watchers |-> "off"]
  /\ modified = [w \in Watchers |-> FALSE]
  /\ peer = [w \in Watchers |-> "zero"]
  /\ restarts = [w \in Watchers |-> 0]
  /\ missed = [w \in Watchers |-> FALSE]

Step(w, from, to) == wstage[w] = from /\ wstage' = [wstage EXCEPT ![w] = to]

---------------------------------------------------------------------------
(* The start, and every way out of the loop.                               *)

(* Lines 49-53.  Without a fourth argument peerPID is whatever is there.   *)
(* A start with a bad role, or without a hosts file, changes nothing.      *)
StartWatcher(w, q) ==
  /\ hosts # NoFile
  /\ StartInstance(w)
  /\ Step(w, "off", "check")
  /\ modified' = [modified EXCEPT ![w] = FALSE]
  /\ peer' = [peer EXCEPT ![w] = q]
  /\ restarts' = [restarts EXCEPT ![w] = 0]
  /\ missed' = [missed EXCEPT ![w] = ~Blocked(hosts)]

(* The watchers among the victims are over.                                *)
Over(victims) ==
  /\ wstage' = [w \in Watchers |-> IF w \in victims THEN "off" ELSE wstage[w]]
  /\ modified' = [w \in Watchers |-> w \notin victims /\ modified[w]]
  /\ missed' = [w \in Watchers |-> w \notin victims /\ missed[w]]
  /\ restarts' = [w \in Watchers |-> IF w \in victims THEN 0 ELSE restarts[w]]
  /\ peer' = [w \in Watchers |-> IF w \in victims THEN "zero" ELSE peer[w]]

(* Run returns EXIT_FAILURE.                                               *)
GiveUp(w, from) == wstage[w] = from /\ Exit(w) /\ Over({w})

(* GetLastWriteTime throws.                                                *)
NoTime(w, from) == ("open" \in Faults \/ hosts = NoFile) /\ GiveUp(w, from)

---------------------------------------------------------------------------
(* MonitorHostsFile                                                        *)

Check(w) ==
  \/ /\ hosts # NoFile
     /\ Step(w, "check", IF modified[w] THEN "verify" ELSE "peer")
     /\ UNCHANGED <<vars, modified, peer, restarts, missed>>
  \/ NoTime(w, "check")

(* A look at the file that found the block or not.                         *)
Looked(w, from, found, otherwise) ==
  /\ Step(w, from, IF found THEN "stamp" ELSE otherwise)
  /\ missed' = [missed EXCEPT ![w] = ~found /\ @]
  /\ UNCHANGED <<modified, peer, restarts>>

Verify(w) ==
  /\ \E blocked \in IsBlocked : Looked(w, "verify", blocked, "repair")
  /\ UNCHANGED vars

(* Faulty: what reapplyBlock returns is not looked at.                     *)
RepairUnchecked(w) ==
  /\ ReapplyBlock(w)
  /\ Step(w, "repair", "stamp")
  /\ UNCHANGED <<modified, peer, restarts>>
  /\ missed' = [missed EXCEPT ![w] = FALSE]

(* reapplyBlock looks again.  With no list it can repair nothing.          *)
Repair(w) == ReapplyBlock(w) /\ Looked(w, "repair", result'[w] = "intact", "failed")

(* Faulty: a failed repair is left for the next round.                     *)
RepairFailedGoesOn(w) ==
  Step(w, "failed", "peer") /\ UNCHANGED <<vars, modified, peer, restarts, missed>>

RepairFailed(w) == GiveUp(w, "failed")

TakeTime(w) ==
  \/ /\ hosts # NoFile
     /\ Step(w, "stamp", "peer")
     /\ modified' = [modified EXCEPT ![w] = FALSE]
     /\ UNCHANGED <<vars, peer, restarts, missed>>
  \/ NoTime(w, "stamp")

---------------------------------------------------------------------------
(* MonitorPeerProcess, and the sleep after it                              *)

(* Fault "query": OpenProcess or GetExitCodeProcess fails for a process    *)
(* that runs.                                                              *)
LookForPeer(w) ==
  /\ peer[w] # "zero"
  /\ Step(w, "peer", "check")
  /\ \/ peer[w] = "runs" /\ UNCHANGED peer
     \/ /\ peer[w] = "gone" \/ "query" \in Faults
        /\ peer' = [peer EXCEPT ![w] = "zero"]
  /\ UNCHANGED <<vars, modified, restarts, missed>>

(* Faulty: a peer that was started is not counted.                         *)
StartPeerUncounted(w) ==
  /\ peer[w] = "zero" /\ restarts[w] < MaxRestarts
  /\ Step(w, "peer", "check")
  /\ UNCHANGED <<vars, modified, peer, restarts, missed>>

(* Faulty: the restarts are not limited.                                   *)
StartPeerAlways(w) ==
  /\ peer[w] = "zero"
  /\ Step(w, "peer", "check")
  /\ restarts' = [restarts EXCEPT ![w] = @ + 1]
  /\ UNCHANGED <<vars, modified, peer, missed>>

(* The id of the peer that was started is not kept.                        *)
StartPeer(w) ==
  /\ peer[w] = "zero" /\ restarts[w] < MaxRestarts
  /\ Step(w, "peer", "check")
  /\ restarts' = [restarts EXCEPT ![w] = @ + 1]
  /\ UNCHANGED <<vars, modified, peer, missed>>

(* Fault "restart": CreateProcessW fails.                                  *)
NoPeer(w) ==
  /\ peer[w] = "zero"
  /\ restarts[w] = MaxRestarts \/ "restart" \in Faults
  /\ Step(w, "peer", "check")
  /\ UNCHANGED <<vars, modified, peer, restarts, missed>>

---------------------------------------------------------------------------
(* Around the watchers                                                     *)

(* Every write sets the time of the hosts file; the end of CopyFileW gives *)
(* it the time of the temporary file.                                      *)
Written ==
  /\ modified' = [w \in Watchers |-> TRUE]
  /\ missed' = [w \in Watchers |-> missed[w] \/ wstage[w] = "stamp"]
  /\ UNCHANGED <<wstage, peer, restarts>>

Client(p) ==
  \/ calls < ClientCalls /\ CallStep(p) /\ UNCHANGED watching
  \/ ProgramStep(p) /\ UNCHANGED watching
  \/ HwOpenFails(p) /\ UNCHANGED watching
  \/ HwCopyFails(p) /\ UNCHANGED watching
  \/ HwOpen(p) /\ Written
  \/ HwCopyLine(p) /\ Written
  \/ HwDone(p) /\ Written
  \/ StartInstance(p) /\ UNCHANGED watching
  \/ Exit(p) /\ UNCHANGED watching

WatcherStep(w) ==
  \/ Check(w) \/ Verify(w) \/ Repair(w) \/ RepairFailed(w) \/ TakeTime(w)
  \/ LookForPeer(w) \/ StartPeer(w) \/ NoPeer(w)

(* The process of the id ends, or the id is given to another process.      *)
PeerChanges(w, from, to) ==
  /\ peer[w] = from
  /\ peer' = [peer EXCEPT ![w] = to]
  /\ UNCHANGED <<vars, wstage, modified, restarts, missed>>

Surroundings ==
  \/ \E w \in Watchers : \E q \in Peers : StartWatcher(w, q)
  \/ \E w \in Watchers : PeerChanges(w, "runs", "gone") \/ PeerChanges(w, "gone", "runs")
  \/ \E p \in Process : Kill(p) /\ Over({p})
  \/ Reboot /\ Over(Process)
  \/ \E f \in EditFiles : UserEdit(f) /\ Written

WNext ==
  \/ \E w \in Watchers : WatcherStep(w)
  \/ \E p \in Process \ Watchers : Client(p)
  \/ Surroundings

WSpec == WInit /\ [][WNext]_wvars

(* A watcher's thread is scheduled, and CreateProcessW does not fail for   *)
(* ever.                                                                   *)
WFairness ==
  \A w \in Watchers : WF_wvars(WatcherStep(w)) /\ SF_wvars(StartPeer(w))

WFairSpec == WSpec /\ WFairness
---------------------------------------------------------------------------
(* The types; and a watcher is between two calls of Blocker in all of its  *)
(* loop, because it never has the list with which reapplyBlock would go on.*)
WTypeOK ==
  /\ TypeOK
  /\ wstage \in [Watchers -> WStages]
  /\ modified \in [Watchers -> BOOLEAN]
  /\ peer \in [Watchers -> Peers]
  /\ restarts \in [Watchers -> 0..MaxRestarts]
  /\ missed \in [Watchers -> BOOLEAN]
  /\ \A w \in Watchers :
       /\ pc[w] = (IF wstage[w] = "off" THEN "dead" ELSE "idle")
       /\ domains[w] = <<>>

(* A watcher that sees no change of the write time stands before a file    *)
(* with a block, whatever clients, users and kills did, unless the file    *)
(* was written between its look and its taking of the time (or had no      *)
(* block when it started): those two ways to miss a removal are all.       *)
NothingSlips ==
  \A w \in Running : ~modified[w] /\ ~missed[w] => Blocked(hosts)

(* Outside that window a removed block is noticed: it comes back, or the   *)
(* watcher ends.                                                           *)
TamperingEndsWatch ==
  \A w \in Watchers :
    (wstage[w] \notin {"off", "stamp"} /\ modified[w] /\ ~Blocked(hosts))
      ~> (wstage[w] = "off" \/ Blocked(hosts))

(* A lost peer is started again until the count of restarts is used up     *)
(* (every one of them, for the new id is not kept), unless its id was      *)
(* given to another process.                                               *)
PeerLossAnswered ==
  \A w \in Watchers :
    (wstage[w] # "off" /\ peer[w] = "gone")
      ~> (wstage[w] = "off" \/ peer[w] = "runs" \/ restarts[w] = MaxRestarts)

(* "Background watchdog services auto-repair any tampering": a block that  *)
(* a watcher stood guard over comes back.                                  *)
AutoRepair ==
  \A w \in Watchers :
    (wstage[w] # "off" /\ modified[w] /\ ~missed[w] /\ hosts # NoFile /\ ~Blocked(hosts))
      ~> Blocked(hosts)
==========================================================================
