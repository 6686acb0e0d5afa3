---------------------------- MODULE SystemProof ----------------------------
(***************************************************************************)
(* Theorems about the program as a whole, for every number of instances    *)
(* and every set of command lines, lists, files and edits.                 *)
(***************************************************************************)
EXTENDS System, CallProof

(* What a step of the program is to Blocker: a step of its own, or one of  *)
(* the three that only --stop-everything and --factory-reset make.         *)
OthersEnd(p) == Terminated(Process \ {p}) /\ UNCHANGED <<files, writer, bounds>>

LEMMA BlockerView ==
  ASSUME SysTypeOK, [SysNext]_sysvars
  PROVE  \/ [Next]_vars
         \/ \E p \in Process : OthersEnd(p) \/ Restore(p) \/ RemoveData(p)
<1>l. ASSUME NEW p \in Process, Leave(p) PROVE Next
  BY <1>l DEF Leave, Next, Environment
<1>g. ASSUME NEW p \in Process, NEW from, NEW to, Gate(p, from, to) PROVE [Next]_vars
  BY <1>g, <1>l DEF Gate
<1>c. ASSUME NEW p \in Process, CallStep(p) PROVE Next
  BY <1>c DEF Next
<1>1. ASSUME NEW p \in Process, Instance(p)
      PROVE  [Next]_vars \/ OthersEnd(p) \/ Restore(p) \/ RemoveData(p)
  <2>1. ASSUME NEW options \in CommandLines, Launch(p, options) PROVE Next
    BY <2>1 DEF Launch, Next, Environment
  <2>2. CASE WmainGate(p) \/ WindowGate(p)
    BY <2>2, <1>g DEF WmainGate, WindowGate
  <2>3. CASE CloseWindow(p) \/ Decline(p) \/ Stopped(p) \/ TestEnds(p) \/ DebugEnds(p)
             \/ RestoreFails(p)
    BY <2>3, <1>l DEF CloseWindow, Decline, Stopped, TestEnds, DebugEnds, RestoreFails
  <2>4. CASE TypeText(p) \/ ImportFile(p) \/ TestCryptoFunctions(p)
    BY <2>4 DEF TypeText, ImportFile, SetText, TestCryptoFunctions
  <2>5. CASE ClickApply(p) \/ DebugLoad(p)
    <3>1. CASE ClickApply(p)
      <4>1. Parsed(edit[p]) \in DomainLists \cup {<<>>}
        BY TextAssumption DEF SysTypeOK, Typings
      <4>2. LoadDomains(p, Parsed(edit[p])) /\ Parsed(edit[p]) # <<>>
        BY <3>1 DEF ClickApply, LoadDomains
      <4>3. CallStep(p)
        BY <4>1, <4>2 DEF CallStep
      <4>4. QED
        BY <4>3, <1>c
    <3>2. CASE DebugLoad(p)
      BY <3>2, <1>c, DebugAssumption DEF DebugLoad, CallStep
    <3>3. QED
      BY <2>5, <3>1, <3>2
  <2>6. CASE StartApply(p) \/ DebugSave(p) \/ DebugApply(p) \/ DebugReapply(p)
    BY <2>6, <1>c DEF StartApply, DebugSave, DebugApply, DebugReapply, CallStep
  <2>7. CASE Answered(p)
    BY <2>7, <1>l DEF Answered
  <2>8. CASE ConfirmStop(p) \/ ConfirmReset(p)
    BY <2>8 DEF ConfirmStop, ConfirmReset, TerminateOthers, OthersEnd
  <2>9. CASE InCall(p) \/ InWriter(p)
    BY <2>9 DEF InCall, InWriter, Next
  <2>10. QED
    BY <1>1, <2>1, <2>2, <2>3, <2>4, <2>5, <2>6, <2>7, <2>8, <2>9 DEF Instance
<1>2. CASE World
  BY <1>2 DEF World, Next, Environment
<1>3. CASE UNCHANGED sysvars
  BY <1>3 DEF sysvars
<1>4. QED
  BY <1>1, <1>2, <1>3 DEF SysNext

---------------------------------------------------------------------------
(* What the invariants of the program need besides their own statements.   *)

SysInv == TypeInv /\ SysTypeOK

(* hostswriter.exe runs while its call waits for it or is dead.            *)
WaitInv == \A p \in Process : hw[p] # "none" => pc[p] \in {"wait", "dead"}

(* Instances that were never at work together: one at most has a call or a *)
(* hostswriter, and every call is as if it were the only one.              *)
SoloInv ==
  ~overlap => \A p \in Process : Active(p) => Alone(p)

CallsInv == ~overlap => \A p \in Process : CallInv(p)

(* The call in the hosts file knows what it read.                          *)
ReadInv ==
  (~overlap /\ edits = 0) =>
    \A p \in Process : pc[p] = "read" \/ Composing(p) => base[p] # NoFile

(* Behind a success there is no way back to a call: nobody is at work, or   *)
(* in a stage from which a call is entered without a look at the file.      *)
Opening == {"window", "apply", "debug", "debug_save", "debug_saving"}

Locked(p) ==
  /\ pc[p] \in {"idle", "dead"} /\ ~Writing(p)
  /\ stage[p] \notin Opening
  /\ stage[p] = "applying" => result[p] = "applied"

LockInv ==
  (promised # {} /\ ~overlap /\ edits = 0) =>
    /\ Blocked(hosts) /\ \A d \in promised : Enforced(d)
    /\ \A p \in Process : Locked(p)

(* The stage that waits for backupHosts is in no other call.               *)
SaveInv == \A p \in Process : stage[p] = "debug_saving" => pc[p] \in {"idle", "save_copy"}

(* Where a block may stand there is a backup already.                      *)
Cleared == {"debug", "debug_save"}
Saved == {"window", "apply", "applying", "debug_saving", "debug_applying", "debug_reapplying"}

Backed(p) ==
  /\ stage[p] \in Cleared \/ pc[p] \in {"save_copy", "backup_begin", "backup_copy"}
       => ~Blocked(hosts)
  /\ stage[p] \in Saved => backup # NoFile \/ ~Blocked(hosts)
  /\ HoldsBackup(p) => ~Blocked(content[p]) /\ CopiedFrom(backup, content[p])
  /\ pc[p] = "open" => backup # NoFile \/ hosts = NoFile
  /\ pc[p] = "read" \/ Composing(p) \/ Writing(p) => backup # NoFile

BackupInv ==
  (~overlap /\ edits = 0) => ~Blocked(backup) /\ \A p \in Process : Backed(p)

(* Every password has a file of its own.                                   *)
PassInv ==
  "name" \notin CryptoFaults =>
    /\ \A t, u \in Process : t # u /\ test[t].name = test[u].name => test[t].name = Fixed
    /\ \A t \in Process :
         /\ stage[t] \notin {"store", "write", "load", "read", "passed", "failed"}
              => test[t] = Test!NoTest
         /\ stage[t] \in {"store", "write", "load", "read", "passed"}
              => test[t].name # Fixed /\ store[test[t].name] \in {NoText, Empty, t}
         /\ stage[t] = "read" => store[test[t].name] # NoText
         /\ stage[t] = "passed" => test[t].password = t

---------------------------------------------------------------------------
(* The type invariant.                                                     *)

LEMMA TerminatedType ==
  ASSUME TypeInv, NEW victims \in SUBSET Process, Terminated(victims),
         UNCHANGED <<hosts, tmp, writer, bounds>>, backup' \in File,
         \A q \in Process \ victims : HoldsBackup(q) => backup' # NoFile
  PROVE  TypeInv'
<1>1. TypeOK'
  BY FileMembers DEF TypeInv, TypeOK, Terminated, Labels, Results, writer, bounds
<1>2. ASSUME NEW q \in Process
      PROVE  \/ pc'[q] = "dead"
             \/ q \notin victims /\ pc'[q] = pc[q] /\ pos'[q] = pos[q] /\ content'[q] = content[q]
  BY DEF Terminated
<1>3. Held'
  BY <1>2 DEF TypeInv, Held, HoldsHosts, HoldsBackup, HoldsTmp, Copying, writer
<1>4. QED
  BY <1>1, <1>3 DEF TypeInv

LEMMA SysTypeInv ==
  ASSUME SysInv, [SysNext]_sysvars
  PROVE  TypeInv'
<1>t. TypeInv
  BY DEF SysInv
<1>1. ASSUME NEW p \in Process, OthersEnd(p) PROVE TypeInv'
  <2>1. backup \in File /\ \A q \in Process : HoldsBackup(q) => backup # NoFile
    BY <1>t DEF TypeInv, TypeOK, Held
  <2>2. QED
    BY <1>1, <1>t, <2>1, TerminatedType DEF OthersEnd, files
<1>2. ASSUME NEW p \in Process, RemoveData(p) PROVE TypeInv'
  <2>1. (backup' = NoFile /\ ~BackupHeld) \/ backup' = backup
    BY <1>2 DEF RemoveData
  <2>2. backup' \in File /\ \A q \in Process : HoldsBackup(q) => backup' # NoFile
    BY <1>t, <2>1, FileMembers DEF BackupHeld, TypeInv, TypeOK, Held
  <2>3. QED
    BY <1>2, <1>t, <2>2, TerminatedType DEF RemoveData
<1>3. ASSUME NEW p \in Process, Restore(p) PROVE TypeInv'
  <2>1. hosts' \in File /\ hosts' # NoFile
    BY <1>3, ResetAssumption, FileMembers DEF Restore
  <2>2. QED
    BY <1>3, <1>t, <2>1, FileMembers
    DEF Restore, TypeInv, TypeOK, Held, HoldsHosts, HoldsBackup, HoldsTmp, Copying, Authors,
        locals, writer, bounds
<1>4. QED
  BY <1>t, <1>1, <1>2, <1>3, BlockerView, TypeNext DEF SysInv

LEMMA SysTypeInit == SysInit => SysInv
<1> SUFFICES ASSUME SysInit PROVE SysInv
  OBVIOUS
<1>1. TypeInv
  BY TypeInit DEF SysInit
<1>2. Test!StoreTypeOK
  BY DEF SysInit, Test!StoreInit, Test!StoreTypeOK, Test!NoTest, Test!FileName, Test!Text
<1>3. stage \in [Process -> Stages] /\ \A p \in Process : stage[p] = "off" /\ pc[p] = "dead"
  BY DEF SysInit, Init, Stages
<1>4. QED
  BY <1>1, <1>2, <1>3 DEF SysInit, SysInv, SysTypeOK, TypeInv, Init

(* The stages of the calls.                                                *)
Calling == {"applying", "debug_saving", "debug_applying", "debug_reapplying"}

StageInv ==
  \A p \in Process : /\ stage[p] = "off" <=> pc[p] = "dead"
                     /\ pc[p] \notin {"idle", "dead"} => stage[p] \in Calling

(* A step of one instance changes only its own stage, to one that fits.    *)
LEMMA OneStage ==
  ASSUME stage \in [Process -> Stages], StageInv, NEW p \in Process, NEW to \in Stages,
         stage' = [stage EXCEPT ![p] = to],
         \A q \in Process \ {p} : pc'[q] = pc[q],
         to = "off" <=> pc'[p] = "dead",
         pc'[p] \in {"idle", "dead"} \/ to \in Calling
  PROVE  stage' \in [Process -> Stages] /\ StageInv'
  BY DEF StageInv

LEMMA LeaveStage ==
  ASSUME TypeOK, stage \in [Process -> Stages], StageInv, NEW p \in Process, Leave(p)
  PROVE  stage' \in [Process -> Stages] /\ StageInv'
<1>1. "off" \in Stages
  BY DEF Stages
<1>2. stage' = [stage EXCEPT ![p] = "off"] /\ pc'[p] = "dead"
      /\ \A q \in Process \ {p} : pc'[q] = pc[q]
  BY DEF Leave, Exit, Terminated
<1>3. QED
  BY <1>1, <1>2, OneStage

LEMMA CallStage ==
  ASSUME TypeOK, stage \in [Process -> Stages], StageInv, NEW p \in Process,
         CallStep(p), NEW from, NEW to \in Calling, At(p, from, to)
  PROVE  stage' \in [Process -> Stages] /\ StageInv'
<1>1. to \in Stages /\ to # "off"
  BY DEF Calling, Stages
<1>2. pc'[p] # "dead" /\ \A q \in Process \ {p} : pc'[q] = pc[q]
  BY CallAlive, CallLocal DEF Untouched
<1>3. QED
  BY <1>1, <1>2, OneStage DEF At

LEMMA StageNext ==
  ASSUME SysInv, [SysNext]_sysvars
  PROVE  stage' \in [Process -> Stages] /\ StageInv'
<1>t. TypeOK /\ stage \in [Process -> Stages] /\ StageInv
  BY DEF SysInv, SysTypeOK, StageInv, Calling
<1> DEFINE Goal == stage' \in [Process -> Stages] /\ StageInv'
<1>m. ASSUME NEW p \in Process, NEW from, NEW to \in Stages, At(p, from, to), from # "off",
             to # "off", pc' = pc, pc[p] = "idle" \/ stage[p] \notin Calling
      PROVE  Goal
  <2>1. pc[p] = "idle"
    BY <1>m, <1>t DEF StageInv, At, TypeOK, Labels
  <2>2. QED
    BY <2>1, <1>m, <1>t, OneStage DEF At
<1>l. ASSUME NEW p \in Process, Leave(p) PROVE Goal
  BY <1>l, <1>t, LeaveStage
<1>s. ASSUME UNCHANGED <<stage, pc>> PROVE Goal
  BY <1>s, <1>t DEF StageInv
<1>g. ASSUME NEW p \in Process, NEW from, NEW to \in Stages, Gate(p, from, to), from # "off",
             to # "off", from \notin Calling
      PROVE  Goal
  <2>1. CASE At(p, from, to) /\ pc' = pc
    BY <2>1, <1>g, <1>m DEF At
  <2>2. CASE Leave(p)
    BY <2>2, <1>l
  <2>3. QED
    BY <1>g, <2>1, <2>2 DEF Gate, vars
<1>1. ASSUME NEW p \in Process, Instance(p) PROVE Goal
  <2> USE DEF vars
  <2>n. /\ {"window_gate", "debug", "test", "window", "apply", "debug_save", "stopped", "restore",
           "remove", "off", "stop", "reset", "gate_window", "gate_debug", "gate_test"} \subseteq Stages
        /\ Calling \subseteq Stages /\ Test!Phases \subseteq Stages
    BY DEF Stages, Calling, Test!Phases
  <2>c. ~({"gate_window", "gate_debug", "gate_test", "window_gate", "window", "apply", "debug",
           "debug_save", "stop", "reset", "stopped", "restore", "remove", "off"} \cap Calling # {})
        /\ Test!Phases \cap Calling = {} /\ "off" \notin Test!Phases
    BY DEF Calling, Test!Phases
  <2>1. ASSUME NEW options \in CommandLines, Launch(p, options) PROVE Goal
    <3>1. FirstStage(options) \in Stages /\ FirstStage(options) # "off"
      BY <2>n DEF FirstStage
    <3>2. pc'[p] = "idle" /\ \A q \in Process \ {p} : pc'[q] = pc[q]
      BY <2>1, <1>t DEF Launch, StartInstance, Goto, TypeOK
    <3>3. QED
      BY <2>1, <3>1, <3>2, <1>t, OneStage DEF Launch, At
  <2>2. CASE WmainGate(p) \/ WindowGate(p)
    BY <2>2, <1>g, <2>n, <2>c DEF WmainGate, WindowGate
  <2>3. CASE CloseWindow(p) \/ Decline(p) \/ Stopped(p) \/ TestEnds(p) \/ DebugEnds(p)
             \/ RestoreFails(p)
    BY <2>3, <1>l DEF CloseWindow, Decline, Stopped, TestEnds, DebugEnds, RestoreFails
  <2>4. CASE TypeText(p) \/ ImportFile(p)
    BY <2>4, <1>s DEF TypeText, ImportFile, SetText
  <2>5. CASE ClickApply(p)
    BY <2>5, <1>m, <2>n, <2>c DEF ClickApply, LoadDomains
  <2>6. CASE DebugLoad(p)
    BY <2>6, <1>m, <2>n, <2>c DEF DebugLoad, LoadDomains
  <2>7. CASE StartApply(p) \/ DebugSave(p) \/ DebugApply(p) \/ DebugReapply(p)
    BY <2>7, <1>t, CallStage DEF StartApply, DebugSave, DebugApply, DebugReapply, CallStep, Calling
  <2>8. CASE Answered(p)
    BY <2>8, <1>l, <1>m, <2>n DEF Answered
  <2>9. CASE TestCryptoFunctions(p)
    <3>1. PICK from \in Test!Phases, to \in Test!Phases : At(p, from, to)
      BY <2>9 DEF TestCryptoFunctions, Test!TestStep, Test!Generate, Test!OpenStore, Test!CloseStore,
         Test!OpenLoad, Test!ReadLoad, Test!Fail, Test!Pass, Test!Phases, At
    <3>2. pc' = pc
      BY <2>9 DEF TestCryptoFunctions
    <3>3. from \notin Calling /\ to \in Stages /\ from # "off" /\ to # "off"
      BY <2>n, <2>c
    <3>4. stage[p] \notin Calling
      BY <3>1, <3>3 DEF At
    <3>5. QED
      BY <3>1, <3>2, <3>3, <3>4, <1>m
  <2>10. CASE Restore(p)
    BY <2>10, <1>m, <2>n, <2>c DEF Restore, At
  <2>11. CASE RemoveData(p)
    <3>1. pc'[p] = "dead" /\ \A q \in Process \ {p} : pc'[q] = pc[q]
      BY <2>11 DEF RemoveData, Terminated
    <3>2. QED
      BY <2>11, <3>1, <1>t, <2>n, OneStage DEF RemoveData, At
  <2>12. ASSUME NEW from, NEW to \in Stages, TerminateOthers(p, from, to), from # "off",
                to # "off", from \notin Calling
         PROVE  Goal
    <3>1. pc[p] = "idle"
      BY <2>12, <1>t DEF TerminateOthers, StageInv, TypeOK, Labels
    <3>2. \A q \in Process : pc'[q] = IF q = p THEN "idle" ELSE "dead"
      BY <2>12, <3>1 DEF TerminateOthers, Terminated
    <3>3. \A q \in Process : stage'[q] = IF q = p THEN to ELSE "off"
      BY <2>12 DEF TerminateOthers
    <3>4. stage' \in [Process -> Stages]
      BY <2>12, <2>n DEF TerminateOthers
    <3>5. QED
      BY <2>12, <3>2, <3>3, <3>4 DEF StageInv
  <2>13. CASE ConfirmStop(p) \/ ConfirmReset(p)
    BY <2>13, <2>12, <2>n, <2>c DEF ConfirmStop, ConfirmReset
  <2>14. CASE InCall(p)
    <3>1. /\ pc[p] \notin {"idle", "dead"} /\ pc'[p] # "dead" /\ stage' = stage
          /\ \A q \in Process \ {p} : pc'[q] = pc[q]
      BY <2>14, <1>t, CallAlive, CallLocal DEF InCall, Untouched
    <3>2. QED
      BY <3>1, <1>t DEF StageInv
  <2>15. CASE InWriter(p)
    BY <2>15, <1>t, <1>s, WriterLocal DEF InWriter
  <2>16. QED
    BY <1>1, <2>1, <2>2, <2>3, <2>4, <2>5, <2>6, <2>7, <2>8, <2>9, <2>10, <2>11, <2>13, <2>14, <2>15
    DEF Instance
<1>2. CASE World
  <2>1. ASSUME NEW p \in Process, Kill(p), stage' = [stage EXCEPT ![p] = "off"] PROVE Goal
    <3>1. pc'[p] = "dead" /\ \A q \in Process \ {p} : pc'[q] = pc[q]
      BY <2>1 DEF Kill, Terminated
    <3>2. "off" \in Stages
      BY DEF Stages
    <3>3. QED
      BY <2>1, <3>1, <3>2, <1>t, OneStage
  <2>2. ASSUME Reboot, stage' = [p \in Process |-> "off"] PROVE Goal
    <3>1. "off" \in Stages /\ \A p \in Process : pc'[p] = "dead"
      BY <2>2 DEF Reboot, Terminated, Stages
    <3>2. QED
      BY <2>2, <3>1 DEF StageInv
  <2>3. ASSUME NEW f \in EditFiles, UserEdit(f), UNCHANGED stage PROVE Goal
    BY <2>3, <1>s DEF UserEdit
  <2>4. QED
    BY <1>2, <2>1, <2>2, <2>3 DEF World
<1>3. CASE UNCHANGED sysvars
  BY <1>3, <1>s DEF sysvars, vars
<1>4. QED
  BY <1>1, <1>2, <1>3 DEF SysNext

---------------------------------------------------------------------------
(* What a call does to the backup.                                         *)
LEMMA BackupStep ==
  ASSUME TypeInv, NEW p \in Process, ProgramStep(p)
  PROVE  \/ backup' = backup /\ pc'[p] \notin {"backup_copy", "save_copy"}
         \/ pc[p] = "backup_begin" /\ pc'[p] = "backup_copy" /\ backup' = <<>>
         \/ HoldsBackup(p) /\ pc' = pc /\ backup' # NoFile
<1> USE DEF Goto, TypeInv, TypeOK, files
<1>f. ASSUME NEW r, Finished(p, r) PROVE pc'[p] = "idle"
  BY <1>f DEF Finished
<1>1. CASE CheckBackup(p) \/ BackupFails(p)
  BY <1>1 DEF CheckBackup, BackupFails, LeaveBackup
<1>2. CASE BeginBackup(p)
  BY <1>2 DEF BeginBackup, StartCopy
<1>2l. CASE CopyBackupLine(p)
  <2>1. /\ HoldsBackup(p) /\ pc' = pc /\ backup' = Append(backup, content[p][Len(backup) + 1])
        /\ Len(backup) < Len(content[p])
    BY <1>2l DEF CopyBackupLine
  <2>2. backup \in Seq(Line) /\ content[p] \in Seq(Line)
    BY <2>1, FileMembers DEF Held
  <2>3. backup' \in Seq(Line)
    BY <2>1, <2>2
  <2>4. QED
    BY <2>1, <2>3, FileMembers
<1>3. CASE CopyBackup(p) \/ SaveCopied(p)
  BY <1>3, <1>f DEF CopyBackup, SaveCopied, LeaveBackup
<1>4. CASE OpenHosts(p) \/ OpenHostsFails(p) \/ ReadLine(p) \/ BuildContent(p)
  BY <1>4, <1>f DEF OpenHosts, OpenHostsFails, ReadLine, BuildContent
<1>5. CASE OpenTmp(p) \/ OpenTmpFails(p) \/ WriteTmpFails(p)
  BY <1>5, <1>f DEF OpenTmp, OpenTmpFails, WriteTmpFails
<1>5w. CASE WriteTmp(p) \/ CloseTmp(p) \/ WriteTmpShort(p)
  BY <1>5w DEF WriteTmp, CloseTmp, WriteTmpShort, WriteUpTo
<1>6. CASE LaunchWriter(p) \/ LaunchFails(p) \/ Finish(p)
  BY <1>6, <1>f DEF LaunchWriter, LaunchFails, Finish
<1>7. QED
  BY <1>1, <1>2, <1>2l, <1>3, <1>4, <1>5, <1>5w, <1>6 DEF ProgramStep

(* The backup is in the program's directory, and one that is being made is *)
(* there: RemoveData cannot remove it.                                     *)
HomeInv ==
  /\ backup # NoFile => home
  /\ \A p \in Process : pc[p] \in {"backup_copy", "save_copy"} => backup # NoFile

LEMMA HomeNext ==
  ASSUME SysInv, HomeInv, [SysNext]_sysvars
  PROVE  HomeInv'
<1>t. TypeOK
  BY DEF SysInv, TypeInv
<1>s. ASSUME UNCHANGED <<backup, home>>,
             \A p \in Process : pc'[p] = pc[p] \/ pc'[p] \notin {"backup_copy", "save_copy"}
      PROVE  HomeInv'
  BY <1>s DEF HomeInv
<1>d. ASSUME NEW victims, Terminated(victims), UNCHANGED <<backup, home>> PROVE HomeInv'
  BY <1>d, <1>s DEF Terminated
<1>l. ASSUME NEW p \in Process, Leave(p) PROVE HomeInv'
  BY <1>l, <1>d DEF Leave, Exit, Closed, files
<1>g. ASSUME NEW p \in Process, NEW from, NEW to, Gate(p, from, to) PROVE HomeInv'
  BY <1>g, <1>l, <1>s DEF Gate, vars, files, beside
<1>c. ASSUME NEW p \in Process, ApplyBlock(p) \/ ReapplyBlock(p), home' = home PROVE HomeInv'
  <2>1. backup' = backup
    BY <1>c DEF ApplyBlock, ReapplyBlock
  <2>2. pc'[p] \in {"idle", "backup"} /\ \A q \in Process \ {p} : pc'[q] = pc[q]
    BY <1>c, <1>t DEF ApplyBlock, ReapplyBlock, EnterApply, Finished, TypeOK
  <2>3. QED
    BY <1>c, <2>1, <2>2, <1>s
<1>1. ASSUME NEW p \in Process, Instance(p) PROVE HomeInv'
  <2> USE DEF vars, files, beside
  <2>1. ASSUME NEW options \in CommandLines, Launch(p, options) PROVE HomeInv'
    BY <2>1, <1>s, <1>t DEF Launch, StartInstance, Goto, TypeOK
  <2>2. CASE WmainGate(p) \/ WindowGate(p)
    BY <2>2, <1>g DEF WmainGate, WindowGate
  <2>3. CASE CloseWindow(p) \/ Decline(p) \/ Stopped(p) \/ TestEnds(p) \/ DebugEnds(p)
             \/ RestoreFails(p)
    BY <2>3, <1>l DEF CloseWindow, Decline, Stopped, TestEnds, DebugEnds, RestoreFails
  <2>4. CASE TypeText(p) \/ ImportFile(p) \/ TestCryptoFunctions(p)
    BY <2>4, <1>s DEF TypeText, ImportFile, SetText, TestCryptoFunctions
  <2>5. CASE ClickApply(p) \/ DebugLoad(p)
    BY <2>5, <1>s DEF ClickApply, DebugLoad, LoadDomains
  <2>6. CASE StartApply(p) \/ DebugApply(p) \/ DebugReapply(p)
    BY <2>6, <1>c DEF StartApply, DebugApply, DebugReapply
  <2>7. CASE DebugSave(p)
    <3>1. BackupHosts(p) /\ HomeMade
      BY <2>7 DEF DebugSave
    <3>2. CASE Finished(p, "failed") /\ backup' = backup
      <4>1. pc'[p] = "idle" /\ \A q \in Process \ {p} : pc'[q] = pc[q]
        BY <3>2, <1>t DEF Finished, TypeOK
      <4>2. QED
        BY <3>1, <3>2, <4>1 DEF HomeMade, HomeInv
    <3>3. CASE backup' = <<>>
      BY <3>1, <3>3, FileMembers DEF HomeMade, HomeInv
    <3>4. QED
      BY <3>1, <3>2, <3>3 DEF BackupHosts, StartCopy
  <2>8. CASE Answered(p)
    BY <2>8, <1>l, <1>s DEF Answered
  <2>9. CASE Restore(p)
    BY <2>9, <1>s DEF Restore
  <2>10. CASE ConfirmStop(p) \/ ConfirmReset(p)
    BY <2>10, <1>d DEF ConfirmStop, ConfirmReset, TerminateOthers, Closed
  <2>11. CASE RemoveData(p)
    <3>1. \A q \in Process : pc'[q] \in {"backup_copy", "save_copy"} => pc'[q] = pc[q]
      BY <2>11 DEF RemoveData, Terminated
    <3>2. CASE BackupHeld
      <4>1. backup' = backup /\ home' = TRUE
        BY <2>11, <3>2 DEF RemoveData
      <4>2. QED
        BY <3>1, <4>1 DEF HomeInv
    <3>3. CASE ~BackupHeld
      <4>1. \A q \in Process : pc'[q] \notin {"backup_copy", "save_copy"}
        BY <3>1, <3>3 DEF BackupHeld, HoldsBackup
      <4>2. backup' = NoFile \/ home' = TRUE
        BY <2>11 DEF RemoveData
      <4>3. QED
        BY <4>1, <4>2 DEF HomeInv
    <3>4. QED
      BY <3>2, <3>3
  <2>12. CASE InCall(p)
    <3>1. ProgramStep(p) /\ (IF pc[p] = "backup_begin" THEN HomeMade ELSE home' = home)
      BY <2>12 DEF InCall
    <3>2. \A q \in Process \ {p} : pc'[q] = pc[q]
      BY <3>1, <1>t, CallLocal DEF Untouched
    <3>3. CASE backup' = backup /\ pc'[p] \notin {"backup_copy", "save_copy"}
      BY <3>1, <3>2, <3>3 DEF HomeInv, HomeMade
    <3>4. CASE pc[p] = "backup_begin" /\ backup' = <<>>
      BY <3>1, <3>2, <3>4, FileMembers DEF HomeInv, HomeMade
    <3>5. CASE HoldsBackup(p) /\ pc' = pc /\ backup' # NoFile
      <4>1. backup # NoFile /\ home' = home
        BY <3>1, <3>5 DEF HomeInv, HoldsBackup
      <4>2. QED
        BY <3>5, <4>1 DEF HomeInv
    <3>6. QED
      BY <3>1, <3>3, <3>4, <3>5, BackupStep DEF SysInv
  <2>13. CASE InWriter(p)
    BY <2>13, <1>s, <1>t, WriterLocal DEF InWriter
  <2>14. QED
    BY <1>1, <2>1, <2>2, <2>3, <2>4, <2>5, <2>6, <2>7, <2>8, <2>9, <2>10, <2>11, <2>12, <2>13
    DEF Instance
<1>2. CASE World
  <2>1. ASSUME NEW p \in Process, Kill(p), Closed({p}) PROVE HomeInv'
    BY <2>1, <1>d DEF Kill, Closed, files
  <2>2. ASSUME Reboot, Closed(Process) PROVE HomeInv'
    BY <2>2, <1>d DEF Reboot, Closed, files
  <2>3. ASSUME NEW f \in EditFiles, UserEdit(f), UNCHANGED beside PROVE HomeInv'
    BY <2>3, <1>s DEF UserEdit, beside
  <2>4. QED
    BY <1>2, <2>1, <2>2, <2>3 DEF World
<1>3. CASE UNCHANGED sysvars
  BY <1>3, <1>s DEF sysvars, vars, files, beside
<1>4. QED
  BY <1>1, <1>2, <1>3 DEF SysNext

---------------------------------------------------------------------------
(* The other variables of the program.                                     *)

LEMMA StoreNext ==
  ASSUME Test!StoreTypeOK, NEW p \in Process, NEW directory, Test!TestStep(p, directory)
  PROVE  Test!StoreTypeOK'
<1> USE DEF Test!StoreTypeOK, Test!FileName, Test!Text
<1>1. CASE Test!Generate(p)
  BY <1>1 DEF Test!Generate, Test!Fresh, Test!Fail
<1>2. CASE Test!OpenStore(p, directory)
  BY <1>2 DEF Test!OpenStore, Test!Fail
<1>3. CASE Test!CloseStore(p)
  BY <1>3 DEF Test!CloseStore
<1>4. CASE Test!OpenLoad(p)
  BY <1>4 DEF Test!OpenLoad, Test!Fail
<1>5. CASE Test!ReadLoad(p)
  BY <1>5 DEF Test!ReadLoad, Test!Fail, Test!Stored
<1>6. QED
  BY <1>1, <1>2, <1>3, <1>4, <1>5 DEF Test!TestStep

RestOK ==
  /\ promised \subseteq Domain /\ overlap \in BOOLEAN
  /\ edit \in [Process -> Typings \cup {<<>>}]
  /\ Test!StoreTypeOK

LEMMA RestNext ==
  ASSUME SysInv, [SysNext]_sysvars
  PROVE  RestOK'
<1>t. TypeOK /\ RestOK
  BY DEF SysInv, SysTypeOK, RestOK
<1>s. ASSUME UNCHANGED <<edit, store, test>>, overlap' \in BOOLEAN, promised' \in {promised, {}}
      PROVE  RestOK'
  BY <1>s, <1>t DEF RestOK, Test!StoreTypeOK
<1>d. ASSUME NEW victims, Closed(victims), UNCHANGED observed PROVE RestOK'
  BY <1>d, <1>t DEF Closed, Test!Forgotten, Test!NoTest, Test!FileName, RestOK,
     Test!StoreTypeOK, observed
<1>l. ASSUME NEW p \in Process, Leave(p) PROVE RestOK'
  BY <1>l, <1>d DEF Leave
<1>b. ASSUME UNCHANGED beside PROVE RestOK'
  BY <1>b, <1>s, <1>t DEF beside, passwords, observed, RestOK
<1>g. ASSUME NEW p \in Process, NEW from, NEW to, Gate(p, from, to) PROVE RestOK'
  BY <1>g, <1>l, <1>b DEF Gate
<1>1. ASSUME NEW p \in Process, Instance(p) PROVE RestOK'
  <2>1. ASSUME NEW options \in CommandLines, Launch(p, options) PROVE RestOK'
    <3>1. overlap' \in BOOLEAN
      BY <2>1, <1>t DEF Launch, RestOK
    <3>2. QED
      BY <2>1, <3>1, <1>s DEF Launch, passwords
  <2>2. CASE WmainGate(p) \/ WindowGate(p)
    BY <2>2, <1>g DEF WmainGate, WindowGate
  <2>3. CASE CloseWindow(p) \/ Decline(p) \/ Stopped(p) \/ TestEnds(p) \/ DebugEnds(p)
             \/ RestoreFails(p)
    BY <2>3, <1>l DEF CloseWindow, Decline, Stopped, TestEnds, DebugEnds, RestoreFails
  <2>4. CASE TypeText(p) \/ ImportFile(p)
    <3>1. PICK text \in Typings : SetText(p, text)
      BY <2>4 DEF TypeText, ImportFile, Typings
    <3>2. QED
      BY <3>1, <1>t DEF SetText, RestOK, passwords, observed, Test!StoreTypeOK
  <2>5. CASE ClickApply(p) \/ DebugLoad(p) \/ StartApply(p) \/ DebugApply(p) \/ DebugReapply(p)
    BY <2>5, <1>b DEF ClickApply, DebugLoad, StartApply, DebugApply, DebugReapply
  <2>6. CASE DebugSave(p)
    BY <2>6, <1>s, <1>t DEF DebugSave, passwords, observed, RestOK
  <2>7. CASE Answered(p)
    BY <2>7, <1>l, <1>b DEF Answered
  <2>8. CASE Restore(p)
    BY <2>8, <1>s, <1>t DEF Restore, passwords, RestOK
  <2>9. CASE ConfirmStop(p) \/ ConfirmReset(p)
    BY <2>9, <1>d DEF ConfirmStop, ConfirmReset, TerminateOthers
  <2>10. CASE RemoveData(p)
    <3>1. UNCHANGED <<test, edit, promised, overlap>>
      BY <2>10 DEF RemoveData, observed
    <3>2. \E kept : Test!RemovedBut(kept)
      BY <2>10 DEF RemoveData
    <3>3. store' \in [Test!FileName -> Test!Text]
      BY <3>2, <1>t DEF Test!RemovedBut, Test!Text, RestOK, Test!StoreTypeOK
    <3>4. QED
      BY <3>1, <3>3, <1>t DEF RestOK, Test!StoreTypeOK
  <2>11. CASE TestCryptoFunctions(p)
    BY <2>11, <1>t, StoreNext DEF TestCryptoFunctions, observed, RestOK
  <2>12. CASE InCall(p)
    <3>1. UNCHANGED <<edit, store, test, overlap>>
      BY <2>12 DEF InCall, passwords
    <3>2. Domains(domains[p]) \subseteq Domain
      <4>1. <<>> \in Seq(Domain)
        OBVIOUS
      <4>2. domains[p] \in Seq(Domain)
        BY <4>1, <1>t, ListsAssumption DEF TypeOK
      <4>3. QED
        BY <4>2 DEF Domains
    <3>3. promised' \subseteq Domain
      BY <2>12, <3>2, <1>t DEF InCall, RestOK
    <3>4. QED
      BY <3>1, <3>3, <1>t DEF RestOK, Test!StoreTypeOK
  <2>13. CASE InWriter(p)
    BY <2>13, <1>b DEF InWriter
  <2>14. QED
    BY <1>1, <2>1, <2>2, <2>3, <2>4, <2>5, <2>6, <2>7, <2>8, <2>9, <2>10, <2>11, <2>12, <2>13
    DEF Instance
<1>2. CASE World
  BY <1>2, <1>d, <1>b DEF World
<1>3. CASE UNCHANGED sysvars
  BY <1>3, <1>b DEF sysvars
<1>4. QED
  BY <1>1, <1>2, <1>3 DEF SysNext

LEMMA HomeInit == SysInit => HomeInv
  BY DEF SysInit, Init, HomeInv

LEMMA SysTypeNext == SysInv /\ HomeInv /\ [SysNext]_sysvars => SysInv' /\ HomeInv'
<1> SUFFICES ASSUME SysInv, HomeInv, [SysNext]_sysvars PROVE SysInv' /\ HomeInv'
  OBVIOUS
<1>1. TypeInv' /\ HomeInv' /\ RestOK' /\ stage' \in [Process -> Stages] /\ StageInv'
  BY SysTypeInv, HomeNext, RestNext, StageNext
<1>2. SysTypeOK'
  BY <1>1 DEF SysTypeOK, HomeInv, RestOK, StageInv, TypeInv, Calling
<1>3. QED
  BY <1>1, <1>2 DEF SysInv

(* For any number of instances, any command lines and any faults: every    *)
(* instance is in a call of Blocker only in the stages that wait for one,  *)
(* lists that reach Blocker are lists, and a backup is in a directory that *)
(* is there, also where a reset removes what it can of it.                 *)
THEOREM SysTypeHolds == SysSpec => []SysTypeOK
<1>1. SysInv => SysTypeOK
  BY DEF SysInv
<1>2. QED
  BY SysTypeInit, HomeInit, SysTypeNext, <1>1, PTL DEF SysSpec

---------------------------------------------------------------------------
(* The whole block, beside stop and reset.                                 *)

LEMMA IntegritySysNext ==
  ASSUME SysInv, SysInv', IntegrityInv, [SysNext]_sysvars
  PROVE  IntegrityInv'
<1>t. TypeInv /\ TypeInv' /\ TypeOK /\ SysTypeOK
  BY DEF SysInv, TypeInv
<1> USE DEF IntegrityInv, FilesInv
(* Processes end, and leave the files and the copies as they are.          *)
<1>d. ASSUME NEW victims, Terminated(victims), UNCHANGED <<hosts, tmp, hw, src>>
      PROVE  IntegrityInv'
  <2>1. \A q \in Process : TextInv(q)'
    BY <1>d, <1>t, EmptyFile DEF Terminated, TextInv, Composing, HoldsBackup, TypeOK
  <2>2. \A q \in Process : CopyInv(q)'
    BY <1>d DEF Terminated, CopyInv, Copying
  <2>3. QED
    BY <1>d, <2>1, <2>2 DEF Terminated
<1>1. CASE [Next]_vars
  BY <1>1, <1>t, IntegrityNext
<1>2. ASSUME NEW p \in Process, OthersEnd(p) PROVE IntegrityInv'
  BY <1>2, <1>d DEF OthersEnd, files, writer
<1>3. ASSUME NEW p \in Process, RemoveData(p) PROVE IntegrityInv'
  BY <1>3, <1>d DEF RemoveData, writer
(* What the reset writes is no file of hostswriter's.                      *)
<1>4. ASSUME NEW p \in Process, Restore(p) PROVE IntegrityInv'
  <2>1. UNCHANGED <<tmp, pc, locals, hw, src, mixed>> /\ author' = "reset"
    BY <1>4 DEF Restore, writer
  <2>2. \A q \in Process : TextInv(q)'
    BY <2>1 DEF locals, TextInv, Composing, HoldsBackup
  <2>3. \A q \in Process : ~Copying(q)'
    BY <1>4, <2>1 DEF Restore, Copying
  <2>4. QED
    BY <2>1, <2>2, <2>3 DEF CopyInv
<1>5. QED
  BY <1>t, <1>1, <1>2, <1>3, <1>4, BlockerView

(* In the whole program too, at every moment, also where --stop-everything *)
(* or a factory reset ends the other instances and leaves their            *)
(* hostswriter.exe at work: a hosts file that hostswriter.exe was the last *)
(* to write and isBlocked accepts holds a whole block, unless parts of two *)
(* texts were ever in the temporary file together.                         *)
THEOREM ProgramKeepsIntegrity == SysSpec => []BlockIntegrity
<1>1. SysInit => IntegrityInv
  BY IntegrityInit DEF SysInit
<1>2. SysInv /\ SysInv' /\ IntegrityInv /\ [SysNext]_sysvars => IntegrityInv'
  BY IntegritySysNext
<1>3. QED
  BY SysTypeInit, HomeInit, SysTypeNext, <1>1, <1>2, IntegrityMeans, PTL DEF SysSpec

---------------------------------------------------------------------------
(* Passwords.                                                              *)

Storing == {"store", "write", "load", "read", "passed", "failed"}

LEMMA PassStart == SysInit => PassInv
  BY DEF SysInit, PassInv, Test!StoreInit, Test!NoTest

(* A step of --test-crypto.                                                *)
LEMMA PassTest ==
  ASSUME SysInv, PassInv, NEW p \in Process, NEW directory, Test!TestStep(p, directory),
         "name" \notin CryptoFaults
  PROVE  PassInv'
<1>t. /\ Test!StoreTypeOK /\ stage \in [Process -> Stages]
      /\ test \in [Process -> [name : Test!FileName, size : {0, 1},
                               password : Process \cup {NoText}]]
      /\ store \in [Test!FileName -> Test!Text]
  BY DEF SysInv, SysTypeOK, Test!StoreTypeOK
<1>o. /\ \A t, u \in Process : t # u /\ test[t].name = test[u].name => test[t].name = Fixed
      /\ \A t \in Process :
           /\ stage[t] \notin Storing => test[t] = Test!NoTest
           /\ stage[t] \in Storing \ {"failed"}
                => test[t].name # Fixed /\ store[test[t].name] \in {NoText, Empty, t}
           /\ stage[t] = "read" => store[test[t].name] # NoText
           /\ stage[t] = "passed" => test[t].password = t
  BY DEF PassInv, Storing
(* p moves on, with its own file at most.                                  *)
<1>m. ASSUME NEW from \in Storing \cup {"test"}, NEW to \in Storing,
             Test!Pass(p, from, to), NEW n \in Test!FileName,
             \A m \in Test!FileName : m # n => store'[m] = store[m],
             (n = test[p].name /\ from # "test" /\ from # "failed") \/ store' = store,
             \A t \in Process \ {p} : test'[t] = test[t],
             test'[p].name = test[p].name \/ test'[p].name \in Test!Fresh,
             to # "failed" => /\ test'[p].name # Fixed
                              /\ store'[test'[p].name] \in {NoText, Empty, p},
             to = "read" => store'[test'[p].name] # NoText,
             to = "passed" => test'[p].password = p
      PROVE  PassInv'
  <2>1. \A t \in Process : stage'[t] = IF t = p THEN to ELSE stage[t]
    BY <1>m, <1>t DEF Test!Pass
  <2>2. ASSUME NEW t \in Process \ {p}, test'[t].name = test'[p].name
        PROVE  test'[p].name = Fixed
    BY <1>m, <1>o, <2>2 DEF Test!Fresh
  <2>3. ASSUME NEW t \in Process \ {p}, stage[t] \in Storing \ {"failed"}
        PROVE  store'[test'[t].name] = store[test[t].name]
    <3>1. test'[t].name = test[t].name /\ test[t].name \in Test!FileName /\ test[t].name # Fixed
      BY <1>m, <1>o, <1>t, <2>3
    <3>2. n = test[p].name => test[t].name # n
      BY <1>o, <3>1
    <3>3. QED
      BY <1>m, <3>1, <3>2
  <2>4. \A t, u \in Process : t # u /\ test'[t].name = test'[u].name => test'[t].name = Fixed
    BY <1>m, <1>o, <2>2
  <2>5. ASSUME NEW t \in Process
        PROVE  /\ stage'[t] \notin Storing => test'[t] = Test!NoTest
               /\ stage'[t] \in Storing \ {"failed"}
                    => test'[t].name # Fixed /\ store'[test'[t].name] \in {NoText, Empty, t}
               /\ stage'[t] = "read" => store'[test'[t].name] # NoText
               /\ stage'[t] = "passed" => test'[t].password = t
    <3>1. CASE t = p
      BY <1>m, <2>1, <3>1
    <3>2. CASE t # p
      BY <1>m, <1>o, <2>1, <2>3, <3>2 DEF Storing
    <3>3. QED
      BY <3>1, <3>2
  <2>6. QED
    BY <2>4, <2>5 DEF PassInv, Storing, Test!NoTest
<1> DEFINE own == test[p].name
<1>n. own \in Test!FileName /\ Fixed \in Test!FileName
  BY <1>t DEF Test!FileName
<1>f. ASSUME NEW from \in {"test", "store", "load", "read"}, Test!Fail(p, from) PROVE PassInv'
  BY <1>f, <1>m, <1>n DEF Test!Fail, Storing
<1>1. CASE Test!Generate(p)
  <2>1. CASE Test!Fail(p, "test")
    BY <2>1, <1>f
  <2>2. ASSUME Test!Pass(p, "test", "store"), store' = store,
               NEW n \in Test!Fresh, test' = [test EXCEPT ![p].name = n]
        PROVE  PassInv'
    <3>1. test[p].name = Fixed
      BY <2>2, <1>o DEF Test!Pass, Storing, Test!NoTest
    <3>2. n # Fixed /\ store[n] = NoText /\ test'[p].name = n
          /\ \A t \in Process \ {p} : test'[t] = test[t]
      BY <2>2, <3>1, <1>t DEF Test!Fresh
    <3>3. QED
      BY <2>2, <3>2, <1>m, <1>n DEF Storing
  <2>3. QED
    BY <1>1, <2>1, <2>2 DEF Test!Generate
<1>2. CASE Test!OpenStore(p, directory)
  <2>1. ASSUME Test!Pass(p, "store", "write"), store' = [store EXCEPT ![own] = Empty], test' = test
        PROVE  PassInv'
    <3>1. own # Fixed /\ store'[own] = Empty /\ \A m \in Test!FileName : m # own => store'[m] = store[m]
      BY <2>1, <1>o, <1>t, <1>n DEF Test!Pass, Storing
    <3>2. QED
      BY <2>1, <3>1, <1>m, <1>n DEF Storing
  <2>2. QED
    BY <1>2, <2>1, <1>f DEF Test!OpenStore
<1>3. CASE Test!CloseStore(p)
  <2>1. own # Fixed /\ store[own] \in {NoText, Empty, p} /\ test' = test
    BY <1>3, <1>o DEF Test!CloseStore, Test!Pass, Storing
  <2>2. store'[own] \in {NoText, Empty, p} /\ \A m \in Test!FileName : m # own => store'[m] = store[m]
    BY <1>3, <2>1, <1>t, <1>n DEF Test!CloseStore
  <2>3. QED
    BY <1>3, <2>1, <2>2, <1>m, <1>n DEF Test!CloseStore, Storing
<1>4. CASE Test!OpenLoad(p)
  <2>1. ASSUME Test!Pass(p, "load", "read"), store[own] # NoText, store' = store, NEW s,
               test' = [test EXCEPT ![p].size = s]
        PROVE  PassInv'
    <3>1. own # Fixed /\ store[own] \in {NoText, Empty, p}
      BY <2>1, <1>o DEF Test!Pass, Storing
    <3>2. test'[p].name = own /\ \A t \in Process \ {p} : test'[t] = test[t]
      BY <2>1, <1>t
    <3>3. QED
      BY <2>1, <3>1, <3>2, <1>m, <1>n DEF Storing
  <2>2. QED
    BY <1>4, <2>1, <1>f DEF Test!OpenLoad, Test!Stored
<1>5. CASE Test!ReadLoad(p)
  <2>1. ASSUME Test!Pass(p, "read", "passed"), store[own] # Empty, store' = store,
               test' = [test EXCEPT ![p].password = store[own]]
        PROVE  PassInv'
    <3>1. own # Fixed /\ store[own] = p
      BY <2>1, <1>o DEF Test!Pass, Storing
    <3>2. /\ test'[p].name = own /\ test'[p].password = p
          /\ \A t \in Process \ {p} : test'[t] = test[t]
      BY <2>1, <3>1, <1>t
    <3>3. QED
      BY <2>1, <3>1, <3>2, <1>m, <1>n DEF Storing
  <2>2. QED
    BY <1>5, <2>1, <1>f DEF Test!ReadLoad, Test!Stored
<1>6. QED
  BY <1>1, <1>2, <1>3, <1>4, <1>5 DEF Test!TestStep

(* Any other step: a tester stays where it is, or what it knew is gone;    *)
(* files may be removed, but not under a reader.                           *)
LEMMA PassBeside ==
  ASSUME Test!StoreTypeOK, PassInv,
         \A t \in Process :
           \/ test'[t] = Test!NoTest /\ stage'[t] \notin Storing
           \/ /\ test'[t] = test[t]
              /\ stage'[t] = stage[t] \/ (stage'[t] \notin Storing /\ stage[t] \notin Storing),
         \A n \in Test!FileName : store'[n] \in {store[n], NoText},
         \A t \in Process : stage'[t] = "read" => store'[test[t].name] = store[test[t].name]
  PROVE  PassInv'
<1> SUFFICES ASSUME "name" \notin CryptoFaults PROVE PassInv'
  BY DEF PassInv
<1> DEFINE Own(t) ==
      /\ stage[t] \notin Storing => test[t] = Test!NoTest
      /\ stage[t] \in Storing \ {"failed"}
           => test[t].name # Fixed /\ store[test[t].name] \in {NoText, Empty, t}
      /\ stage[t] = "read" => store[test[t].name] # NoText
      /\ stage[t] = "passed" => test[t].password = t
<1>0. Test!NoTest.name = Fixed
  BY DEF Test!NoTest
<1>1. /\ \A t, u \in Process : t # u /\ test[t].name = test[u].name => test[t].name = Fixed
      /\ \A t \in Process : Own(t)
  BY DEF PassInv, Storing
<1>2. \A t, u \in Process : t # u /\ test'[t].name = test'[u].name => test'[t].name = Fixed
  BY <1>0, <1>1
<1>3. ASSUME NEW t \in Process PROVE Own(t)'
  <2>1. test[t].name \in Test!FileName
    BY DEF Test!StoreTypeOK
  <2>2. Own(t)
    BY <1>1
  <2>3. CASE test'[t] = Test!NoTest /\ stage'[t] \notin Storing
    BY <2>3 DEF Storing
  <2>4. CASE test'[t] = test[t] /\ stage'[t] = stage[t]
    BY <2>1, <2>2, <2>4
  <2>5. CASE test'[t] = test[t] /\ stage'[t] \notin Storing /\ stage[t] \notin Storing
    BY <2>2, <2>5 DEF Storing
  <2>6. QED
    BY <2>3, <2>4, <2>5
<1>4. QED
  BY <1>2, <1>3 DEF PassInv, Storing, Test!NoTest

LEMMA PassNext ==
  ASSUME SysInv, PassInv, [SysNext]_sysvars
  PROVE  PassInv'
<1>t. Test!StoreTypeOK /\ stage \in [Process -> Stages]
  BY DEF SysInv, SysTypeOK
<1>s. ASSUME UNCHANGED <<store, test>>,
             \A t \in Process : \/ stage'[t] = stage[t]
                                \/ stage'[t] \notin Storing /\ stage[t] \notin Storing
      PROVE  PassInv'
  BY <1>s, <1>t, PassBeside
<1>m. ASSUME NEW p \in Process, NEW from, NEW to, At(p, from, to), from \notin Storing,
             to \notin Storing, UNCHANGED <<store, test>>
      PROVE  PassInv'
  BY <1>m, <1>s, <1>t DEF At
<1>d. ASSUME NEW victims \in SUBSET Process, Closed(victims),
             \A t \in victims : stage'[t] \notin Storing,
             \A t \in Process \ victims :
                \/ stage'[t] = stage[t]
                \/ stage'[t] \notin Storing /\ stage[t] \notin Storing
      PROVE  PassInv'
  <2>1. store' = store /\ \A t \in Process : test'[t] = IF t \in victims THEN Test!NoTest ELSE test[t]
    BY <1>d DEF Closed, Test!Forgotten
  <2>2. QED
    BY <2>1, <1>d, <1>t, PassBeside
<1>o. "off" \notin Storing
  BY DEF Storing
<1>l. ASSUME NEW p \in Process, Leave(p) PROVE PassInv'
  BY <1>l, <1>d, <1>o, <1>t DEF Leave
<1>g. ASSUME NEW p \in Process, NEW from, NEW to, Gate(p, from, to), from \notin Storing,
             to \notin Storing
      PROVE  PassInv'
  BY <1>g, <1>l, <1>m DEF Gate, beside, passwords
<1>1. ASSUME NEW p \in Process, Instance(p) PROVE PassInv'
  <2> USE DEF beside, passwords
  <2>n. {"gate_window", "gate_debug", "gate_test", "window_gate", "window", "apply", "applying",
         "debug", "debug_save", "debug_saving", "debug_applying", "debug_reapplying", "stop",
         "reset", "stopped", "restore", "remove", "off", "test"} \cap Storing = {}
    BY DEF Storing
  <2>1. ASSUME NEW options \in CommandLines, Launch(p, options) PROVE PassInv'
    <3>1. FirstStage(options) \notin Storing
      BY DEF FirstStage, Storing
    <3>2. QED
      BY <2>1, <3>1, <2>n, <1>m DEF Launch
  <2>2. CASE WmainGate(p) \/ WindowGate(p)
    BY <2>2, <1>g, <2>n DEF WmainGate, WindowGate
  <2>3. CASE CloseWindow(p) \/ Decline(p) \/ Stopped(p) \/ TestEnds(p) \/ DebugEnds(p)
             \/ RestoreFails(p)
    BY <2>3, <1>l DEF CloseWindow, Decline, Stopped, TestEnds, DebugEnds, RestoreFails
  <2>4. CASE TypeText(p) \/ ImportFile(p)
    BY <2>4, <1>s DEF TypeText, ImportFile, SetText
  <2>5. CASE ClickApply(p) \/ StartApply(p)
    BY <2>5, <1>m, <2>n DEF ClickApply, StartApply
  <2>6. CASE DebugLoad(p) \/ DebugSave(p) \/ DebugApply(p) \/ DebugReapply(p)
    BY <2>6, <1>m, <2>n DEF DebugLoad, DebugSave, DebugApply, DebugReapply
  <2>7. CASE Answered(p)
    BY <2>7, <1>l, <1>m, <2>n DEF Answered
  <2>8. CASE Restore(p)
    BY <2>8, <1>m, <2>n DEF Restore
  <2>9. ASSUME NEW from, NEW to, TerminateOthers(p, from, to), from \notin Storing, to \notin Storing
        PROVE  PassInv'
    BY <2>9, <1>d, <1>o DEF TerminateOthers
  <2>10. CASE ConfirmStop(p) \/ ConfirmReset(p)
    BY <2>10, <2>9, <2>n DEF ConfirmStop, ConfirmReset
  <2>11. CASE RemoveData(p)
    <3>1. PICK kept \in SUBSET Test!FileName : Test!Held \subseteq kept /\ Test!RemovedBut(kept)
      BY <2>11 DEF RemoveData
    <3>2. test' = test /\ At(p, "remove", "off")
      BY <2>11 DEF RemoveData
    <3>3. \A n \in Test!FileName : store'[n] = IF n \in kept THEN store[n] ELSE NoText
      BY <3>1 DEF Test!RemovedBut
    <3>4. ASSUME NEW t \in Process, stage'[t] = "read"
          PROVE  store'[test[t].name] = store[test[t].name]
      <4>1. stage[t] = "read" /\ test[t].name \in Test!FileName
        BY <3>2, <3>4, <1>t DEF At, Test!StoreTypeOK
      <4>2. test[t].name \in kept
        BY <3>1, <4>1 DEF Test!Held
      <4>3. QED
        BY <3>3, <4>1, <4>2
    <3>5. \A t \in Process : \/ stage'[t] = stage[t]
                             \/ stage'[t] \notin Storing /\ stage[t] \notin Storing
      BY <3>2, <2>n, <1>t DEF At
    <3>6. \A n \in Test!FileName : store'[n] \in {store[n], NoText}
      BY <3>3
    <3>7. QED
      BY <3>2, <3>4, <3>5, <3>6, <1>t, PassBeside
  <2>12. CASE TestCryptoFunctions(p)
    <3>1. CASE "name" \in CryptoFaults
      BY <3>1 DEF PassInv
    <3>2. QED
      BY <2>12, <3>1, PassTest DEF TestCryptoFunctions
  <2>13. CASE InCall(p) \/ InWriter(p)
    BY <2>13, <1>s DEF InCall, InWriter
  <2>14. QED
    BY <1>1, <2>1, <2>2, <2>3, <2>4, <2>5, <2>6, <2>7, <2>8, <2>10, <2>11, <2>12, <2>13
    DEF Instance
<1>2. CASE World
  <2>1. ASSUME NEW p \in Process, stage' = [stage EXCEPT ![p] = "off"], Closed({p}) PROVE PassInv'
    BY <2>1, <1>d, <1>o, <1>t
  <2>2. ASSUME stage' = [p \in Process |-> "off"], Closed(Process) PROVE PassInv'
    BY <2>2, <1>d, <1>o
  <2>3. CASE UNCHANGED <<stage, beside>>
    BY <2>3, <1>s DEF beside, passwords
  <2>4. QED
    BY <1>2, <2>1, <2>2, <2>3 DEF World
<1>3. CASE UNCHANGED sysvars
  BY <1>3, <1>s DEF sysvars, beside, passwords
<1>4. QED
  BY <1>1, <1>2, <1>3 DEF SysNext

(* Any number of instances that test at the same time, and any crash,      *)
(* stop, reset or loss between two of their steps: a test that passes read *)
(* the password it stored, unless the draw of a name can fail.             *)
THEOREM PasswordHolds == SysSpec => []PasswordKept
<1>1. SysInit => SysInv /\ HomeInv /\ PassInv
  BY SysTypeInit, HomeInit, PassStart
<1>2. SysInv /\ HomeInv /\ PassInv /\ [SysNext]_sysvars => SysInv' /\ HomeInv' /\ PassInv'
  BY SysTypeNext, PassNext
<1>3. PassInv => PasswordKept
  BY DEF PassInv, PasswordKept, Test!PassedMeansStored
<1>4. QED
  BY <1>1, <1>2, <1>3, PTL DEF SysSpec

---------------------------------------------------------------------------
(* Instances that were never at work together.                             *)

Ended(victims) ==
  /\ Terminated(victims)
  /\ UNCHANGED <<hosts, tmp, edits>>
  /\ UNCHANGED writer \/ (victims = Process /\ \A p \in Process : hw'[p] = "none" /\ src'[p] = <<>>)

(* What a step of the program is to its files and calls.                   *)
LEMMA StepView ==
  ASSUME SysTypeOK, [SysNext]_sysvars
  PROVE  \/ \E p \in Process, options \in CommandLines : Launch(p, options)
         \/ \E p \in Process : Restore(p)
         \/ /\ overlap' = overlap
            /\ \/ \E p \in Process : CallStep(p) \/ ProgramStep(p) \/ WriterStep(p)
               \/ \E victims \in SUBSET Process : Ended(victims)
               \/ \E f \in EditFiles : UserEdit(f)
               \/ UNCHANGED vars
<1> DEFINE Goal == /\ overlap' = overlap
                   /\ \/ \E p \in Process : CallStep(p) \/ ProgramStep(p) \/ WriterStep(p)
                      \/ \E victims \in SUBSET Process : Ended(victims)
                      \/ \E f \in EditFiles : UserEdit(f)
                      \/ UNCHANGED vars
<1> USE DEF files, bounds, observed
<1>e. ASSUME NEW victims \in SUBSET Process, Ended(victims), overlap' = overlap PROVE Goal
  BY <1>e
<1>u. ASSUME UNCHANGED vars, overlap' = overlap PROVE Goal
  BY <1>u
<1>l. ASSUME NEW p \in Process, Leave(p) PROVE Goal
  <2>1. Ended({p}) /\ {p} \in SUBSET Process
    BY <1>l DEF Leave, Exit, Ended
  <2>2. overlap' = overlap
    BY <1>l DEF Leave
  <2>3. QED
    BY <2>1, <2>2, <1>e
<1> USE DEF beside
<1>g. ASSUME NEW p \in Process, NEW from, NEW to, Gate(p, from, to) PROVE Goal
  BY <1>g, <1>l, <1>u DEF Gate
<1>c. ASSUME NEW p \in Process, CallStep(p), overlap' = overlap PROVE Goal
  BY <1>c
<1>1. ASSUME NEW p \in Process, Instance(p)
      PROVE  Goal \/ (\E options \in CommandLines : Launch(p, options)) \/ Restore(p)
  <2>1. CASE WmainGate(p) \/ WindowGate(p)
    BY <2>1, <1>g DEF WmainGate, WindowGate
  <2>2. CASE CloseWindow(p) \/ Decline(p) \/ Stopped(p) \/ TestEnds(p) \/ DebugEnds(p)
             \/ RestoreFails(p)
    BY <2>2, <1>l DEF CloseWindow, Decline, Stopped, TestEnds, DebugEnds, RestoreFails
  <2>3. CASE TypeText(p) \/ ImportFile(p) \/ TestCryptoFunctions(p)
    BY <2>3, <1>u DEF TypeText, ImportFile, SetText, TestCryptoFunctions
  <2>4. CASE ClickApply(p)
    <3>1. Parsed(edit[p]) \in DomainLists \cup {<<>>}
      BY TextAssumption DEF SysTypeOK, Typings
    <3>2. CallStep(p)
      BY <2>4, <3>1 DEF ClickApply, LoadDomains, CallStep
    <3>3. QED
      BY <2>4, <3>2, <1>c DEF ClickApply
  <2>5. CASE DebugLoad(p)
    BY <2>5, <1>c, DebugAssumption DEF DebugLoad, CallStep
  <2>6. CASE StartApply(p) \/ DebugSave(p) \/ DebugApply(p) \/ DebugReapply(p)
    BY <2>6, <1>c DEF StartApply, DebugSave, DebugApply, DebugReapply, CallStep
  <2>7. CASE Answered(p)
    BY <2>7, <1>l, <1>u DEF Answered
  <2>8. CASE ConfirmStop(p) \/ ConfirmReset(p)
    <3>1. Ended(Process \ {p}) /\ Process \ {p} \in SUBSET Process /\ overlap' = overlap
      BY <2>8 DEF ConfirmStop, ConfirmReset, TerminateOthers, Ended
    <3>2. QED
      BY <3>1, <1>e
  <2>9. CASE RemoveData(p)
    <3>1. Ended({p}) /\ {p} \in SUBSET Process /\ overlap' = overlap
      BY <2>9 DEF RemoveData, Ended
    <3>2. QED
      BY <3>1, <1>e
  <2>10. CASE InCall(p) \/ InWriter(p)
    BY <2>10 DEF InCall, InWriter
  <2>11. QED
    BY <1>1, <2>1, <2>2, <2>3, <2>4, <2>5, <2>6, <2>7, <2>8, <2>9, <2>10 DEF Instance
<1>2. CASE World
  <2>1. ASSUME NEW p \in Process, Kill(p), UNCHANGED observed PROVE Goal
    <3>1. Ended({p}) /\ {p} \in SUBSET Process
      BY <2>1 DEF Kill, Ended
    <3>2. QED
      BY <2>1, <3>1, <1>e
  <2>2. ASSUME Reboot, UNCHANGED observed PROVE Goal
    <3>1. Ended(Process)
      BY <2>2 DEF Reboot, Ended
    <3>2. QED
      BY <2>2, <3>1, <1>e
  <2>3. QED
    BY <1>2, <2>1, <2>2 DEF World
<1>3. CASE UNCHANGED sysvars
  BY <1>3, <1>u DEF sysvars
<1>4. QED
  BY <1>1, <1>2, <1>3 DEF SysNext

LEMMA WaitNext ==
  ASSUME SysInv, WaitInv, [SysNext]_sysvars
  PROVE  WaitInv'
<1>t. TypeOK
  BY DEF SysInv, TypeInv
<1>o. ASSUME NEW p \in Process, \A q \in Process \ {p} : pc'[q] = pc[q] /\ hw'[q] = hw[q],
             hw'[p] = "none" \/ pc'[p] \in {"wait", "dead"}
      PROVE  WaitInv'
  BY <1>o DEF WaitInv
<1>1. ASSUME NEW p \in Process, CallStep(p) PROVE WaitInv'
  <2>1. pc[p] = "idle" /\ hw' = hw
    BY <1>1 DEF CallStep, LoadDomains, ApplyBlock, ReapplyBlock, BackupHosts, Call, writer
  <2>2. hw'[p] = "none"
    BY <2>1 DEF WaitInv
  <2>3. QED
    BY <1>1, <1>t, <1>o, <2>2, CallLocal DEF Untouched
<1>2. ASSUME NEW p \in Process, ProgramStep(p) PROVE WaitInv'
  <2>1. (hw' = hw /\ pc[p] \notin {"wait", "dead"}) \/ LaunchWriter(p) \/ Finish(p)
    BY <1>2 DEF ProgramStep, CheckBackup, BeginBackup, CopyBackupLine, CopyBackup, BackupFails,
       LeaveBackup, HoldsBackup, SaveCopied, OpenHosts, OpenHostsFails, ReadLine, BuildContent,
       OpenTmp, OpenTmpFails, WriteTmp, CloseTmp, WriteTmpShort, WriteTmpFails, WriteUpTo,
       HoldsTmp, LaunchFails, Goto, writer
  <2>2. hw'[p] = "none" \/ pc'[p] = "wait"
    BY <2>1, <1>t DEF WaitInv, LaunchWriter, Finish, Goto, TypeOK
  <2>3. QED
    BY <1>2, <1>t, <1>o, <2>2, CallLocal DEF Untouched
<1>3. ASSUME NEW p \in Process, WriterStep(p) PROVE WaitInv'
  <2>1. pc'[p] \in {"wait", "dead"}
    BY <1>3, <1>t, WriterLocal DEF WaitInv, Writing
  <2>2. QED
    BY <1>3, <1>t, <1>o, <2>1, WriterLocal DEF Untouched
<1>4. ASSUME NEW victims \in SUBSET Process, Ended(victims) PROVE WaitInv'
  BY <1>4 DEF Ended, Terminated, WaitInv, writer
<1>5. ASSUME NEW p \in Process, NEW options \in CommandLines, Launch(p, options) PROVE WaitInv'
  BY <1>5, <1>t DEF Launch, StartInstance, Goto, WaitInv, TypeOK
<1>6. ASSUME UNCHANGED <<pc, hw>> PROVE WaitInv'
  BY <1>6 DEF WaitInv
<1>7. QED
  BY <1>1, <1>2, <1>3, <1>4, <1>5, <1>6, StepView DEF SysInv, Restore, UserEdit, writer, vars

(* What was once overlapping stays so, and nothing but a start is new.     *)
LEMMA SoloNext ==
  ASSUME SysInv, SoloInv, [SysNext]_sysvars
  PROVE  /\ SoloInv'
         /\ overlap => overlap'
         /\ edits = 0 \/ edits' # 0
<1>t. TypeOK /\ overlap \in BOOLEAN
  BY DEF SysInv, TypeInv, SysTypeOK
<1> DEFINE Goal == SoloInv' /\ (overlap => overlap') /\ (edits = 0 \/ edits' # 0)
<1>s. ASSUME overlap' = overlap, \A q \in Process : Active(q)' => Active(q),
             edits' \in {edits, edits + 1}
      PROVE  Goal
  BY <1>s, <1>t DEF SoloInv, Alone, TypeOK
<1>1. ASSUME NEW p \in Process, CallStep(p) \/ ProgramStep(p), overlap' = overlap PROVE Goal
  <2>1. Active(p) /\ edits' = edits /\ \A q \in Process \ {p} : Untouched(q)
    BY <1>1, <1>t, CallAlive, CallLocal DEF Active
  <2>2. QED
    BY <1>1, <1>s, <2>1 DEF Untouched, Active, Writing
<1>2. ASSUME NEW p \in Process, WriterStep(p), overlap' = overlap PROVE Goal
  <2>1. Active(p) /\ edits' = edits /\ \A q \in Process \ {p} : Untouched(q)
    BY <1>2, <1>t, WriterLocal DEF Active, bounds
  <2>2. QED
    BY <1>2, <1>s, <2>1 DEF Untouched, Active, Writing
<1>3. ASSUME NEW victims \in SUBSET Process, Ended(victims), overlap' = overlap PROVE Goal
  BY <1>3, <1>s DEF Ended, Terminated, Active, Writing, writer
<1>4. ASSUME NEW p \in Process, NEW options \in CommandLines, Launch(p, options) PROVE Goal
  <2>1. /\ overlap' = (overlap \/ ~Alone(p)) /\ edits' = edits
        /\ \A q \in Process \ {p} : Active(q)' = Active(q)
    BY <1>4, <1>t DEF Launch, StartInstance, Goto, Alone, Active, Alive, Writing, TypeOK, bounds
  <2>2. QED
    BY <2>1, <1>t DEF SoloInv, Alone
<1>5. ASSUME UNCHANGED <<pc, hw, overlap>>, edits' \in {edits, edits + 1} PROVE Goal
  BY <1>5, <1>s DEF Active, Writing
<1>6. QED
  BY <1>1, <1>2, <1>3, <1>4, <1>5, StepView DEF SysInv, Restore, UserEdit, writer, bounds, vars

(* An instance at work without the others finds them dead.                 *)
LEMMA SoloStep ==
  ASSUME SysInv, SoloInv, ~overlap, NEW p \in Process,
         CallStep(p) \/ ProgramStep(p) \/ WriterStep(p)
  PROVE  /\ \A q \in Process \ {p} : ~Active(q)
         /\ \A q \in Process \ {p} : Untouched(q) /\ base'[q] \in {base[q], NoFile}
<1>t. TypeOK
  BY DEF SysInv, TypeInv
<1>1. Active(p)
  BY <1>t, CallAlive, WriterLocal DEF Active
<1>2. \A q \in Process \ {p} : ~Active(q)
  BY <1>1 DEF SoloInv, Alone
<1>3. QED
  BY <1>2, <1>t, CallLocal, WriterLocal

LEMMA CallsNext ==
  ASSUME "flush" \notin Faults, SysInv, SoloInv, CallsInv, [SysNext]_sysvars
  PROVE  CallsInv'
<1>t. TypeInv /\ TypeOK
  BY DEF SysInv, TypeInv
<1> SUFFICES ASSUME ~overlap', NEW p \in Process PROVE CallInv(p)'
  BY DEF CallsInv
<1>0. ~overlap
  BY SoloNext
<1>p. CallInv(p)
  BY <1>0 DEF CallsInv
<1>1. ASSUME NEW q \in Process, CallStep(q) \/ ProgramStep(q) \/ WriterStep(q) PROVE CallInv(p)'
  <2>1. CASE q = p
    BY <1>1, <1>p, <1>t, <2>1, CallNext
  <2>2. CASE q # p
    <3>1. ~Active(p) /\ Untouched(p) /\ base'[p] \in {base[p], NoFile}
      BY <1>0, <1>1, <2>2, SoloStep
    <3>2. QED
      BY <1>p, <3>1, CallInactive
  <2>3. QED
    BY <2>1, <2>2
<1>2. ASSUME NEW victims \in SUBSET Process, Ended(victims) PROVE CallInv(p)'
  BY <1>2, <1>p, <1>t, CallTerminated DEF Ended, writer
<1>3. ASSUME NEW q \in Process, NEW options \in CommandLines, Launch(q, options) PROVE CallInv(p)'
  BY <1>3, <1>p, <1>t, CallStarted DEF Launch
<1>4. ASSUME NEW f \in EditFiles, UserEdit(f) PROVE CallInv(p)'
  <2>1. Untouched(p) /\ base'[p] = NoFile /\ ~Copying(p) /\ tmp' = tmp
    BY <1>4 DEF UserEdit, Untouched, locals, writer
  <2>2. QED
    BY <2>1, <1>p, CallEdited
<1>5. ASSUME NEW q \in Process, Restore(q) PROVE CallInv(p)'
  <2>1. Untouched(p) /\ base'[p] = NoFile /\ ~Copying(p) /\ tmp' = tmp
    BY <1>5 DEF Restore, Untouched, locals, writer
  <2>2. QED
    BY <2>1, <1>p, CallEdited
<1>6. CASE UNCHANGED vars
  <2>1. Untouched(p) /\ base'[p] = base[p] /\ UNCHANGED <<hosts, tmp>>
    BY <1>6 DEF vars, files, locals, writer, history, Untouched
  <2>2. QED
    BY <2>1, <1>p, CallSame
<1>7. QED
  BY <1>1, <1>2, <1>3, <1>4, <1>5, <1>6, StepView DEF SysInv

(* A call that has read its file came there by opening it.                 *)
LEMMA ReadStep ==
  ASSUME TypeInv, NEW p \in Process, CallStep(p) \/ ProgramStep(p), pc'[p] = "read" \/ Composing(p)'
  PROVE  \/ base'[p] # NoFile
         \/ (pc[p] = "read" \/ Composing(p)) /\ base'[p] = base[p]
<1> USE DEF Goto, TypeInv, TypeOK, Composing, history
<1>f. ASSUME NEW r, Finished(p, r) PROVE FALSE
  BY <1>f DEF Finished
<1>1. CASE CallStep(p)
  BY <1>1, <1>f DEF CallStep, LoadDomains, ApplyBlock, ReapplyBlock, BackupHosts, EnterApply, Call
<1>2. CASE CheckBackup(p) \/ BackupFails(p) \/ BeginBackup(p) \/ CopyBackup(p) \/ SaveCopied(p)
  BY <1>2, <1>f DEF CheckBackup, BackupFails, LeaveBackup, BeginBackup, CopyBackup, SaveCopied
<1>2l. CASE CopyBackupLine(p)
  BY <1>2l DEF CopyBackupLine, HoldsBackup
<1>3. CASE OpenHosts(p) \/ OpenHostsFails(p) \/ ReadLine(p) \/ BuildContent(p)
  BY <1>3, <1>f DEF OpenHosts, OpenHostsFails, ReadLine, BuildContent
<1>4. CASE OpenTmp(p) \/ OpenTmpFails(p) \/ WriteTmpFails(p)
  BY <1>4, <1>f DEF OpenTmp, OpenTmpFails, WriteTmpFails
<1>4w. CASE WriteTmp(p) \/ CloseTmp(p) \/ WriteTmpShort(p)
  BY <1>4w DEF WriteTmp, CloseTmp, WriteTmpShort, WriteUpTo
<1>5. CASE LaunchWriter(p) \/ LaunchFails(p) \/ Finish(p)
  BY <1>5, <1>f DEF LaunchWriter, LaunchFails, Finish
<1>6. QED
  BY <1>1, <1>2, <1>2l, <1>3, <1>4, <1>4w, <1>5 DEF ProgramStep

LEMMA ReadNext ==
  ASSUME SysInv, SoloInv, ReadInv, [SysNext]_sysvars
  PROVE  ReadInv'
<1>t. TypeInv /\ TypeOK
  BY DEF SysInv, TypeInv
<1> SUFFICES ASSUME ~overlap', edits' = 0, NEW p \in Process, pc'[p] = "read" \/ Composing(p)'
             PROVE  base'[p] # NoFile
  BY DEF ReadInv
<1>0. ~overlap /\ edits = 0
  BY SoloNext
<1>p. pc[p] = "read" \/ Composing(p) => base[p] # NoFile
  BY <1>0 DEF ReadInv
<1>1. ASSUME NEW q \in Process, CallStep(q) \/ ProgramStep(q) \/ WriterStep(q)
      PROVE  base'[p] # NoFile
  <2>1. CASE q = p /\ (CallStep(p) \/ ProgramStep(p))
    BY <1>p, <1>t, <2>1, ReadStep
  <2>2. CASE q = p /\ WriterStep(p)
    BY <1>p, <1>t, <2>2, WriterLocal DEF Composing
  <2>3. CASE q # p
    <3>1. pc[p] = "dead" /\ Untouched(p)
      BY <1>0, <1>1, <2>3, SoloStep DEF Active
    <3>2. QED
      BY <3>1 DEF Untouched, Composing
  <2>4. QED
    BY <1>1, <2>1, <2>2, <2>3
<1>2. ASSUME NEW victims \in SUBSET Process, Ended(victims) PROVE base'[p] # NoFile
  BY <1>2, <1>p DEF Ended, Terminated, Composing
<1>3. ASSUME NEW q \in Process, NEW options \in CommandLines, Launch(q, options)
      PROVE  base'[p] # NoFile
  BY <1>3, <1>p, <1>t DEF Launch, StartInstance, Goto, Composing, TypeOK, history
<1>4. ASSUME NEW f \in EditFiles, UserEdit(f) PROVE FALSE
  BY <1>4, <1>0, <1>t DEF UserEdit, TypeOK
<1>5. ASSUME NEW q \in Process, Restore(q) PROVE FALSE
  <2>1. stage[q] = "restore" /\ pc' = pc
    BY <1>5 DEF Restore, At
  <2>2. pc[q] = "idle"
    BY <1>t, <2>1 DEF SysInv, SysTypeOK, TypeOK, Labels
  <2>3. pc[p] # "dead" /\ pc[p] # "idle"
    BY <2>1 DEF Composing
  <2>4. QED
    BY <1>0, <2>2, <2>3 DEF SoloInv, Alone, Active
<1>6. CASE UNCHANGED vars
  BY <1>6, <1>p DEF vars, history, Composing
<1>7. QED
  BY <1>1, <1>2, <1>3, <1>4, <1>5, <1>6, StepView DEF SysInv

---------------------------------------------------------------------------
(* What was reported as applied stays.                                     *)

LEMMA SaveNext ==
  ASSUME SysInv, SaveInv, [SysNext]_sysvars
  PROVE  SaveInv'
<1>t. TypeOK /\ stage \in [Process -> Stages]
  BY DEF SysInv, TypeInv, SysTypeOK
<1>s. ASSUME \A q \in Process : \/ stage'[q] # "debug_saving"
                                \/ stage'[q] = stage[q] /\ pc'[q] = pc[q]
      PROVE  SaveInv'
  BY <1>s DEF SaveInv
<1>m. ASSUME NEW p \in Process, NEW from, NEW to, At(p, from, to), to # "debug_saving",
             \A q \in Process \ {p} : pc'[q] = pc[q]
      PROVE  SaveInv'
  BY <1>m, <1>s, <1>t DEF At
<1>l. ASSUME NEW p \in Process, Leave(p) PROVE SaveInv'
  BY <1>l, <1>s, <1>t DEF Leave, Exit, Terminated
<1>g. ASSUME NEW p \in Process, NEW from, NEW to, Gate(p, from, to), to # "debug_saving"
      PROVE  SaveInv'
  BY <1>g, <1>l, <1>m DEF Gate, vars
<1>c. ASSUME NEW p \in Process, CallStep(p) PROVE \A q \in Process \ {p} : pc'[q] = pc[q]
  BY <1>c, <1>t, CallLocal DEF Untouched
<1>1. ASSUME NEW p \in Process, Instance(p) PROVE SaveInv'
  <2> USE DEF vars
  <2>1. ASSUME NEW options \in CommandLines, Launch(p, options) PROVE SaveInv'
    <3>1. FirstStage(options) # "debug_saving"
      BY DEF FirstStage
    <3>2. QED
      BY <2>1, <3>1, <1>m, <1>t DEF Launch, StartInstance, Goto, TypeOK
  <2>2. CASE WmainGate(p) \/ WindowGate(p)
    BY <2>2, <1>g DEF WmainGate, WindowGate
  <2>3. CASE CloseWindow(p) \/ Decline(p) \/ Stopped(p) \/ TestEnds(p) \/ DebugEnds(p)
             \/ RestoreFails(p)
    BY <2>3, <1>l DEF CloseWindow, Decline, Stopped, TestEnds, DebugEnds, RestoreFails
  <2>4. CASE TypeText(p) \/ ImportFile(p)
    BY <2>4, <1>s DEF TypeText, ImportFile, SetText
  <2>5. CASE ClickApply(p) \/ DebugLoad(p)
    BY <2>5, <1>m DEF ClickApply, DebugLoad, LoadDomains
  <2>6. CASE StartApply(p) \/ DebugApply(p) \/ DebugReapply(p)
    BY <2>6, <1>m, <1>c DEF StartApply, DebugApply, DebugReapply, CallStep
  <2>7. CASE DebugSave(p)
    <3>1. pc'[p] \in {"idle", "save_copy"}
      BY <2>7, <1>t DEF DebugSave, BackupHosts, Finished, TypeOK
    <3>2. \A q \in Process \ {p} : pc'[q] = pc[q] /\ stage'[q] = stage[q]
      BY <2>7, <1>c, <1>t DEF DebugSave, CallStep, At
    <3>3. QED
      BY <3>1, <3>2 DEF SaveInv
  <2>8. CASE Answered(p)
    BY <2>8, <1>l, <1>m DEF Answered
  <2>9. CASE TestCryptoFunctions(p)
    <3>1. PICK from \in Test!Phases, to \in Test!Phases : At(p, from, to)
      BY <2>9 DEF TestCryptoFunctions, Test!TestStep, Test!Generate, Test!OpenStore, Test!CloseStore,
         Test!OpenLoad, Test!ReadLoad, Test!Fail, Test!Pass, Test!Phases, At
    <3>2. to # "debug_saving" /\ pc' = pc
      BY <2>9 DEF TestCryptoFunctions, Test!Phases
    <3>3. QED
      BY <3>1, <3>2, <1>m
  <2>10. CASE Restore(p)
    BY <2>10, <1>m DEF Restore
  <2>11. CASE RemoveData(p)
    BY <2>11, <1>m DEF RemoveData, Terminated
  <2>12. CASE ConfirmStop(p) \/ ConfirmReset(p)
    BY <2>12, <1>s DEF ConfirmStop, ConfirmReset, TerminateOthers
  <2>13. CASE InCall(p)
    <3>1. stage' = stage /\ \A q \in Process \ {p} : pc'[q] = pc[q]
      BY <2>13, <1>t, CallLocal DEF InCall, Untouched
    <3>2. pc[p] = "save_copy" => pc'[p] \in {"save_copy", "idle"}
      BY <2>13, <1>t DEF InCall, ProgramStep, CheckBackup, BeginBackup, CopyBackupLine,
         CopyBackup, BackupFails, LeaveBackup, SaveCopied, OpenHosts, OpenHostsFails, ReadLine,
         BuildContent, OpenTmp, OpenTmpFails, WriteTmp, CloseTmp, WriteTmpShort, WriteTmpFails,
         HoldsTmp, LaunchWriter, LaunchFails, Finish, Goto, Finished, TypeOK
    <3>3. pc[p] # "idle"
      BY <2>13, <1>t, CallAlive DEF InCall
    <3>4. QED
      BY <3>1, <3>2, <3>3 DEF SaveInv
  <2>14. CASE InWriter(p)
    BY <2>14, <1>s, <1>t, WriterLocal DEF InWriter
  <2>15. QED
    BY <1>1, <2>1, <2>2, <2>3, <2>4, <2>5, <2>6, <2>7, <2>8, <2>9, <2>10, <2>11, <2>12, <2>13, <2>14
    DEF Instance
<1>2. CASE World
  BY <1>2, <1>s, <1>t DEF World, Kill, Reboot, Terminated, UserEdit
<1>3. CASE UNCHANGED sysvars
  BY <1>3, <1>s DEF sysvars, vars
<1>4. QED
  BY <1>1, <1>2, <1>3 DEF SysNext

(* A text that stands in the hosts file blocks its list.                   *)
LEMMA TextBlocks ==
  ASSUME NEW ds \in Seq(Domain), NEW f \in Seq(Line), IsText(f, ds)
  PROVE  Blocked(f) /\ \A d \in Domains(ds) : Has(f, Entry(d))
<1>1. PICK n \in Nat : /\ Len(f) = n + Len(ds) + 2 /\ n + 1 \in 1..Len(f)
                       /\ BlockAt(f, n + 1, ds)
  BY TextMarkers
<1>2. Len(ds) \in Nat /\ Len(f) \in Nat
  OBVIOUS
<1>3. n + 1 \in 1..Len(f) /\ n + 1 + Len(ds) + 1 \in 1..Len(f)
  BY <1>1, <1>2
<1>4. Has(f, Start) /\ Has(f, End)
  BY <1>1, <1>3 DEF BlockAt, Has
<1>5. f # NoFile
  BY FileMembers
<1>6. ASSUME NEW d \in Domains(ds) PROVE Has(f, Entry(d))
  <2>1. PICK k \in 1..Len(ds) : ds[k] = d
    BY DEF Domains
  <2>2. n + 1 + k \in 1..Len(f)
    BY <1>1, <1>2
  <2>3. f[n + 1 + k] = Entry(d)
    BY <1>1, <2>1 DEF BlockAt
  <2>4. QED
    BY <2>2, <2>3 DEF Has
<1>7. QED
  BY <1>4, <1>5, <1>6 DEF Blocked

(* The step with which a call succeeds.                                    *)
LEMMA LockStarts ==
  ASSUME SysInv, SoloInv, CallsInv, ReadInv, SaveInv, WaitInv, ~overlap, edits = 0,
         promised = {}, NEW p \in Process, InCall(p), promised' # {}
  PROVE  Blocked(hosts') /\ (\A d \in promised' : Enforced(d)') /\ \A q \in Process : Locked(q)'
<1>t. TypeInv /\ TypeOK
  BY DEF SysInv, TypeInv
<1>1. ProgramStep(p) /\ result[p] # "applied" /\ result'[p] = "applied"
      /\ promised' = Domains(domains[p]) /\ stage' = stage
  BY DEF InCall
<1>2. pc[p] = "wait" /\ hw[p] = "ok" /\ hosts # NoFile /\ hosts' = hosts /\ Finish(p)
  BY <1>1, <1>t, OnlyFinishApplies
<1>3. CallInv(p) /\ base[p] # NoFile
  BY <1>2 DEF CallsInv, ReadInv, Composing
<1>4. hosts = content[p] /\ IsText(content[p], domains[p]) /\ domains[p] # <<>>
  BY <1>2, <1>3 DEF CallInv, BaseInv, Composing
<1>5. domains[p] \in Seq(Domain) /\ content[p] \in Seq(Line)
  BY <1>4, <1>t, ListsAssumption DEF TypeOK
<1>6. Blocked(hosts') /\ \A d \in promised' : Enforced(d)'
  BY <1>1, <1>2, <1>4, <1>5, TextBlocks DEF Enforced
<1>7. ASSUME NEW q \in Process PROVE Locked(q)'
  <2>1. CASE q = p
    <3>1. pc'[p] = "idle" /\ hw'[p] = "none" /\ result'[p] = "applied"
      BY <1>2, <1>1, <1>t DEF Finish, Finished, TypeOK
    <3>2. stage'[p] \in {"applying", "debug_applying", "debug_reapplying"}
      BY <1>1, <1>2 DEF SysInv, SysTypeOK, SaveInv
    <3>3. QED
      BY <2>1, <3>1, <3>2 DEF Locked, Opening, Writing
  <2>2. CASE q # p
    <3>1. ~Active(q) /\ Untouched(q)
      BY <1>1, <2>2, SoloStep
    <3>2. pc'[q] = "dead" /\ ~Writing(q)'
      BY <3>1 DEF Active, Untouched, Writing
    <3>3. stage'[q] = "off"
      BY <1>1, <3>1, <3>2 DEF SysInv, SysTypeOK, Active
    <3>4. QED
      BY <3>2, <3>3 DEF Locked, Opening
  <2>3. QED
    BY <2>1, <2>2
<1>8. QED
  BY <1>6, <1>7

(* Every other step, once something is promised.                           *)
LEMMA LockStays ==
  ASSUME "open" \notin Faults, SysInv, Blocked(hosts), \A p \in Process : Locked(p),
         [SysNext]_sysvars, edits' = 0, promised' # {}
  PROVE  hosts' = hosts /\ promised' = promised /\ \A p \in Process : Locked(p)'
<1>t. TypeOK /\ stage \in [Process -> Stages] /\ \A p \in Process : stage[p] = "off" <=> pc[p] = "dead"
  BY DEF SysInv, TypeInv, SysTypeOK
<1>b. IsBlocked = {TRUE}
  BY DEF IsBlocked, Blocked, Has
<1> DEFINE Goal == hosts' = hosts /\ promised' = promised /\ \A p \in Process : Locked(p)'
<1> USE DEF files, observed, beside, writer
(* One instance moves on between two calls.                                *)
<1>m. ASSUME NEW p \in Process, NEW from, NEW to, At(p, from, to), to \notin Opening,
             to = "applying" => result'[p] = "applied",
             UNCHANGED <<hosts, promised>>,
             \A q \in Process : hw'[q] \in {hw[q], "none"},
             \A q \in Process \ {p} : pc'[q] = pc[q] /\ result'[q] = result[q],
             pc'[p] \in {"idle", "dead"}
      PROVE  Goal
  BY <1>m, <1>t DEF At, Locked, Writing
(* Processes end.                                                          *)
<1>d. ASSUME NEW victims \in SUBSET Process, Terminated(victims), UNCHANGED <<hosts, promised>>,
             \A q \in Process : hw'[q] \in {hw[q], "none"},
             \A q \in victims : stage'[q] = "off",
             \A q \in Process \ victims : \/ stage'[q] = stage[q]
                                          \/ stage'[q] \in {"stopped", "restore"}
      PROVE  Goal
  <2>1. ASSUME NEW q \in Process PROVE Locked(q)'
    <3>1. Locked(q)
      OBVIOUS
    <3>2. CASE q \in victims
      BY <1>d, <3>1, <3>2 DEF Locked, Opening, Writing, Terminated
    <3>3. CASE q \notin victims
      BY <1>d, <3>1, <3>3 DEF Locked, Opening, Writing, Terminated
    <3>4. QED
      BY <3>2, <3>3
  <2>2. QED
    BY <1>d, <2>1
<1>u. ASSUME UNCHANGED <<hosts, promised, stage, pc, hw, result>> PROVE Goal
  BY <1>u DEF Locked, Writing
<1>l. ASSUME NEW p \in Process, Leave(p) PROVE Goal
  <2>1. {p} \in SUBSET Process /\ Terminated({p}) /\ UNCHANGED <<hosts, hw, promised>>
        /\ stage'[p] = "off" /\ \A q \in Process \ {p} : stage'[q] = stage[q]
    BY <1>l, <1>t DEF Leave, Exit
  <2>2. QED
    BY <2>1, <1>d
<1>g. ASSUME NEW p \in Process, NEW from, NEW to, Gate(p, from, to) PROVE Goal
  BY <1>g, <1>b, <1>l DEF Gate
<1>n. \A p \in Process : stage[p] \notin {"window", "apply", "debug", "debug_save", "debug_saving"}
  BY DEF Locked, Opening
<1>1. ASSUME NEW p \in Process, Instance(p) PROVE Goal
  <2>1. ASSUME NEW options \in CommandLines, Launch(p, options) PROVE Goal
    <3>1. FirstStage(options) \notin Opening /\ FirstStage(options) # "applying"
      BY DEF FirstStage, Opening
    <3>2. pc'[p] = "idle" /\ UNCHANGED <<hosts, result, promised>>
          /\ (\A q \in Process : hw'[q] \in {hw[q], "none"})
          /\ \A q \in Process \ {p} : pc'[q] = pc[q]
      BY <2>1, <1>t DEF Launch, StartInstance, Goto, TypeOK
    <3>3. QED
      BY <2>1, <3>1, <3>2, <1>m DEF Launch
  <2>2. CASE WmainGate(p) \/ WindowGate(p)
    BY <2>2, <1>g DEF WmainGate, WindowGate
  <2>3. CASE CloseWindow(p) \/ Decline(p) \/ Stopped(p) \/ TestEnds(p) \/ DebugEnds(p)
             \/ RestoreFails(p)
    BY <2>3, <1>l DEF CloseWindow, Decline, Stopped, TestEnds, DebugEnds, RestoreFails
  <2>4. ~(TypeText(p) \/ ImportFile(p) \/ ClickApply(p) \/ StartApply(p))
    BY <1>n DEF TypeText, ImportFile, SetText, ClickApply, StartApply, At
  <2>5. ~(DebugLoad(p) \/ DebugSave(p) \/ DebugApply(p))
    BY <1>n DEF DebugLoad, DebugSave, DebugApply, At
  <2>6. CASE DebugReapply(p)
    <3>1. Finished(p, "intact") /\ UNCHANGED <<hosts, hw, promised>>
      BY <2>6, <1>b DEF DebugReapply, ReapplyBlock, Call
    <3>2. pc'[p] = "idle" /\ \A q \in Process \ {p} : pc'[q] = pc[q] /\ result'[q] = result[q]
      BY <3>1, <1>t DEF Finished, TypeOK
    <3>3. QED
      BY <2>6, <3>1, <3>2, <1>m DEF DebugReapply, Opening
  <2>7. CASE Answered(p)
    <3>1. stage[p] = "applying" => result[p] = "applied"
      BY DEF Locked
    <3>2. QED
      BY <2>7, <3>1, <1>l DEF Answered, At
  <2>8. CASE ConfirmStop(p) \/ ConfirmReset(p)
    <3>1. /\ Process \ {p} \in SUBSET Process /\ Terminated(Process \ {p})
          /\ UNCHANGED <<hosts, hw, promised>>
      BY <2>8 DEF ConfirmStop, ConfirmReset, TerminateOthers
    <3>2. \A q \in Process : IF q = p THEN stage'[q] \in {"stopped", "restore"} ELSE stage'[q] = "off"
      BY <2>8 DEF ConfirmStop, ConfirmReset, TerminateOthers
    <3>3. QED
      BY <3>1, <3>2, <1>d
  <2>9. ~Restore(p)
    BY DEF Restore
  <2>10. CASE RemoveData(p)
    <3>1. {p} \in SUBSET Process /\ Terminated({p}) /\ UNCHANGED <<hosts, hw, promised>>
          /\ stage'[p] = "off" /\ \A q \in Process \ {p} : stage'[q] = stage[q]
      BY <2>10, <1>t DEF RemoveData, At
    <3>2. QED
      BY <3>1, <1>d
  <2>11. CASE TestCryptoFunctions(p)
    <3>1. PICK from \in Test!Phases, to \in Test!Phases : At(p, from, to)
      BY <2>11 DEF TestCryptoFunctions, Test!TestStep, Test!Generate, Test!OpenStore, Test!CloseStore,
         Test!OpenLoad, Test!ReadLoad, Test!Fail, Test!Pass, Test!Phases, At
    <3>2. to \notin Opening /\ to # "applying"
      BY DEF Test!Phases, Opening
    <3>3. pc'[p] \in {"idle", "dead"} /\ UNCHANGED <<hosts, promised, hw, pc, result>>
      BY <2>11 DEF TestCryptoFunctions, vars, Locked
    <3>4. QED
      BY <3>1, <3>2, <3>3, <1>m
  <2>12. ~InCall(p) /\ ~InWriter(p)
    BY <1>t, CallAlive, WriterLocal DEF InCall, InWriter, Locked
  <2>13. QED
    BY <1>1, <2>1, <2>2, <2>3, <2>4, <2>5, <2>6, <2>7, <2>8, <2>9, <2>10, <2>11, <2>12 DEF Instance
<1>2. CASE World
  <2>1. ASSUME NEW p \in Process, Kill(p), stage' = [stage EXCEPT ![p] = "off"], UNCHANGED observed
        PROVE  Goal
    <3>1. {p} \in SUBSET Process /\ Terminated({p}) /\ UNCHANGED <<hosts, hw, promised>>
          /\ stage'[p] = "off" /\ \A q \in Process \ {p} : stage'[q] = stage[q]
      BY <2>1, <1>t DEF Kill
    <3>2. QED
      BY <3>1, <1>d
  <2>2. ASSUME Reboot, stage' = [p \in Process |-> "off"], UNCHANGED observed PROVE Goal
    BY <2>2, <1>d DEF Reboot
  <2>3. ASSUME NEW f \in EditFiles, UserEdit(f) PROVE FALSE
    BY <2>3, <1>t DEF UserEdit, TypeOK
  <2>4. QED
    BY <1>2, <2>1, <2>2, <2>3 DEF World
<1>3. CASE UNCHANGED sysvars
  BY <1>3, <1>u DEF sysvars, vars
<1>4. QED
  BY <1>1, <1>2, <1>3 DEF SysNext

(* Only a call that goes on adds to what was promised.                     *)
LEMMA PromiseMade ==
  ASSUME [SysNext]_sysvars
  PROVE  promised' \in {promised, {}} \/ \E p \in Process : InCall(p)
<1> USE DEF observed, beside
<1>l. ASSUME NEW p \in Process, Leave(p) PROVE promised' = promised
  BY <1>l DEF Leave
<1>g. ASSUME NEW p \in Process, NEW from, NEW to, Gate(p, from, to) PROVE promised' = promised
  BY <1>g, <1>l DEF Gate
<1>1. ASSUME NEW p \in Process, Instance(p), ~InCall(p) PROVE promised' \in {promised, {}}
  <2>1. CASE WmainGate(p) \/ WindowGate(p)
    BY <2>1, <1>g DEF WmainGate, WindowGate
  <2>2. CASE CloseWindow(p) \/ Decline(p) \/ Stopped(p) \/ TestEnds(p) \/ DebugEnds(p)
             \/ RestoreFails(p) \/ Answered(p)
    BY <2>2, <1>l DEF CloseWindow, Decline, Stopped, TestEnds, DebugEnds, RestoreFails, Answered
  <2>3. CASE TypeText(p) \/ ImportFile(p) \/ ClickApply(p) \/ StartApply(p)
    BY <2>3 DEF TypeText, ImportFile, SetText, ClickApply, StartApply
  <2>4. CASE DebugLoad(p) \/ DebugSave(p) \/ DebugApply(p) \/ DebugReapply(p)
    BY <2>4 DEF DebugLoad, DebugSave, DebugApply, DebugReapply
  <2>5. CASE ConfirmStop(p) \/ ConfirmReset(p) \/ Restore(p) \/ RemoveData(p)
             \/ TestCryptoFunctions(p) \/ InWriter(p)
    BY <2>5 DEF ConfirmStop, ConfirmReset, TerminateOthers, Restore, RemoveData,
       TestCryptoFunctions, InWriter
  <2>6. CASE \E options \in CommandLines : Launch(p, options)
    BY <2>6 DEF Launch
  <2>7. QED
    BY <1>1, <2>1, <2>2, <2>3, <2>4, <2>5, <2>6 DEF Instance
<1>2. QED
  BY <1>1 DEF SysNext, World, sysvars

LEMMA LockNext ==
  ASSUME {"open", "flush"} \cap Faults = {}, SysInv, SoloInv, CallsInv, ReadInv, SaveInv, WaitInv,
         LockInv, [SysNext]_sysvars
  PROVE  LockInv'
<1> SUFFICES ASSUME promised' # {}, ~overlap', edits' = 0
             PROVE  /\ Blocked(hosts') /\ \A d \in promised' : Enforced(d)'
                    /\ \A p \in Process : Locked(p)'
  BY DEF LockInv
<1>0. ~overlap /\ edits = 0
  BY SoloNext
<1>1. CASE promised = {}
  BY <1>0, <1>1, PromiseMade, LockStarts
<1>2. CASE promised # {}
  <2>1. Blocked(hosts) /\ (\A d \in promised : Enforced(d)) /\ \A p \in Process : Locked(p)
    BY <1>0, <1>2 DEF LockInv
  <2>2. hosts' = hosts /\ promised' = promised /\ \A p \in Process : Locked(p)'
    BY <2>1, LockStays
  <2>3. QED
    BY <2>1, <2>2 DEF Enforced
<1>3. QED
  BY <1>1, <1>2

(* For any number of instances, any command lines, lists, texts and files, *)
(* any crash, stop and reset, and any faults but that isBlocked cannot     *)
(* open the file and that buffered text is lost: what a call reported as   *)
(* applied stays blocked until a reset, an edit by the user or two         *)
(* instances at work together.                                             *)
THEOREM LockedHolds ==
  ASSUME {"open", "flush"} \cap Faults = {}
  PROVE  SysSpec => []LockedStaysBlocked
<1> DEFINE Inv == /\ SysInv /\ HomeInv /\ WaitInv /\ SoloInv
                  /\ CallsInv /\ ReadInv /\ SaveInv /\ LockInv
<1>1. SysInit => Inv
  <2> SUFFICES ASSUME SysInit PROVE Inv
    OBVIOUS
  <2>1. Init /\ promised = {} /\ \A p \in Process : pc[p] = "dead" /\ hw[p] = "none" /\ stage[p] = "off"
    BY DEF SysInit, Init
  <2>2. WaitInv /\ SoloInv /\ CallsInv /\ ReadInv /\ SaveInv /\ LockInv
    BY <2>1, CallInit DEF WaitInv, SoloInv, CallsInv, ReadInv, SaveInv, LockInv, Active,
       Alone, Writing, Composing
  <2>3. QED
    BY <2>2, SysTypeInit, HomeInit
<1>2. Inv /\ [SysNext]_sysvars => Inv'
  <2> SUFFICES ASSUME Inv, [SysNext]_sysvars PROVE Inv'
    OBVIOUS
  <2>1. SysInv' /\ HomeInv'
    BY SysTypeNext
  <2>2. WaitInv' /\ SoloInv' /\ ReadInv' /\ SaveInv'
    BY WaitNext, SoloNext, ReadNext, SaveNext
  <2>3. CallsInv' /\ LockInv'
    BY CallsNext, LockNext
  <2>4. QED
    BY <2>1, <2>2, <2>3
<1>3. Inv => LockedStaysBlocked
  BY DEF LockInv, LockedStaysBlocked
<1>4. QED
  BY <1>1, <1>2, <1>3, PTL DEF SysSpec

---------------------------------------------------------------------------
(* The backup.                                                             *)

LEMMA NothingBlocked == ~Blocked(NoFile) /\ ~Blocked(<<>>)
  BY DEF Blocked, Has

(* The first lines of a file hold no block that the file does not hold.    *)
LEMMA CopiedUnblocked ==
  ASSUME NEW g \in Seq(Line), NEW f, CopiedFrom(f, g), ~Blocked(g)
  PROVE  f \in Seq(Line) /\ ~Blocked(f)
<1>1. PICK n \in 0..Len(g) : f = SubSeq(g, 1, n)
  BY DEF CopiedFrom
<1>2. f \in Seq(Line) /\ \A i \in 1..Len(f) : i \in 1..Len(g) /\ f[i] = g[i]
  BY <1>1
<1>3. \A line : Has(f, line) => Has(g, line)
  BY <1>2 DEF Has
<1>4. QED
  BY <1>2, <1>3, FileMembers DEF Blocked

LEMMA CopyBegun ==
  ASSUME NEW g \in Seq(Line)
  PROVE  CopiedFrom(<<>>, g)
<1>1. SubSeq(g, 1, 0) = <<>> /\ 0 \in 0..Len(g)
  OBVIOUS
<1>2. QED
  BY <1>1, FileMembers DEF CopiedFrom

(* A call begins.                                                          *)
LEMMA BackedBegins ==
  ASSUME "open" \notin Faults, SysInv, WaitInv, ~Blocked(backup), NEW p \in Process, Backed(p),
         CallStep(p), stage[p] \in Cleared \cup Saved, stage'[p] \in Cleared \cup Saved,
         stage'[p] \in Cleared => stage[p] \in Cleared,
         (backup' = backup /\ pc'[p] \in {"idle", "backup"}) \/ stage[p] \in Cleared
  PROVE  ~Blocked(backup') /\ Backed(p)' /\ (backup # NoFile => backup' # NoFile)
<1> USE DEF Call, writer
<1>t. TypeOK
  BY DEF SysInv, TypeInv
<1>0. pc[p] = "idle" /\ UNCHANGED <<hosts, hw>> /\ hw[p] = "none"
  BY DEF CallStep, LoadDomains, ApplyBlock, ReapplyBlock, BackupHosts, files, WaitInv
<1>e. ASSUME EnterApply(p) PROVE pc'[p] \in {"idle", "backup"}
  BY <1>e, <1>t DEF EnterApply, Finished, TypeOK
<1>1. CASE backup' = backup /\ pc'[p] \in {"idle", "backup"}
  BY <1>0, <1>1 DEF Backed, Cleared, Saved, Composing, HoldsBackup, Writing
<1>2. CASE BackupHosts(p) /\ stage[p] \in Cleared
  <2>1. CASE Finished(p, "failed") /\ backup' = backup
    <3>1. pc'[p] = "idle"
      BY <2>1, <1>t, FinishedLocal
    <3>2. QED
      BY <1>0, <1>2, <2>1, <3>1 DEF Backed, Composing, HoldsBackup, Writing
  <2>2. CASE StartCopy(p) /\ pc' = [pc EXCEPT ![p] = "save_copy"]
    <3>1. /\ pc'[p] = "save_copy" /\ backup' = <<>> /\ content'[p] = hosts
          /\ hosts \in Seq(Line) /\ ~Blocked(hosts)
      BY <1>2, <2>2, <1>t, FileMembers DEF StartCopy, CannotCopy, Backed, TypeOK
    <3>2. QED
      BY <1>0, <3>1, NothingBlocked, CopyBegun, FileMembers DEF Backed, Composing, Writing
  <2>3. QED
    BY <1>2, <2>1, <2>2 DEF BackupHosts
<1>3. ~BackupHosts(p) => backup' = backup /\ pc'[p] \in {"idle", "backup"}
  BY <1>0, <1>e, <1>t DEF CallStep, LoadDomains, ApplyBlock, ReapplyBlock, Finished, TypeOK, files
<1>4. QED
  BY <1>1, <1>2, <1>3

(* A call goes on.                                                         *)
LEMMA BackedGoesOn ==
  ASSUME "backup" \notin Faults, SysInv, HomeInv, WaitInv, ~Blocked(backup), NEW p \in Process, Backed(p),
         ProgramStep(p), stage' = stage
  PROVE  ~Blocked(backup') /\ Backed(p)' /\ (backup # NoFile => backup' # NoFile)
<1>t. TypeInv /\ TypeOK
  BY DEF SysInv, TypeInv
<1> USE DEF Goto, files, writer, Composing, Writing
<1>0. hosts' = hosts /\ stage[p] \in Saved /\ stage[p] \notin Cleared
  <2>1. pc[p] \notin {"idle", "dead"} /\ hosts' = hosts
    BY <1>t, CallAlive, CallLocal
  <2>2. QED
    BY <2>1 DEF SysInv, SysTypeOK, Saved, Cleared
<1> DEFINE Goal == ~Blocked(backup') /\ Backed(p)' /\ (backup # NoFile => backup' # NoFile)
(* The call returns, with a backup as good as before.                      *)
<1>f. ASSUME NEW r, Finished(p, r), ~Blocked(backup'), backup # NoFile => backup' # NoFile,
             ~Writing(p)'
      PROVE  Goal
  <2>1. pc'[p] = "idle"
    BY <1>f, <1>t DEF Finished, TypeOK
  <2>2. QED
    BY <1>0, <1>f, <2>1 DEF Backed, HoldsBackup
<1>w. pc[p] \notin {"wait", "dead"} => ~Writing(p)
  BY DEF WaitInv
(* The call moves on behind the backup.                                    *)
<1>m. ASSUME NEW from, NEW to, Goto(p, from, to), backup' = backup,
             from \in {"open", "read", "tmp", "write", "close", "launch"},
             to \in {"read", "tmp", "write", "close", "launch", "wait"},
             from = "open" => hosts # NoFile
      PROVE  Goal
  <2>1. pc'[p] = to /\ backup # NoFile
    BY <1>m, <1>t DEF Backed, TypeOK
  <2>2. QED
    BY <1>0, <1>m, <2>1 DEF Backed, HoldsBackup
<1>1. CASE CheckBackup(p)
  <2>1. /\ pc'[p] = IF backup = NoFile THEN "backup_begin" ELSE "open"
        /\ UNCHANGED <<backup, hw>> /\ pc[p] = "backup"
    BY <1>1, <1>t DEF CheckBackup, TypeOK
  <2>2. QED
    BY <1>0, <1>w, <2>1 DEF Backed, HoldsBackup
<1>2. CASE BeginBackup(p)
  <2>1. /\ pc'[p] = "backup_copy" /\ backup' = <<>> /\ hw' = hw /\ pc[p] = "backup_begin"
        /\ content'[p] = hosts /\ hosts \in Seq(Line)
    BY <1>2, <1>t, FileMembers DEF BeginBackup, StartCopy, CannotCopy, TypeOK
  <2>2. QED
    BY <1>0, <1>w, <2>1, NothingBlocked, CopyBegun, FileMembers DEF Backed
<1>h. HoldsBackup(p) => backup \in Seq(Line) /\ content[p] \in Seq(Line) /\ backup # NoFile
  BY <1>t, CopiedUnblocked, FileMembers DEF Backed, TypeOK
<1>2l. CASE CopyBackupLine(p)
  <2>1. /\ HoldsBackup(p) /\ UNCHANGED <<pc, hw, content>> /\ Len(backup) < Len(content[p])
        /\ backup' = Append(backup, content[p][Len(backup) + 1])
    BY <1>2l DEF CopyBackupLine, locals
  <2>2. CopiedFrom(backup', content[p])
    BY <1>h, <2>1, NextLine DEF Backed
  <2>3. ~Blocked(backup') /\ backup' \in Seq(Line)
    BY <1>h, <2>1, <2>2, CopiedUnblocked DEF Backed
  <2>4. QED
    BY <1>0, <1>w, <2>1, <2>2, <2>3, FileMembers DEF Backed, HoldsBackup
<1>3. CASE CopyBackup(p)
  <2>1. pc'[p] = "open" /\ UNCHANGED <<backup, hw>> /\ HoldsBackup(p) /\ pc[p] = "backup_copy"
    BY <1>3, <1>t DEF CopyBackup, LeaveBackup, HoldsBackup, TypeOK
  <2>2. QED
    BY <1>0, <1>h, <1>w, <2>1 DEF Backed, HoldsBackup
<1>4. CASE BackupFails(p)
  <2>1. pc'[p] = "open" /\ UNCHANGED <<backup, hw>> /\ pc[p] = "backup_begin" /\ CannotCopy
    BY <1>4, <1>t DEF BackupFails, LeaveBackup, TypeOK
  <2>2. hosts = NoFile \/ backup # NoFile
    BY <2>1 DEF CannotCopy, HomeInv, HoldsBackup
  <2>3. QED
    BY <1>0, <1>w, <2>1, <2>2 DEF Backed, HoldsBackup
<1>5. CASE SaveCopied(p)
  <2>1. UNCHANGED <<backup, hw>> /\ (\E r : Finished(p, r)) /\ pc[p] = "save_copy"
    BY <1>5 DEF SaveCopied
  <2>2. QED
    BY <1>w, <2>1, <1>f
<1>6. CASE OpenHosts(p) \/ BuildContent(p) \/ OpenTmp(p) \/ LaunchWriter(p)
  BY <1>6, <1>m DEF OpenHosts, BuildContent, OpenTmp, LaunchWriter
<1>6w. CASE WriteTmp(p) \/ CloseTmp(p) \/ WriteTmpShort(p)
  BY <1>6w, <1>m DEF WriteTmp, CloseTmp, WriteTmpShort, WriteUpTo
<1>7. CASE ReadLine(p)
  BY <1>7, <1>0 DEF ReadLine, Backed, HoldsBackup
<1>8. CASE OpenHostsFails(p) \/ OpenTmpFails(p) \/ WriteTmpFails(p) \/ LaunchFails(p)
  BY <1>8, <1>f, <1>w DEF OpenHostsFails, OpenTmpFails, WriteTmpFails, LaunchFails, HoldsTmp
<1>9. CASE Finish(p)
  <2>1. hw'[p] = "none" /\ backup' = backup
    BY <1>9, <1>t DEF Finish, TypeOK
  <2>2. QED
    BY <1>9, <1>f, <2>1 DEF Finish
<1>10. QED
  BY <1>1, <1>2, <1>2l, <1>3, <1>4, <1>5, <1>6, <1>6w, <1>7, <1>8, <1>9 DEF ProgramStep

LEMMA BackupNext ==
  ASSUME {"open", "backup"} \cap Faults = {}, SysInv, HomeInv, SoloInv, WaitInv, BackupInv,
         [SysNext]_sysvars
  PROVE  BackupInv'
<1> DEFINE Goal == ~Blocked(backup') /\ \A q \in Process : Backed(q)'
<1> SUFFICES ASSUME ~overlap', edits' = 0 PROVE Goal
  BY DEF BackupInv
<1>0. ~overlap /\ edits = 0
  BY SoloNext
<1>t. /\ TypeOK /\ stage \in [Process -> Stages]
      /\ \A p \in Process : stage[p] = "off" <=> pc[p] = "dead"
  BY DEF SysInv, TypeInv, SysTypeOK
<1>i. ~Blocked(backup) /\ \A q \in Process : Backed(q)
  BY <1>0 DEF BackupInv
<1>b. IsBlocked = {Blocked(hosts)}
  BY DEF IsBlocked
<1> USE DEF files, locals, observed, beside, writer
(* An instance that is not at work.                                        *)
<1>z. ASSUME NEW q \in Process, ~Active(q), pc'[q] = pc[q], hw'[q] = hw[q], stage'[q] = stage[q]
      PROVE  Backed(q)'
  BY <1>z, <1>t DEF Active, Writing, Backed, Cleared, Saved, Composing, HoldsBackup
(* One that does nothing.                                                  *)
<1>k. ASSUME NEW q \in Process, UNCHANGED <<hosts, backup, content>>,
             pc'[q] = pc[q], hw'[q] \in {hw[q], "none"}, stage'[q] = stage[q]
      PROVE  Backed(q)'
  BY <1>i, <1>k DEF Backed, Composing, HoldsBackup, Writing
<1>u. ASSUME UNCHANGED <<hosts, backup, stage, pc, hw, content>> PROVE Goal
  BY <1>i, <1>k, <1>u
(* One instance moves on between two calls.                                *)
<1>m. ASSUME NEW p \in Process, NEW from, NEW to, At(p, from, to),
             UNCHANGED <<hosts, backup, content>>,
             \A q \in Process : hw'[q] \in {hw[q], "none"},
             \A q \in Process \ {p} : pc'[q] = pc[q],
             pc'[p] \in {"idle", "dead"}, pc[p] \in {"idle", "dead"},
             to \in Cleared => ~Blocked(hosts),
             to \in Saved => from \in Saved \/ ~Blocked(hosts)
      PROVE  Goal
  <2>1. Backed(p)'
    BY <1>m, <1>i, <1>t DEF At, Backed, Composing, HoldsBackup, Writing, Cleared, Saved
  <2>2. ASSUME NEW q \in Process \ {p} PROVE Backed(q)'
    BY <1>m, <1>k, <1>t DEF At
  <2>3. QED
    BY <1>m, <1>i, <2>1, <2>2
(* Processes end.                                                          *)
<1>d. ASSUME NEW victims \in SUBSET Process, Terminated(victims), UNCHANGED <<hosts, backup>>,
             \A q \in Process : hw'[q] \in {hw[q], "none"},
             \A q \in victims : stage'[q] = "off",
             \A q \in Process \ victims : \/ stage'[q] = stage[q]
                                          \/ stage'[q] \in {"stopped", "restore"}
      PROVE  Goal
  <2>1. ASSUME NEW q \in Process PROVE Backed(q)'
    <3>1. Backed(q)
      BY <1>i
    <3>2. CASE q \in victims
      BY <1>d, <3>1, <3>2, WaitNext
      DEF Backed, Cleared, Saved, Writing, Composing, HoldsBackup, Terminated
    <3>3. CASE q \notin victims
      BY <1>d, <3>1, <3>3 DEF Backed, Cleared, Saved, Writing, Composing, HoldsBackup, Terminated
    <3>4. QED
      BY <3>2, <3>3
  <2>2. QED
    BY <1>d, <1>i, <2>1
<1>l. ASSUME NEW p \in Process, Leave(p) PROVE Goal
  <2>1. {p} \in SUBSET Process /\ Terminated({p}) /\ UNCHANGED <<hosts, backup, hw>>
        /\ stage'[p] = "off" /\ \A q \in Process \ {p} : stage'[q] = stage[q]
    BY <1>l, <1>t DEF Leave, Exit
  <2>2. QED
    BY <2>1, <1>d
<1>c. ASSUME NEW p \in Process, pc[p] \notin {"idle", "dead"}
      PROVE  stage[p] \in Saved
  BY <1>c DEF SysInv, SysTypeOK, Saved
<1>g. ASSUME NEW p \in Process, NEW from, NEW to, Gate(p, from, to),
             from \notin Saved
      PROVE  Goal
  <2>1. CASE Leave(p)
    BY <2>1, <1>l
  <2>2. CASE ~Blocked(hosts) /\ At(p, from, to) /\ UNCHANGED vars
    <3>1. pc[p] \in {"idle", "dead"}
      BY <2>2, <1>c, <1>g DEF At
    <3>2. QED
      BY <2>2, <3>1, <1>m DEF vars
  <2>3. QED
    BY <1>g, <1>b, <2>1, <2>2 DEF Gate
(* A call begins or goes on.                                               *)
<1>a. ASSUME NEW p \in Process, CallStep(p) \/ ProgramStep(p), Backed(p)', ~Blocked(backup'),
             backup # NoFile => backup' # NoFile,
             \A q \in Process \ {p} : stage'[q] = stage[q]
      PROVE  Goal
  <2>1. ASSUME NEW q \in Process \ {p} PROVE Backed(q)'
    <3>1. Untouched(q)
      BY <1>a, <1>t, CallLocal
    <3>2. ~Active(q)
      <4>1. Active(p)
        BY <1>a, <1>t, CallAlive DEF Active
      <4>2. QED
        BY <1>0, <4>1 DEF SoloInv, Alone
    <3>3. QED
      BY <1>a, <1>z, <3>1, <3>2 DEF Untouched
  <2>2. QED
    BY <1>a, <2>1
<1>e. ASSUME NEW p \in Process, CallStep(p), NEW from, NEW to, At(p, from, to),
             from \in Cleared \cup Saved, to \in Cleared \cup Saved,
             to \in Cleared => from \in Cleared,
             (backup' = backup /\ pc'[p] \in {"idle", "backup"}) \/ from \in Cleared
      PROVE  Goal
  <2>1. stage[p] = from /\ stage'[p] = to /\ \A q \in Process \ {p} : stage'[q] = stage[q]
    BY <1>e, <1>t DEF At
  <2>2. ~Blocked(backup') /\ Backed(p)' /\ (backup # NoFile => backup' # NoFile)
    BY <1>e, <1>i, <2>1, BackedBegins
  <2>3. QED
    BY <1>a, <1>e, <2>1, <2>2
<1>1. ASSUME NEW p \in Process, Instance(p) PROVE Goal
  <2>n. /\ {"debug", "debug_save"} = Cleared
        /\ {"window", "apply", "applying", "debug_saving", "debug_applying", "debug_reapplying"} = Saved
    BY DEF Cleared, Saved
  <2>1. ASSUME NEW options \in CommandLines, Launch(p, options) PROVE Goal
    <3>1. FirstStage(options) \notin Cleared \cup Saved
      BY DEF FirstStage, Cleared, Saved
    <3>2. pc[p] = "dead" /\ pc'[p] = "idle" /\ UNCHANGED <<hosts, backup>>
          /\ (\A q \in Process : hw'[q] \in {hw[q], "none"}) /\ content' = content
          /\ \A q \in Process \ {p} : pc'[q] = pc[q]
      BY <2>1, <1>t DEF Launch, StartInstance, Goto, TypeOK
    <3>3. QED
      BY <2>1, <3>1, <3>2, <1>m DEF Launch
  <2>2. CASE WmainGate(p) \/ WindowGate(p)
    BY <2>2, <2>n, <1>g DEF WmainGate, WindowGate
  <2>3. CASE CloseWindow(p) \/ Decline(p) \/ Stopped(p) \/ TestEnds(p) \/ DebugEnds(p)
             \/ RestoreFails(p)
    BY <2>3, <1>l DEF CloseWindow, Decline, Stopped, TestEnds, DebugEnds, RestoreFails
  <2>4. CASE TypeText(p) \/ ImportFile(p)
    BY <2>4, <1>u DEF TypeText, ImportFile, SetText, vars
  <2>5. CASE ClickApply(p)
    <3>1. Parsed(edit[p]) \in DomainLists \cup {<<>>}
      BY TextAssumption DEF SysInv, SysTypeOK, Typings
    <3>2. CallStep(p) /\ backup' = backup /\ pc'[p] = "idle"
      BY <2>5, <3>1 DEF ClickApply, LoadDomains, CallStep
    <3>3. QED
      BY <2>5, <2>n, <3>2, <1>e DEF ClickApply
  <2>6. CASE DebugLoad(p)
    BY <2>6, <2>n, <1>e, DebugAssumption DEF DebugLoad, CallStep
  <2>7. CASE DebugSave(p)
    BY <2>7, <2>n, <1>e DEF DebugSave, CallStep
  <2>8. CASE StartApply(p) \/ DebugApply(p) \/ DebugReapply(p)
    <3>1. CallStep(p)
      BY <2>8 DEF StartApply, DebugApply, DebugReapply, CallStep
    <3>2. backup' = backup /\ pc'[p] \in {"idle", "backup"}
      BY <2>8, <1>t DEF StartApply, DebugApply, DebugReapply, ApplyBlock, ReapplyBlock, EnterApply,
         Call, Finished, TypeOK
    <3>3. QED
      BY <2>8, <2>n, <3>1, <3>2, <1>e DEF StartApply, DebugApply, DebugReapply
  <2>9. CASE Answered(p)
    BY <2>9, <2>n, <1>l, <1>m DEF Answered, vars
  <2>10. CASE ConfirmStop(p) \/ ConfirmReset(p)
    <3>1. /\ Process \ {p} \in SUBSET Process /\ Terminated(Process \ {p})
          /\ UNCHANGED <<hosts, backup, hw>>
      BY <2>10 DEF ConfirmStop, ConfirmReset, TerminateOthers
    <3>2. \A q \in Process : IF q = p THEN stage'[q] \in {"stopped", "restore"} ELSE stage'[q] = "off"
      BY <2>10 DEF ConfirmStop, ConfirmReset, TerminateOthers
    <3>3. QED
      BY <3>1, <3>2, <1>d
  <2>11. CASE Restore(p)
    <3>1. At(p, "restore", "remove") /\ UNCHANGED <<backup, pc, hw>>
      BY <2>11 DEF Restore
    <3>2. pc[p] \in {"idle", "dead"} /\ stage[p] = "restore"
      BY <2>n, <3>1, <1>c DEF At
    <3>3. pc[p] = "idle" /\ hw[p] = "none"
      BY <3>2, <1>t DEF WaitInv
    <3>4. Backed(p)'
      BY <3>1, <3>3, <1>t DEF At, Backed, Cleared, Saved, Composing, HoldsBackup, Writing
    <3>5. ASSUME NEW q \in Process \ {p} PROVE Backed(q)'
      <4>1. ~Active(q)
        BY <1>0, <3>3 DEF SoloInv, Alone, Active
      <4>2. QED
        BY <3>1, <4>1, <1>z, <1>t DEF At
    <3>6. QED
      BY <3>1, <3>4, <3>5, <1>i
  <2>12. CASE RemoveData(p)
    <3>1. /\ At(p, "remove", "off") /\ Terminated({p}) /\ hw' = hw
          /\ backup' = NoFile \/ backup' = backup
      BY <2>12 DEF RemoveData
    <3>2. stage[p] = "remove" /\ pc[p] = "idle" /\ hw[p] = "none"
      BY <2>n, <3>1, <1>c, <1>t DEF At, WaitInv
    <3>3. Backed(p)'
      BY <3>1, <3>2, <1>t
      DEF At, Backed, Cleared, Saved, Composing, HoldsBackup, Writing, Terminated
    <3>4. ASSUME NEW q \in Process \ {p} PROVE Backed(q)'
      <4>1. ~Active(q)
        BY <1>0, <3>2 DEF SoloInv, Alone, Active
      <4>2. QED
        BY <3>1, <4>1, <1>z, <1>t DEF At, Terminated
    <3>5. QED
      BY <3>1, <3>3, <3>4, <1>i, NothingBlocked
  <2>13. CASE TestCryptoFunctions(p)
    <3>1. PICK from \in Test!Phases, to \in Test!Phases : At(p, from, to)
      BY <2>13 DEF TestCryptoFunctions, Test!TestStep, Test!Generate, Test!OpenStore, Test!CloseStore,
         Test!OpenLoad, Test!ReadLoad, Test!Fail, Test!Pass, Test!Phases, At
    <3>2. from \notin Saved /\ to \notin Cleared \cup Saved
      BY DEF Test!Phases, Cleared, Saved
    <3>3. UNCHANGED <<hosts, backup, hw, pc, content>> /\ pc[p] \in {"idle", "dead"}
      BY <2>13, <3>1, <3>2, <1>c DEF TestCryptoFunctions, vars, At
    <3>4. QED
      BY <3>1, <3>2, <3>3, <1>m
  <2>14. CASE InCall(p)
    <3>1. ProgramStep(p) /\ stage' = stage
      BY <2>14 DEF InCall
    <3>2. ~Blocked(backup') /\ Backed(p)' /\ (backup # NoFile => backup' # NoFile)
      BY <3>1, <1>i, BackedGoesOn
    <3>3. QED
      BY <3>1, <3>2, <1>a
  <2>15. CASE InWriter(p)
    <3>1. WriterStep(p) /\ stage' = stage
      BY <2>15 DEF InWriter
    <3>2. Writing(p) /\ UNCHANGED <<backup, pc>>
      BY <3>1, <1>t, WriterLocal
    <3>3. pc[p] \in {"wait", "dead"} /\ backup # NoFile
      BY <1>i, <3>2 DEF WaitInv, Writing, Backed
    <3>4. stage[p] \notin Cleared
      BY <3>3, <1>t, <1>c DEF Cleared, Saved
    <3>5. Backed(p)'
      BY <3>1, <3>2, <3>3, <3>4 DEF Backed, HoldsBackup
    <3>6. ASSUME NEW q \in Process \ {p} PROVE Backed(q)'
      <4>1. ~Active(q) /\ Untouched(q)
        BY <1>0, <3>1, SoloStep
      <4>2. QED
        BY <3>1, <4>1, <1>z DEF Untouched
    <3>7. QED
      BY <1>i, <3>2, <3>5, <3>6
  <2>16. QED
    BY <1>1, <2>1, <2>2, <2>3, <2>4, <2>5, <2>6, <2>7, <2>8, <2>9, <2>10, <2>11, <2>12, <2>13, <2>14,
       <2>15 DEF Instance
<1>2. CASE World
  <2>1. ASSUME NEW p \in Process, Kill(p), stage' = [stage EXCEPT ![p] = "off"] PROVE Goal
    <3>1. {p} \in SUBSET Process /\ Terminated({p}) /\ UNCHANGED <<hosts, backup, hw>>
          /\ stage'[p] = "off" /\ \A q \in Process \ {p} : stage'[q] = stage[q]
      BY <2>1, <1>t DEF Kill
    <3>2. QED
      BY <3>1, <1>d
  <2>2. ASSUME Reboot, stage' = [p \in Process |-> "off"] PROVE Goal
    BY <2>2, <1>d DEF Reboot
  <2>3. ASSUME NEW f \in EditFiles, UserEdit(f) PROVE FALSE
    BY <2>3, <1>t DEF UserEdit, TypeOK
  <2>4. QED
    BY <1>2, <2>1, <2>2, <2>3 DEF World
<1>3. CASE UNCHANGED sysvars
  BY <1>3, <1>u DEF sysvars, vars
<1>4. QED
  BY <1>1, <1>2, <1>3 DEF SysNext

(* For any number of instances, any lists, texts, files, crashes, stops    *)
(* and resets, and any faults but that isBlocked cannot open the file and  *)
(* that the copy to the backup fails: until an edit by the user or two     *)
(* instances at work together, the backup is a file without a block.       *)
THEOREM BackupHolds ==
  ASSUME {"open", "backup"} \cap Faults = {}
  PROVE  SysSpec => []BackupUnblocked
<1> DEFINE Inv == SysInv /\ HomeInv /\ WaitInv /\ SoloInv /\ BackupInv
<1>1. SysInit => Inv
  <2> SUFFICES ASSUME SysInit PROVE Inv
    OBVIOUS
  <2>1. /\ Init /\ backup = NoFile
        /\ \A p \in Process : pc[p] = "dead" /\ hw[p] = "none" /\ stage[p] = "off"
    BY DEF SysInit, Init
  <2>2. WaitInv /\ SoloInv /\ BackupInv
    BY <2>1, NothingBlocked DEF WaitInv, SoloInv, BackupInv, Backed, Cleared, Saved, Active,
       Alone, Writing, Composing, HoldsBackup
  <2>3. QED
    BY <2>2, SysTypeInit, HomeInit
<1>2. Inv /\ [SysNext]_sysvars => Inv'
  BY SysTypeNext, WaitNext, SoloNext, BackupNext
<1>3. Inv => BackupUnblocked
  BY DEF BackupInv, BackupUnblocked
<1>4. QED
  BY <1>1, <1>2, <1>3, PTL DEF SysSpec

---------------------------------------------------------------------------
(* What the window lists is what is blocked.                               *)

NoEntries(f) == \A i \in 1..Len(f), d \in Domain : f[i] # Entry(d)

(* Every entry the program ever holds stands in a block.                   *)
EntryInv ==
  (~overlap /\ edits = 0) =>
    /\ EntriesInBlocks(hosts) /\ EntriesInBlocks(tmp)
    /\ \A p \in Process : /\ pc[p] = "read" => NoEntries(content[p])
                          /\ Composing(p) => EntriesInBlocks(content[p])
                          /\ EntriesInBlocks(src[p])

LEMMA EntryNoMarker == \A d : Entry(d) \notin Marker /\ Entry(d) # Managed
  BY DEF Entry, Marker, Start, End, Managed

LEMMA EntriesNowhere == EntriesInBlocks(NoFile) /\ EntriesInBlocks(<<>>) /\ NoEntries(<<>>)
  BY DEF EntriesInBlocks, NoEntries

(* A copy that goes on from f holds what f held so far.                    *)
LEMMA EntriesPrefix ==
  ASSUME NEW f \in Seq(Line), EntriesInBlocks(f), NEW g \in Seq(Line), Len(g) <= Len(f),
         \A k \in 1..Len(g) : g[k] = f[k]
  PROVE  EntriesInBlocks(g)
<1> SUFFICES ASSUME NEW i \in 1..Len(g), NEW d \in Domain, g[i] = Entry(d)
             PROVE  ~Outside(g, i)
  BY DEF EntriesInBlocks
<1>1. i \in 1..Len(f) /\ f[i] = g[i] /\ f # NoFile
  BY FileMembers
<1>2. ~Outside(f, i)
  BY <1>1 DEF EntriesInBlocks
<1>3. \A k \in 1..i : k \in 1..Len(g) /\ f[k] = g[k]
  BY <1>1
<1>4. QED
  BY <1>1, <1>2, <1>3 DEF Outside

(* The reading loop drops what stands in a block.                          *)
LEMMA EntryDropped ==
  ASSUME NEW f \in Seq(Line), EntriesInBlocks(f), NEW i \in 1..Len(f),
         ~Unended(SubSeq(f, 1, i - 1)), f[i] \notin Marker, NEW d \in Domain
  PROVE  f[i] # Entry(d)
<1> SUFFICES ASSUME f[i] = Entry(d) PROVE FALSE
  OBVIOUS
<1>1. f # NoFile
  BY FileMembers
<1>2. ~Outside(f, i)
  BY <1>1 DEF EntriesInBlocks
<1>3. PICK m \in 1..(i - 1) : f[m] = Start /\ \A n \in (m + 1)..(i - 1) : f[n] # End
  BY <1>2 DEF Outside
<1> DEFINE g == SubSeq(f, 1, i - 1)
<1>4. Len(g) = i - 1 /\ \A k \in 1..(i - 1) : g[k] = f[k]
  OBVIOUS
<1> HIDE DEF g
<1>5. m \in 1..Len(g) /\ g[m] = Start /\ \A n \in (m + 1)..Len(g) : g[n] # End
  BY <1>3, <1>4
<1>6. QED
  BY <1>5 DEF Unended, g

LEMMA ComposedEntries ==
  ASSUME NEW kept \in Seq(Line), NoEntries(kept), NEW ds \in Seq(Domain)
  PROVE  EntriesInBlocks(Composed(kept, ds))
<1> DEFINE all == Composed(kept, ds)
           n == Len(kept)
           m == Len(ds)
<1>0. n \in Nat /\ m \in Nat
  OBVIOUS
<1>1. /\ all \in Seq(Line)
      /\ Len(all) = n + m + 3
      /\ \A k \in 1..n : all[k] = kept[k]
      /\ all[n + 1] = Managed
      /\ all[n + 2] = Start
      /\ \A k \in 1..m : all[n + 2 + k] = Entry(ds[k])
      /\ all[n + m + 3] = End
  BY ComposedType
<1>n. \A k \in 1..n, d \in Domain : kept[k] # Entry(d)
  BY DEF NoEntries
<1> HIDE DEF all, n, m
<1>2. ASSUME NEW i \in 1..Len(all), NEW d \in Domain, all[i] = Entry(d)
      PROVE  ~Outside(all, i)
  <2>1. i > n
    <3>1. i \notin 1..n
      BY <1>1, <1>2, <1>n
    <3>2. i \in Nat /\ i >= 1
      BY <1>0, <1>1
    <3>3. QED
      BY <1>0, <3>1, <3>2
  <2>2. i # n + 1 /\ i # n + 2
    BY <1>1, <1>2, EntryNoMarker DEF Marker
  <2>3. i # n + m + 3
    BY <1>1, <1>2, EntryNoMarker DEF Marker
  <2>4. n + 2 \in 1..(i - 1) /\ i <= n + m + 2
    BY <1>0, <1>1, <2>1, <2>2, <2>3
  <2>5. ASSUME NEW k \in (n + 2 + 1)..(i - 1) PROVE all[k] # End
    <3>1. k - (n + 2) \in 1..m /\ n + 2 + (k - (n + 2)) = k
      BY <1>0, <2>4
    <3>2. all[k] = Entry(ds[k - (n + 2)])
      BY <1>1, <3>1
    <3>3. QED
      BY <3>2, EntryNoMarker DEF Marker
  <2>6. QED
    BY <1>1, <2>4, <2>5 DEF Outside
<1>3. QED
  BY <1>2 DEF EntriesInBlocks, all

(* In a text whose entries stand in blocks they are those of its block.    *)
LEMMA TextEntries ==
  ASSUME NEW ds \in Seq(Domain), NEW f \in Seq(Line), IsText(f, ds), EntriesInBlocks(f)
  PROVE  {d \in Domain : Has(f, Entry(d))} = Domains(ds)
<1>1. Domains(ds) \subseteq {d \in Domain : Has(f, Entry(d))}
  BY TextBlocks DEF Domains
<1>2. ASSUME NEW d \in Domain, Has(f, Entry(d)) PROVE d \in Domains(ds)
  <2>1. PICK i \in 1..Len(f) : f[i] = Entry(d)
    BY <1>2 DEF Has
  <2>2. f # NoFile
    BY FileMembers
  <2>3. PICK m \in 1..(i - 1) : f[m] = Start
    BY <2>1, <2>2, EntryNoMarker DEF EntriesInBlocks, Outside
  <2>4. PICK n \in Nat : /\ Len(f) = n + Len(ds) + 2
                         /\ BlockAt(f, n + 1, ds)
                         /\ \A k \in 1..Len(f) : f[k] = Start => k = n + 1
    BY TextMarkers
  <2>5. Len(ds) \in Nat /\ Len(f) \in Nat
    OBVIOUS
  <2>6. m = n + 1 /\ i > n + 1
    BY <2>3, <2>4, <2>5
  <2>7. i # Len(f)
    <3>1. n + 1 + Len(ds) + 1 = Len(f)
      BY <2>4, <2>5
    <3>2. f[Len(f)] = End
      BY <2>4, <3>1 DEF BlockAt
    <3>3. QED
      BY <2>1, <3>2, EntryNoMarker DEF Marker
  <2>8. i - (n + 1) \in 1..Len(ds) /\ n + 1 + (i - (n + 1)) = i
    BY <2>4, <2>5, <2>6, <2>7
  <2>9. f[i] = Entry(ds[i - (n + 1)])
    BY <2>4, <2>8 DEF BlockAt
  <2>10. ds[i - (n + 1)] = d
    BY <2>1, <2>9 DEF Entry
  <2>11. QED
    BY <2>8, <2>10 DEF Domains
<1>3. QED
  BY <1>1, <1>2

(* A step of the call of p, or of its hostswriter.                         *)
LEMMA EntryStep ==
  ASSUME "flush" \notin Faults, TypeInv, NEW p \in Process, CallInv(p),
         pc[p] = "read" => base[p] # NoFile,
         EntriesInBlocks(hosts), EntriesInBlocks(tmp), EntriesInBlocks(src[p]),
         pc[p] = "read" => NoEntries(content[p]),
         Composing(p) => EntriesInBlocks(content[p]),
         CallStep(p) \/ ProgramStep(p) \/ WriterStep(p)
  PROVE  /\ EntriesInBlocks(hosts') /\ EntriesInBlocks(tmp') /\ EntriesInBlocks(src'[p])
         /\ pc'[p] = "read" => NoEntries(content'[p])
         /\ Composing(p)' => EntriesInBlocks(content'[p])
<1> DEFINE Goal == /\ EntriesInBlocks(hosts') /\ EntriesInBlocks(tmp') /\ EntriesInBlocks(src'[p])
                   /\ pc'[p] = "read" => NoEntries(content'[p])
                   /\ Composing(p)' => EntriesInBlocks(content'[p])
<1>t. TypeOK /\ content[p] \in Seq(Line) /\ src[p] \in Seq(Line) /\ domains[p] \in Seq(Domain)
  <2>1. <<>> \in Seq(Domain)
    OBVIOUS
  <2>2. QED
    BY <2>1, ListsAssumption DEF TypeInv, TypeOK
<1> USE DEF files, locals, writer, bounds, history, Goto
<1>f. ASSUME NEW r, Finished(p, r), hosts' = hosts, src' = src, tmp' \in {tmp, NoFile}
      PROVE  Goal
  <2>1. pc'[p] = "idle"
    BY <1>f, <1>t DEF Finished, TypeOK
  <2>2. QED
    BY <1>f, <2>1, EntriesNowhere DEF Composing
<1>r. RemoveTmp(p) => tmp' \in {tmp, NoFile}
  BY DEF RemoveTmp
<1>m. ASSUME NEW to, pc' = [pc EXCEPT ![p] = to], hosts' = hosts, UNCHANGED <<content, src>>,
             EntriesInBlocks(tmp'), to # "read",
             to \in {"tmp", "write", "close", "launch", "wait"} => Composing(p)
      PROVE  Goal
  <2>1. pc'[p] = to
    BY <1>m, <1>t DEF TypeOK
  <2>2. QED
    BY <1>m, <2>1 DEF Composing
<1>b. ASSUME NEW to, pc' = [pc EXCEPT ![p] = to], UNCHANGED <<hosts, tmp, src>>,
             to \in {"backup_begin", "backup_copy", "save_copy", "open"}
      PROVE  Goal
  <2>1. pc'[p] = to
    BY <1>b, <1>t DEF TypeOK
  <2>2. QED
    BY <1>b, <2>1 DEF Composing
<1>1. CASE CallStep(p)
  <2>e. ASSUME EnterApply(p), UNCHANGED <<hosts, tmp, writer>> PROVE Goal
    BY <2>e, <1>f, <1>m DEF EnterApply
  <2>1. ASSUME NEW ds \in DomainLists, LoadDomains(p, ds) PROVE Goal
    BY <2>1 DEF LoadDomains, Composing
  <2>2. CASE ApplyBlock(p)
    BY <2>2, <2>e DEF ApplyBlock, Call
  <2>3. CASE ReapplyBlock(p)
    BY <2>3, <2>e, <1>f DEF ReapplyBlock, Call
  <2>4. CASE BackupHosts(p)
    BY <2>4, <1>f, <1>b DEF BackupHosts, StartCopy, Call
  <2>5. QED
    BY <1>1, <2>1, <2>2, <2>3, <2>4 DEF CallStep
<1>2. CASE CheckBackup(p) \/ BeginBackup(p) \/ CopyBackup(p) \/ BackupFails(p)
  BY <1>2, <1>b DEF CheckBackup, BeginBackup, StartCopy, CopyBackup, BackupFails, LeaveBackup
<1>2l. CASE CopyBackupLine(p)
  BY <1>2l DEF CopyBackupLine, HoldsBackup, Composing
<1>3. CASE SaveCopied(p) \/ OpenHostsFails(p) \/ OpenTmpFails(p) \/ WriteTmpFails(p)
           \/ LaunchFails(p) \/ Finish(p)
  BY <1>3, <1>f, <1>r DEF SaveCopied, OpenHostsFails, OpenTmpFails, WriteTmpFails, LaunchFails, Finish
<1>4. CASE OpenHosts(p)
  <2>1. pc'[p] = "read" /\ content'[p] = <<>>
    BY <1>4, <1>t DEF OpenHosts, CallInv, Composing, HoldsBackup, TypeOK
  <2>2. QED
    BY <1>4, <2>1, EntriesNowhere DEF OpenHosts, Composing
<1>5. CASE ReadLine(p)
  <2>1. /\ pc[p] = "read" /\ hosts \in Seq(Line) /\ pos[p] \in 1..Len(hosts)
        /\ inside[p] = Unended(SubSeq(hosts, 1, pos[p] - 1))
    BY <1>5, <1>t, FileMembers DEF ReadLine, CallInv, BaseInv, TypeInv, Held, HoldsHosts, TypeOK
  <2> DEFINE line == hosts[pos[p]]
  <2>2. /\ content'[p] = IF line \in Marker \/ inside[p] THEN content[p]
                          ELSE Append(content[p], line)
        /\ pc' = pc /\ UNCHANGED <<files, src>>
    BY <1>5, <1>t DEF ReadLine, TypeOK
  <2>3. line \notin Marker /\ ~inside[p] => \A d \in Domain : line # Entry(d)
    BY <2>1, EntryDropped
  <2> HIDE DEF line
  <2>4. NoEntries(content'[p])
    <3>1. NoEntries(content[p])
      BY <2>1
    <3>2. CASE line \in Marker \/ inside[p]
      BY <2>2, <3>1, <3>2
    <3>3. CASE ~(line \in Marker \/ inside[p])
      <4>1. content'[p] = Append(content[p], line)
        BY <2>2, <3>3
      <4>2. ASSUME NEW i \in 1..Len(Append(content[p], line)), NEW d \in Domain
            PROVE  Append(content[p], line)[i] # Entry(d)
        <5>1. CASE i \in 1..Len(content[p])
          BY <1>t, <3>1, <5>1 DEF NoEntries
        <5>2. CASE i = Len(content[p]) + 1
          BY <1>t, <2>3, <3>3, <5>2
        <5>3. QED
          BY <1>t, <5>1, <5>2
      <4>3. QED
        BY <4>1, <4>2 DEF NoEntries
    <3>4. QED
      BY <3>2, <3>3
  <2>5. QED
    BY <2>1, <2>2, <2>4 DEF Composing
<1>6. CASE BuildContent(p)
  <2>1. /\ pc[p] = "read" /\ pc'[p] = "tmp" /\ UNCHANGED <<files, src>>
        /\ content'[p] = Composed(content[p], domains[p])
    BY <1>6, <1>t DEF BuildContent, TypeOK
  <2>2. EntriesInBlocks(content'[p])
    BY <1>t, <2>1, ComposedEntries
  <2>3. QED
    BY <2>1, <2>2
<1>7. CASE OpenTmp(p)
  BY <1>7, <1>m, EntriesNowhere DEF OpenTmp, Composing
<1>8. CASE WriteTmp(p) \/ CloseTmp(p)
  <2>1. /\ pc[p] \in {"write", "close"} /\ pc' = [pc EXCEPT ![p] = IF pc[p] = "write" THEN "close"
                                                               ELSE "launch"]
        /\ UNCHANGED <<hosts, src, content>>
    BY <1>8 DEF WriteTmp, CloseTmp, WriteUpTo
  <2>2. PICK n \in pos[p]..Len(content[p]) : WriteUpTo(p, n)
    <3>1. pos[p] \in 0..Len(content[p]) /\ (pc[p] = "write" => pos[p] = 0)
      BY <1>t, <2>1 DEF TypeInv, TypeOK, Held, HoldsTmp
    <3>2. QED
      BY <1>8, <1>t, <2>1, <3>1 DEF WriteTmp, CloseTmp, TypeOK
  <2>3. tmp' = SubSeq(content[p], 1, n)
    BY <2>1, <2>2, WriteGoesOn DEF HoldsTmp
  <2>4. EntriesInBlocks(tmp')
    <3>1. /\ tmp' \in Seq(Line) /\ Len(tmp') <= Len(content[p])
          /\ \A k \in 1..Len(tmp') : tmp'[k] = content[p][k]
      BY <1>t, <2>2, <2>3 DEF TypeOK
    <3>2. QED
      BY <1>t, <2>1, <3>1, EntriesPrefix DEF Composing
  <2>5. QED
    BY <2>1, <2>4, <1>m DEF Composing
<1>9. CASE LaunchWriter(p)
  BY <1>9, <1>m DEF LaunchWriter, Composing
<1>10. CASE WriterStep(p)
  <2>1. UNCHANGED <<tmp, pc, content>>
    BY <1>10, <1>t, WriterLocal
  <2>2. CASE HwOpen(p)
    BY <2>1, <2>2, <1>t, EntriesNowhere DEF HwOpen, TypeOK, Composing
  <2>3. CASE HwOpenFails(p)
    BY <2>1, <2>3 DEF HwOpenFails, Composing
  <2>4. CASE HwCopyLine(p)
    <3>1. /\ Copying(p) /\ UNCHANGED <<hw, src>> /\ Len(hosts) < Len(src[p])
          /\ hosts' = Append(hosts, src[p][Len(hosts) + 1]) /\ hosts \in Seq(Line)
      BY <2>4, <1>t, FileMembers DEF HwCopyLine, TypeInv, Held, TypeOK
    <3>2. \A k \in 1..Len(hosts) : hosts[k] = src[p][k]
      BY <3>1 DEF CallInv
    <3>3. hosts' \in Seq(Line) /\ Len(hosts') <= Len(src[p])
          /\ \A k \in 1..Len(hosts') : hosts'[k] = src[p][k]
      BY <3>1, <3>2, <1>t
    <3>4. EntriesInBlocks(hosts')
      BY <3>3, <1>t, EntriesPrefix
    <3>5. QED
      BY <2>1, <3>1, <3>4 DEF Composing
  <2>5. CASE HwDone(p) \/ HwCopyFails(p)
    BY <2>1, <2>5, <1>t, EntriesNowhere DEF HwDone, HwCopyFails, HwEnds, TypeOK, Composing
  <2>6. QED
    BY <1>10, <2>2, <2>3, <2>4, <2>5 DEF WriterStep
<1>11. ~WriteTmpShort(p)
  BY DEF WriteTmpShort
<1>12. QED
  BY <1>1, <1>2, <1>2l, <1>3, <1>4, <1>5, <1>6, <1>7, <1>8, <1>9, <1>10, <1>11 DEF ProgramStep

LEMMA EntryNext ==
  ASSUME "flush" \notin Faults, FilesManaged, SysInv, SoloInv, CallsInv, ReadInv, EntryInv,
         [SysNext]_sysvars
  PROVE  EntryInv'
<1> DEFINE Own(q) == /\ pc[q] = "read" => NoEntries(content[q])
                     /\ Composing(q) => EntriesInBlocks(content[q])
                     /\ EntriesInBlocks(src[q])
           Goal == /\ EntriesInBlocks(hosts') /\ EntriesInBlocks(tmp')
                   /\ \A q \in Process : Own(q)'
<1> SUFFICES ASSUME ~overlap', edits' = 0 PROVE Goal
  BY DEF EntryInv
<1>0. ~overlap /\ edits = 0
  BY SoloNext
<1>t. TypeInv /\ TypeOK
  BY DEF SysInv, TypeInv
<1>i. EntriesInBlocks(hosts) /\ EntriesInBlocks(tmp) /\ \A q \in Process : Own(q)
  BY <1>0 DEF EntryInv
<1>k. ASSUME NEW q \in Process, Untouched(q) PROVE Own(q)'
  BY <1>i, <1>k DEF Untouched, Composing
<1>1. ASSUME NEW p \in Process, CallStep(p) \/ ProgramStep(p) \/ WriterStep(p) PROVE Goal
  <2>1. CallInv(p) /\ (pc[p] = "read" => base[p] # NoFile)
    BY <1>0 DEF CallsInv, ReadInv
  <2>2. EntriesInBlocks(hosts') /\ EntriesInBlocks(tmp') /\ Own(p)'
    BY <1>1, <1>i, <1>t, <2>1, EntryStep
  <2>3. ASSUME NEW q \in Process \ {p} PROVE Own(q)'
    BY <1>0, <1>1, <1>k, SoloStep
  <2>4. QED
    BY <2>2, <2>3
<1>3. ASSUME NEW victims \in SUBSET Process, Ended(victims) PROVE Goal
  <2>1. ASSUME NEW q \in Process PROVE Own(q)'
    <3>1. Own(q)
      BY <1>i
    <3>2. src'[q] \in {src[q], <<>>}
      BY <1>3 DEF Ended, writer
    <3>3. pc'[q] \in {"read", "tmp", "write", "close", "launch", "wait"}
            => pc'[q] = pc[q] /\ content'[q] = content[q]
      BY <1>3 DEF Ended, Terminated
    <3>4. QED
      BY <3>1, <3>2, <3>3, EntriesNowhere DEF Composing
  <2>2. QED
    BY <1>3, <1>i, <2>1 DEF Ended
<1>4. ASSUME NEW p \in Process, NEW options \in CommandLines, Launch(p, options) PROVE Goal
  <2>1. /\ pc'[p] = "idle" /\ UNCHANGED <<hosts, tmp, content, src>>
        /\ \A q \in Process \ {p} : pc'[q] = pc[q]
    BY <1>4, <1>t DEF Launch, StartInstance, Goto, TypeOK, files
  <2>2. ASSUME NEW q \in Process PROVE Own(q)'
    <3>1. Own(q)
      BY <1>i
    <3>2. QED
      BY <2>1, <3>1 DEF Composing
  <2>3. QED
    BY <1>i, <2>1, <2>2
<1>5. ASSUME NEW f \in EditFiles, UserEdit(f) PROVE FALSE
  BY <1>0, <1>5, <1>t DEF UserEdit, TypeOK
<1>6. ASSUME NEW p \in Process, Restore(p) PROVE Goal
  <2>1. UNCHANGED <<tmp, pc, content, src>> /\ hosts' \in {StrayBackup, DefaultHosts}
    BY <1>6 DEF Restore, locals, writer
  <2>2. EntriesInBlocks(hosts')
    BY <2>1 DEF FilesManaged
  <2>3. QED
    BY <1>i, <2>1, <2>2 DEF Composing
<1>7. CASE UNCHANGED vars
  BY <1>7, <1>i DEF vars, files, locals, writer, Composing
<1>8. QED
  BY <1>1, <1>3, <1>4, <1>5, <1>6, <1>7, StepView DEF SysInv

(* A call of the window is for what the text above the button lists.       *)
Listing(p) ==
  /\ stage[p] \in {"apply", "applying"} => domains[p] = Parsed(edit[p])
  /\ stage[p] = "applying" /\ pc[p] = "idle" /\ result[p] = "applied"
       => {d \in Domain : Enforced(d)} = Domains(domains[p])

ListInv == (~overlap /\ edits = 0) => \A p \in Process : Listing(p)

(* How a call returns.                                                     *)
LEMMA CallReturn ==
  ASSUME TypeOK, NEW p \in Process, ProgramStep(p)
  PROVE  /\ domains' = domains
         /\ pc'[p] = "idle" /\ result'[p] = "applied"
              => /\ pc[p] = "wait" /\ hw[p] = "ok" /\ hosts # NoFile /\ hosts' = hosts
<1> USE DEF Goto, TypeOK, files, locals
<1>f. ASSUME NEW r, Finished(p, r) PROVE domains' = domains /\ result'[p] = r
  BY <1>f DEF Finished
<1>1. CASE CheckBackup(p) \/ BeginBackup(p) \/ CopyBackup(p) \/ BackupFails(p)
  BY <1>1 DEF CheckBackup, BeginBackup, StartCopy, CopyBackup, BackupFails, LeaveBackup
<1>1l. CASE CopyBackupLine(p)
  BY <1>1l DEF CopyBackupLine, HoldsBackup
<1>2. CASE SaveCopied(p) \/ OpenHostsFails(p) \/ OpenTmpFails(p) \/ WriteTmpFails(p) \/ LaunchFails(p)
  BY <1>2, <1>f DEF SaveCopied, OpenHostsFails, OpenTmpFails, WriteTmpFails, LaunchFails
<1>3. CASE OpenHosts(p) \/ ReadLine(p) \/ BuildContent(p)
  BY <1>3 DEF OpenHosts, ReadLine, BuildContent
<1>4. CASE OpenTmp(p) \/ LaunchWriter(p)
  BY <1>4 DEF OpenTmp, LaunchWriter
<1>4w. CASE WriteTmp(p) \/ CloseTmp(p) \/ WriteTmpShort(p)
  BY <1>4w DEF WriteTmp, CloseTmp, WriteTmpShort, WriteUpTo
<1>5. CASE Finish(p)
  BY <1>5, <1>f DEF Finish
<1>6. QED
  BY <1>1, <1>1l, <1>2, <1>3, <1>4, <1>4w, <1>5 DEF ProgramStep

LEMMA ListNext ==
  ASSUME SysInv, SoloInv, WaitInv, CallsInv, ReadInv, EntryInv, ListInv, [SysNext]_sysvars
  PROVE  ListInv'
<1> SUFFICES ASSUME ~overlap', edits' = 0 PROVE \A q \in Process : Listing(q)'
  BY DEF ListInv
<1>0. ~overlap /\ edits = 0
  BY SoloNext
<1>t. /\ TypeOK /\ stage \in [Process -> Stages] /\ edit \in [Process -> Typings \cup {<<>>}]
      /\ \A p \in Process : stage[p] = "off" <=> pc[p] = "dead"
  BY DEF SysInv, TypeInv, SysTypeOK
<1>i. \A q \in Process : Listing(q)
  BY <1>0 DEF ListInv
<1> DEFINE Goal == \A q \in Process : Listing(q)'
<1> USE DEF files, observed, beside, writer
<1>z. ASSUME NEW q \in Process, stage'[q] \notin {"apply", "applying"} PROVE Listing(q)'
  BY <1>z DEF Listing
<1>k. ASSUME NEW q \in Process, UNCHANGED hosts, pc'[q] = pc[q], result'[q] = result[q],
             domains'[q] = domains[q], edit'[q] = edit[q], stage'[q] = stage[q]
      PROVE  Listing(q)'
  BY <1>i, <1>k DEF Listing, Enforced
<1>u. ASSUME UNCHANGED <<hosts, pc, result, domains, edit, stage>> PROVE Goal
  BY <1>k, <1>u
(* One instance moves on, to a stage that says nothing of its list.        *)
<1>m. ASSUME NEW p \in Process, NEW from, NEW to, At(p, from, to),
             to \notin {"apply", "applying"}, UNCHANGED hosts,
             \A q \in Process \ {p} : /\ pc'[q] = pc[q] /\ result'[q] = result[q]
                                      /\ domains'[q] = domains[q] /\ edit'[q] = edit[q]
      PROVE  Goal
  BY <1>m, <1>k, <1>z, <1>t DEF At
<1>d. ASSUME NEW victims \in SUBSET Process, Terminated(victims), UNCHANGED hosts,
             \A q \in victims : stage'[q] = "off",
             \A q \in Process \ victims : \/ stage'[q] = stage[q] /\ edit'[q] = edit[q]
                                          \/ stage'[q] \in {"stopped", "restore"}
      PROVE  Goal
  <2>1. ASSUME NEW q \in Process PROVE Listing(q)'
    <3>1. CASE stage'[q] \notin {"apply", "applying"}
      BY <3>1, <1>z
    <3>2. CASE q \notin victims /\ stage'[q] = stage[q] /\ edit'[q] = edit[q]
      BY <1>d, <3>2, <1>k DEF Terminated
    <3>3. QED
      BY <1>d, <3>1, <3>2
  <2>2. QED
    BY <2>1
<1>l. ASSUME NEW p \in Process, Leave(p) PROVE Goal
  <2>1. {p} \in SUBSET Process /\ Terminated({p}) /\ hosts' = hosts
        /\ stage'[p] = "off"
        /\ \A q \in Process \ {p} : stage'[q] = stage[q] /\ edit'[q] = edit[q]
    BY <1>l, <1>t DEF Leave, Exit, Closed
  <2>2. QED
    BY <2>1, <1>d
<1>g. ASSUME NEW p \in Process, NEW from, NEW to, Gate(p, from, to),
             to \notin {"apply", "applying"}
      PROVE  Goal
  BY <1>g, <1>l, <1>m DEF Gate, vars, locals
<1>c. ASSUME NEW p \in Process, CallStep(p) \/ ProgramStep(p)
      PROVE  UNCHANGED hosts /\ \A q \in Process \ {p} : Untouched(q)
  BY <1>c, <1>t, CallLocal
<1>e. ASSUME NEW p \in Process, CallStep(p) \/ ProgramStep(p), Listing(p)', edit' = edit,
             \A q \in Process \ {p} : stage'[q] = stage[q]
      PROVE  Goal
  BY <1>c, <1>e, <1>k DEF Untouched
<1>1. ASSUME NEW p \in Process, Instance(p) PROVE Goal
  <2>1. ASSUME NEW options \in CommandLines, Launch(p, options) PROVE Goal
    <3>1. FirstStage(options) \notin {"apply", "applying"}
      BY DEF FirstStage
    <3>2. /\ UNCHANGED <<hosts, result, edit>>
          /\ \A q \in Process \ {p} : pc'[q] = pc[q] /\ domains'[q] = domains[q]
      BY <2>1, <1>t DEF Launch, StartInstance, Goto, TypeOK
    <3>3. QED
      BY <2>1, <3>1, <3>2, <1>m DEF Launch
  <2>2. CASE WmainGate(p) \/ WindowGate(p)
    BY <2>2, <1>g DEF WmainGate, WindowGate
  <2>3. CASE CloseWindow(p) \/ Decline(p) \/ Stopped(p) \/ TestEnds(p) \/ DebugEnds(p)
             \/ RestoreFails(p)
    BY <2>3, <1>l DEF CloseWindow, Decline, Stopped, TestEnds, DebugEnds, RestoreFails
  <2>4. ASSUME NEW text, SetText(p, text) PROVE Goal
    <3>1. stage'[p] = "window" /\ UNCHANGED <<hosts, pc, result, domains, stage>>
          /\ \A q \in Process \ {p} : edit'[q] = edit[q]
      BY <2>4, <1>t DEF SetText, vars, locals
    <3>2. ASSUME NEW q \in Process PROVE Listing(q)'
      BY <3>1, <1>k, <1>z
    <3>3. QED
      BY <3>2
  <2>5. CASE ClickApply(p)
    <3>1. LoadDomains(p, Parsed(edit[p])) /\ edit' = edit /\ At(p, "window", "apply")
      BY <2>5 DEF ClickApply
    <3>2. /\ domains'[p] = Parsed(edit[p]) /\ UNCHANGED <<hosts, pc, result>>
          /\ \A q \in Process \ {p} : domains'[q] = domains[q]
      BY <3>1, <1>t DEF LoadDomains, TypeOK
    <3>3. stage'[p] = "apply" /\ \A q \in Process \ {p} : stage'[q] = stage[q]
      BY <3>1, <1>t DEF At
    <3>4. Listing(p)'
      BY <3>1, <3>2, <3>3 DEF Listing
    <3>5. QED
      BY <3>1, <3>2, <3>3, <3>4, <1>k
  <2>6. CASE StartApply(p)
    <3>1. CallStep(p) /\ edit' = edit /\ At(p, "apply", "applying") /\ EnterApply(p)
      BY <2>6 DEF StartApply, CallStep, ApplyBlock
    <3>2. domains' = domains /\ result'[p] # "applied"
      BY <3>1, <1>t DEF EnterApply, Finished, locals, TypeOK
    <3>3. stage[p] = "apply" /\ \A q \in Process \ {p} : stage'[q] = stage[q]
      BY <3>1, <1>t DEF At
    <3>4. domains[p] = Parsed(edit[p])
      BY <1>i, <3>3 DEF Listing
    <3>5. Listing(p)'
      BY <3>1, <3>2, <3>4 DEF Listing
    <3>6. QED
      BY <3>1, <3>3, <3>5, <1>e
  <2>7. ASSUME CallStep(p), NEW from, NEW to, At(p, from, to), to \notin {"apply", "applying"},
               edit' = edit
        PROVE  Goal
    BY <2>7, <1>c, <1>m DEF Untouched
  <2>8. CASE DebugLoad(p)
    BY <2>8, <2>7, DebugAssumption DEF DebugLoad, CallStep
  <2>9. CASE DebugSave(p) \/ DebugApply(p) \/ DebugReapply(p)
    BY <2>9, <2>7 DEF DebugSave, DebugApply, DebugReapply, CallStep
  <2>10. CASE Answered(p)
    BY <2>10, <1>l, <1>m DEF Answered, vars, locals
  <2>11. CASE ConfirmStop(p) \/ ConfirmReset(p)
    <3>1. Process \ {p} \in SUBSET Process /\ Terminated(Process \ {p}) /\ hosts' = hosts
      BY <2>11 DEF ConfirmStop, ConfirmReset, TerminateOthers
    <3>2. \A q \in Process : IF q = p THEN stage'[q] \in {"stopped", "restore"} ELSE stage'[q] = "off"
      BY <2>11 DEF ConfirmStop, ConfirmReset, TerminateOthers
    <3>3. QED
      BY <3>1, <3>2, <1>d
  <2>12. CASE Restore(p)
    <3>1. At(p, "restore", "remove") /\ pc' = pc
      BY <2>12 DEF Restore
    <3>2. pc[p] # "dead"
      BY <3>1, <1>t DEF At
    <3>3. ASSUME NEW q \in Process PROVE stage'[q] \notin {"apply", "applying"}
      <4>1. q # p => pc[q] = "dead"
        BY <1>0, <3>2 DEF SoloInv, Alone, Active
      <4>2. QED
        BY <3>1, <4>1, <1>t DEF At
    <3>4. QED
      BY <3>3, <1>z
  <2>13. CASE RemoveData(p)
    BY <2>13, <1>m DEF RemoveData, Terminated
  <2>14. CASE TestCryptoFunctions(p)
    <3>1. PICK from \in Test!Phases, to \in Test!Phases : At(p, from, to)
      BY <2>14 DEF TestCryptoFunctions, Test!TestStep, Test!Generate, Test!OpenStore, Test!CloseStore,
         Test!OpenLoad, Test!ReadLoad, Test!Fail, Test!Pass, Test!Phases, At
    <3>2. to \notin {"apply", "applying"}
      BY DEF Test!Phases
    <3>3. QED
      BY <2>14, <3>1, <3>2, <1>m DEF TestCryptoFunctions, vars, locals
  <2>15. CASE InCall(p)
    <3>1. ProgramStep(p) /\ stage' = stage /\ edit' = edit
      BY <2>15 DEF InCall
    <3>2. domains' = domains
      BY <3>1, <1>t, CallReturn
    <3>3. ASSUME stage[p] = "applying", pc'[p] = "idle", result'[p] = "applied"
          PROVE  {d \in Domain : Enforced(d)'} = Domains(domains[p])
      <4>1. pc[p] = "wait" /\ hw[p] = "ok" /\ hosts # NoFile /\ hosts' = hosts
        BY <3>1, <3>3, <1>t, CallReturn
      <4>2. CallInv(p) /\ base[p] # NoFile
        BY <1>0, <4>1 DEF CallsInv, ReadInv, Composing
      <4>3. hosts = content[p] /\ IsText(content[p], domains[p]) /\ domains[p] # <<>>
        BY <4>1, <4>2 DEF CallInv, BaseInv, Composing
      <4>4. domains[p] \in Seq(Domain) /\ content[p] \in Seq(Line)
        BY <4>3, <1>t, ListsAssumption DEF TypeOK
      <4>5. EntriesInBlocks(hosts)
        BY <1>0 DEF EntryInv
      <4>6. {d \in Domain : Has(hosts, Entry(d))} = Domains(domains[p])
        BY <4>3, <4>4, <4>5, TextEntries
      <4>7. QED
        BY <4>1, <4>6 DEF Enforced
    <3>4. Listing(p)'
      <4>1. Listing(p)
        BY <1>i
      <4>2. QED
        BY <3>1, <3>2, <3>3, <4>1 DEF Listing
    <3>5. QED
      BY <3>1, <3>4, <1>e
  <2>16. CASE InWriter(p)
    <3>1. WriterStep(p) /\ stage' = stage /\ edit' = edit
      BY <2>16 DEF InWriter
    <3>2. Writing(p) /\ UNCHANGED <<pc, domains>>
      BY <3>1, <1>t, WriterLocal DEF locals
    <3>3. pc[p] \in {"wait", "dead"}
      BY <3>2 DEF WaitInv, Writing
    <3>4. Listing(p)'
      BY <1>i, <3>1, <3>2, <3>3 DEF Listing
    <3>5. ASSUME NEW q \in Process \ {p} PROVE Listing(q)'
      <4>1. pc[q] = "dead"
        BY <1>0, <3>1, SoloStep DEF Active
      <4>2. QED
        BY <3>1, <4>1, <1>t, <1>z
    <3>6. QED
      BY <3>4, <3>5
  <2>17. QED
    BY <1>1, <2>1, <2>2, <2>3, <2>4, <2>5, <2>6, <2>8, <2>9, <2>10, <2>11, <2>12, <2>13, <2>14,
       <2>15, <2>16 DEF Instance, TypeText, ImportFile
<1>2. CASE World
  <2>1. ASSUME NEW p \in Process, Kill(p), stage' = [stage EXCEPT ![p] = "off"], Closed({p})
        PROVE  Goal
    <3>1. {p} \in SUBSET Process /\ Terminated({p}) /\ hosts' = hosts
          /\ stage'[p] = "off"
          /\ \A q \in Process \ {p} : stage'[q] = stage[q] /\ edit'[q] = edit[q]
      BY <2>1, <1>t DEF Kill, Closed
    <3>2. QED
      BY <3>1, <1>d
  <2>2. ASSUME stage' = [p \in Process |-> "off"] PROVE Goal
    BY <2>2, <1>z
  <2>3. ASSUME NEW f \in EditFiles, UserEdit(f) PROVE FALSE
    BY <2>3, <1>0, <1>t DEF UserEdit, TypeOK
  <2>4. QED
    BY <1>2, <2>1, <2>2, <2>3 DEF World
<1>3. CASE UNCHANGED sysvars
  BY <1>3, <1>u DEF sysvars, vars, locals
<1>4. QED
  BY <1>1, <1>2, <1>3 DEF SysNext

---------------------------------------------------------------------------
(* The text of the window and its list.                                    *)

LEMMA WordTokens ==
  \A token \in Token : token \in Word =>
    token # "#" /\ token # "odd" /\ token # "lf" /\ ~IsSpace(token)
  BY WordAssumption DEF IsSpace

(* The match of the regular expression takes from a well-formed line what  *)
(* the line is meant to say.                                               *)
LEMMA CapturedIsMeant ==
  ASSUME NEW line \in Seq(Token \ {"lf"}), WellFormed(line)
  PROVE  Captured(line) = Meant(line)
<1> DEFINE n == Len(line)
           P == {i \in 1..n : line[i] \in Word /\ \A k \in 1..i : line[k] # "#"}
           W == Picked(line, P)
           starts == {i \in 1..n : Follows(line, i) # {}}
           first == CHOOSE i \in starts : \A k \in starts : i <= k
           named == IF line[first] \in Address THEN Follows(line, first + 1) ELSE {}
           match == {line[j] : j \in IF named # {} THEN named ELSE Follows(line, first)}
<1>1. n = Len(line) /\ n \in Nat
  OBVIOUS
<1>2. P \in SUBSET (1..n) /\ \A i \in P : line[i] \in Word
  OBVIOUS
<1>3. \A i \in 1..n : line[i] \in Token /\ line[i] # "lf"
  OBVIOUS
<1>4. Meant(line) = IF W = <<>> THEN {}
                    ELSE IF Len(W) > 1 /\ W[1] \in Address THEN {W[2]} ELSE {W[1]}
  BY DEF Meant, Words
<1>5. Captured(line) = IF line = <<>> \/ starts = {} \/ line[1] = "#" THEN {} ELSE match
  BY DEF Captured
<1>6. \A i \in Nat \ {0} : \A j : j \in Follows(line, i) <=>
        j \in i..n /\ line[j] \in Word /\ \A k \in i..(j - 1) : IsSpace(line[k])
  BY DEF Follows
<1>7. \A i : i \in P <=> i \in 1..n /\ line[i] \in Word /\ \A k \in 1..i : line[k] # "#"
  OBVIOUS
<1>8. \A i : i \in starts <=> i \in 1..n /\ Follows(line, i) # {}
  OBVIOUS
<1> HIDE DEF P, n, starts, named, match
<1>9. IsFiniteSet(P) /\ P \in SUBSET Nat /\ P \in SUBSET (Nat \ {0})
  <2>1. IsFiniteSet(1..n)
    BY <1>1, FS_Interval
  <2>2. QED
    <3>1. IsFiniteSet(P)
      BY <1>2, <2>1, FS_Subset
    <3>2. QED
      BY <1>1, <1>2, <3>1
<1>10. W \in Seq(Word) /\ Len(W) = Cardinality(P)
  BY <1>2, <1>9, PickedSeq
<1>11. ASSUME 1 \in P
       PROVE  /\ Len(W) >= 1 /\ W[1] = line[1]
              /\ \A j \in P \ {1} : (\A x \in P : x <= j => x \in {1, j}) =>
                   Len(W) >= 2 /\ W[2] = line[j]
              /\ Len(W) >= 2 => \E j \in P \ {1} : \A x \in P : x <= j => x \in {1, j}
  BY <1>9, <1>11, PickedFirst
<1> HIDE DEF W
<1>12. CASE line = <<>> \/ line[1] \notin Word
  <2>1. P = {} /\ (line = <<>> \/ starts = {} \/ line[1] = "#")
    <3>1. CASE line = <<>>
      BY <1>1, <1>7, <3>1
    <3>2. CASE line # <<>> /\ line[1] = "#"
      BY <1>7, <3>2
    <3>3. CASE line # <<>> /\ line[1] # "#"
      <4>1. \A i \in 1..n : line[i] \notin Word
        BY <1>1, <1>12, <3>3 DEF WellFormed
      <4>2. starts = {}
        <5> SUFFICES ASSUME NEW i \in 1..n, NEW j \in Follows(line, i) PROVE FALSE
          BY <1>8
        <5>1. j \in i..n /\ line[j] \in Word
          BY <1>6
        <5>2. QED
          BY <1>1, <4>1, <5>1
      <4>3. P = {}
        BY <1>7, <4>1
      <4>4. QED
        BY <4>2, <4>3
    <3>4. QED
      BY <3>1, <3>2, <3>3
  <2>2. W = <<>>
    BY <1>10, <2>1, FS_EmptySet
  <2>3. Captured(line) = {}
    BY <1>5, <2>1
  <2>4. Meant(line) = {}
    BY <1>4, <2>2
  <2>5. QED
    BY <2>3, <2>4
<1>13. CASE line # <<>> /\ line[1] \in Word
  <2>1. n >= 1 /\ 1 \in 1..n /\ line[1] # "#" /\ ~IsSpace(line[1])
    BY <1>1, <1>13, WordTokens
  <2>2. 1 \in P
    BY <1>7, <1>13, <2>1
  <2>3. W[1] = line[1] /\ Len(W) >= 1 /\ Len(W) \in Nat /\ W # <<>>
    BY <1>10, <1>11, <2>2
  <2>4. Follows(line, 1) = {1}
    <3>1. 1 \in Follows(line, 1)
      BY <1>6, <1>13, <2>1
    <3>2. ASSUME NEW j \in Follows(line, 1) PROVE j = 1
      <4>1. j \in 1..n /\ \A k \in 1..(j - 1) : IsSpace(line[k])
        BY <1>6
      <4>2. QED
        BY <2>1, <4>1
    <3>3. QED
      BY <3>1, <3>2
  <2>5. first = 1
    <3>1. 1 \in starts
      BY <1>8, <2>1, <2>4
    <3>2. \A k \in starts : k \in Nat /\ 1 <= k
      BY <1>1, <1>8
    <3>3. QED
      BY <3>1, <3>2
  <2> HIDE DEF first
  <2>6. named = IF line[1] \in Address THEN Follows(line, 2) ELSE {}
    BY <2>5 DEF named
  <2>7. Captured(line) = match
    <3>1. starts # {} /\ line[1] # "#" /\ line # <<>>
      BY <1>8, <1>13, <2>1, <2>4
    <3>2. QED
      BY <1>5, <3>1
  <2>8. CASE named = {}
    <3>1. Captured(line) = {line[1]}
      BY <2>4, <2>5, <2>7, <2>8 DEF match
    <3>2. Len(W) <= 1 \/ line[1] \notin Address
      <4> SUFFICES ASSUME Len(W) >= 2, line[1] \in Address PROVE FALSE
        BY <2>3
      <4>1. PICK i \in P \ {1} : \A x \in P : x <= i => x \in {1, i}
        BY <1>11, <2>2
      <4>2. i \in 2..n /\ line[i] \in Word /\ \A k \in 1..i : line[k] # "#"
        BY <1>1, <1>7, <4>1
      <4>3. ASSUME NEW k \in 2..(i - 1) PROVE IsSpace(line[k])
        <5>1. k \in 1..n /\ k \in 1..i /\ k \in 1..(n - 1) /\ k <= i /\ k # 1 /\ k # i
          BY <1>1, <4>2
        <5>2. k \notin P
          BY <4>1, <5>1
        <5>3. line[k] # "#" /\ \A x \in 1..k : line[x] # "#"
          BY <4>2, <5>1
        <5>4. line[k] \notin Word
          BY <1>7, <5>1, <5>2, <5>3
        <5>5. line[k] # "odd" /\ line[k] \in Token /\ line[k] # "lf"
          BY <1>1, <5>1 DEF WellFormed
        <5>6. QED
          BY <5>3, <5>4, <5>5 DEF Token, IsSpace
      <4>4. i \in Follows(line, 2)
        BY <1>6, <4>2, <4>3
      <4>5. QED
        BY <2>6, <2>8, <4>4
    <3>3. Meant(line) = {line[1]}
      <4>1. ~(Len(W) > 1 /\ W[1] \in Address)
        BY <2>3, <3>2
      <4>2. QED
        BY <1>4, <2>3, <4>1
    <3>4. QED
      BY <3>1, <3>3
  <2>9. CASE named # {}
    <3>1. line[1] \in Address /\ named = Follows(line, 2)
      BY <2>6, <2>9
    <3>2. PICK j : j \in Follows(line, 2)
      BY <2>9, <3>1
    <3>3. j \in 2..n /\ line[j] \in Word /\ \A k \in 2..(j - 1) : IsSpace(line[k])
      BY <1>6, <3>2
    <3>4. ASSUME NEW k \in 2..(j - 1) PROVE line[k] \notin Word /\ line[k] # "#"
      <4>1. k \in 1..n /\ IsSpace(line[k])
        BY <1>1, <3>3
      <4>2. line[k] \in Token
        BY <1>1, <4>1
      <4>3. QED
        BY <4>1, <4>2, WordTokens DEF IsSpace
    <3>5. line[j] # "#"
      BY <1>1, <3>3, WordTokens
    <3>6. j \in P \ {1}
      <4>1. \A k \in 1..j : k = 1 \/ k = j \/ k \in 2..(j - 1)
        BY <1>1, <3>3
      <4>2. \A k \in 1..j : line[k] # "#"
        BY <2>1, <3>4, <3>5, <4>1
      <4>3. QED
        BY <1>1, <1>7, <3>3, <4>2
    <3>7. \A x \in P : x <= j => x \in {1, j}
      <4> SUFFICES ASSUME NEW x \in P, x <= j, x # 1, x # j PROVE FALSE
        OBVIOUS
      <4>1. x \in 2..(j - 1) /\ line[x] \in Word
        BY <1>1, <1>7, <3>3
      <4>2. QED
        BY <3>4, <4>1
    <3>8. W[2] = line[j] /\ Len(W) > 1
      BY <1>11, <2>2, <2>3, <3>6, <3>7
    <3>9. Follows(line, 2) = {j}
      <4>1. ASSUME NEW m \in Follows(line, 2) PROVE m = j
        <5>1. m \in 2..n /\ line[m] \in Word /\ \A k \in 2..(m - 1) : IsSpace(line[k])
          BY <1>6
        <5>2. ~IsSpace(line[m]) /\ ~IsSpace(line[j])
          BY <1>1, <3>3, <5>1, WordTokens
        <5>3. QED
          BY <1>1, <3>3, <5>1, <5>2
      <4>2. QED
        BY <3>2, <4>1
    <3>10. Captured(line) = {line[j]}
      BY <2>7, <2>9, <3>1, <3>9 DEF match
    <3>11. Meant(line) = {line[j]}
      BY <1>4, <2>3, <3>1, <3>8
    <3>12. QED
      BY <3>10, <3>11
  <2>10. QED
    BY <2>8, <2>9
<1>14. QED
  BY <1>12, <1>13

(* std::getline gives lines without an end of line in them.                *)
LEMMA LinesType ==
  ASSUME NEW text \in Seq(Token)
  PROVE  Lines(text) \in Seq(Seq(Token \ {"lf"}))
<1> DEFINE all == Append(text, "odd")
           m == Len(all)
           ends == {i \in 1..m : all[i] = "lf"} \cup {m + 1}
           line == [e \in ends |-> LineTo(all, e)]
<1>1. m \in Nat /\ \A i \in 1..m : all[i] \in Token
  BY DEF Token
<1>2. ends \in SUBSET (1..(m + 1))
  BY <1>1
<1>3. Lines(text) = Picked(line, ends)
  BY DEF Lines
<1> HIDE DEF all, m, ends
<1>4. IsFiniteSet(ends) /\ ends \in SUBSET Nat
  <2>1. IsFiniteSet(1..(m + 1))
    BY <1>1, FS_Interval
  <2>2. IsFiniteSet(ends)
    BY <1>2, <2>1, FS_Subset
  <2>3. QED
    BY <1>1, <1>2, <2>2
<1>5. ASSUME NEW e \in ends PROVE line[e] \in Seq(Token \ {"lf"})
  <2> DEFINE S == {i \in 1..(e - 1) : \A k \in i..(e - 1) : all[k] # "lf"}
  <2>1. e - 1 \in Nat /\ e - 1 <= m
    BY <1>1, <1>2
  <2>2. S \in SUBSET (1..(e - 1)) /\ S \in SUBSET Nat
    BY <2>1
  <2>3. ASSUME NEW i \in S PROVE all[i] \in Token \ {"lf"}
    <3>1. i \in 1..m /\ i \in i..(e - 1)
      BY <1>1, <2>1
    <3>2. QED
      BY <1>1, <3>1
  <2>4. LineTo(all, e) = Picked(all, S)
    BY DEF LineTo
  <2> HIDE DEF S
  <2>5. IsFiniteSet(S)
    <3>1. IsFiniteSet(1..(e - 1))
      BY <2>1, FS_Interval
    <3>2. QED
      BY <2>2, <3>1, FS_Subset
  <2>6. Picked(all, S) \in Seq(Token \ {"lf"})
    BY <2>2, <2>3, <2>5, PickedSeq
  <2>7. QED
    BY <2>4, <2>6
<1> HIDE DEF line
<1>6. QED
  BY <1>3, <1>4, <1>5, PickedSeq

(* The list that Parsed reads of a text with well-formed lines is the one  *)
(* that the text is meant to say, for every text.                          *)
THEOREM ParsedIsListed ==
  ASSUME NEW text \in Seq(Token),
         \A k \in 1..Len(Lines(text)) : WellFormed(Lines(text)[k])
  PROVE  Domains(Parsed(text)) = Listed(text)
<1> DEFINE lines == Lines(text)
           n == Len(lines)
           P == {k \in 1..n : Captured(lines[k]) # {}}
           found == Picked(lines, P)
           list == [k \in 1..Len(found) |-> CHOOSE d \in Captured(found[k]) : TRUE]
<1>1. n \in Nat /\ \A k \in 1..n : lines[k] \in Seq(Token \ {"lf"})
  BY LinesType
<1>2. \A k \in 1..n : Captured(lines[k]) = Meant(lines[k])
  BY <1>1, CapturedIsMeant
<1>3. \A line : Meant(line) = {} \/ \E d : Meant(line) = {d}
  BY DEF Meant
<1>4. Parsed(text) = list
  BY DEF Parsed
<1>5. Listed(text) = UNION {Meant(lines[k]) : k \in 1..n}
  BY DEF Listed
<1>6. P \in SUBSET (1..n) /\ \A k : k \in P <=> k \in 1..n /\ Captured(lines[k]) # {}
  OBVIOUS
<1> HIDE DEF lines, n, P
<1>7. IsFiniteSet(P) /\ P \in SUBSET Nat
  <2>1. IsFiniteSet(1..n)
    BY <1>1, FS_Interval
  <2>2. IsFiniteSet(P)
    BY <1>6, <2>1, FS_Subset
  <2>3. QED
    BY <1>1, <1>6, <2>2
<1>8. Len(found) = Cardinality(P) /\ Cardinality(P) \in Nat
  <2>1. \A k \in P : lines[k] \in Seq(Token \ {"lf"})
    BY <1>1, <1>6
  <2>2. QED
    BY <1>7, <2>1, PickedSeq
<1>9. /\ \A i \in P : \E k \in 1..Len(found) : found[k] = lines[i]
      /\ \A k \in 1..Len(found) : \E i \in P : found[k] = lines[i]
  <2>1. \A i \in P : Rank(P, i) \in 1..Cardinality(P) /\ found[Rank(P, i)] = lines[i]
    <3>1. \A i \in P : Rank(P, i) \in 1..Cardinality(P)
      BY <1>7, RankOnto
    <3>2. \A i \in P : found[Rank(P, i)] = lines[i]
      BY <1>7, PickedElements
    <3>3. QED
      BY <3>1, <3>2
  <2>2. \A k \in 1..Cardinality(P) : \E i \in P : found[k] = lines[i]
    BY <1>7, PickedElements
  <2> HIDE DEF found
  <2>3. QED
    BY <1>8, <2>1, <2>2
<1> HIDE DEF found
<1>10. \A k \in 1..Len(found) : Captured(found[k]) = {list[k]}
  <2> SUFFICES ASSUME NEW k \in 1..Len(found) PROVE Captured(found[k]) = {list[k]}
    OBVIOUS
  <2>1. PICK i \in P : found[k] = lines[i]
    BY <1>9
  <2>2. PICK d : Captured(found[k]) = {d}
    BY <1>2, <1>3, <1>6, <2>1
  <2>3. list[k] = CHOOSE x \in Captured(found[k]) : TRUE
    OBVIOUS
  <2>4. QED
    BY <2>2, <2>3
<1>11. Domains(list) = {list[k] : k \in 1..Len(found)}
  <2>1. Len(list) = Len(found)
    BY <1>8
  <2> HIDE DEF list
  <2>2. QED
    BY <2>1 DEF Domains
<1> HIDE DEF list
<1>12. ASSUME NEW d PROVE d \in Domains(list) <=> d \in Listed(text)
  <2>1. d \in Domains(list) <=> \E k \in 1..Len(found) : d \in Captured(found[k])
    BY <1>10, <1>11
  <2>2. d \in Listed(text) <=> \E i \in 1..n : d \in Captured(lines[i])
    BY <1>2, <1>5
  <2>3. QED
    BY <1>6, <1>9, <2>1, <2>2
<1>13. QED
  BY <1>4, <1>12

---------------------------------------------------------------------------
(* For any number of instances, any command lines, crashes, stops and      *)
(* resets, and any faults but that buffered text is lost, where nobody     *)
(* else made entries and the lines of the texts are well formed: until an  *)
(* edit by the user or two instances at work together, as a call of the    *)
(* window has succeeded what is blocked is what the text lists.            *)
THEOREM ListedHolds ==
  ASSUME "flush" \notin Faults, FilesManaged, TextsMeant
  PROVE  SysSpec => []ListedIsBlocked
<1> DEFINE Inv == /\ SysInv /\ HomeInv /\ WaitInv /\ SoloInv
                  /\ CallsInv /\ ReadInv /\ EntryInv /\ ListInv
<1>1. SysInit => Inv
  <2> SUFFICES ASSUME SysInit PROVE Inv
    OBVIOUS
  <2>1. /\ Init /\ tmp = NoFile
        /\ \A p \in Process : /\ pc[p] = "dead" /\ hw[p] = "none" /\ stage[p] = "off"
                              /\ src[p] = <<>>
    BY DEF SysInit, Init
  <2>2. EntriesInBlocks(hosts)
    BY <2>1 DEF Init, FilesManaged
  <2>3. WaitInv /\ SoloInv /\ CallsInv /\ ReadInv
    BY <2>1, CallInit DEF WaitInv, SoloInv, CallsInv, ReadInv, Active, Alone, Writing, Composing
  <2>4. EntryInv /\ ListInv
    BY <2>1, <2>2, EntriesNowhere DEF EntryInv, ListInv, Listing, Composing
  <2>5. QED
    BY <2>3, <2>4, SysTypeInit, HomeInit
<1>2. Inv /\ [SysNext]_sysvars => Inv'
  <2> SUFFICES ASSUME Inv, [SysNext]_sysvars PROVE Inv'
    OBVIOUS
  <2>1. SysInv' /\ HomeInv' /\ WaitInv' /\ SoloInv' /\ ReadInv'
    BY SysTypeNext, WaitNext, SoloNext, ReadNext
  <2>2. CallsInv' /\ EntryInv' /\ ListInv'
    BY CallsNext, EntryNext, ListNext
  <2>3. QED
    BY <2>1, <2>2
<1>3. Inv => ListedIsBlocked
  <2> SUFFICES ASSUME Inv, NEW p \in Process, stage[p] = "applying", pc[p] = "idle",
                      result[p] = "applied", ~overlap, edits = 0
               PROVE  {d \in Domain : Enforced(d)} = Listed(edit[p])
    BY DEF ListedIsBlocked
  <2>1. {d \in Domain : Enforced(d)} = Domains(Parsed(edit[p]))
    BY DEF ListInv, Listing
  <2>2. edit[p] \in Typings \cup {<<>>}
    BY DEF SysInv, SysTypeOK
  <2>3. edit[p] \in Seq(Token)
    BY <2>2, TextAssumption DEF Typings
  <2>4. \A k \in 1..Len(Lines(edit[p])) : WellFormed(Lines(edit[p])[k])
    BY <2>2 DEF TextsMeant
  <2>5. QED
    BY <2>1, <2>3, <2>4, ParsedIsListed
<1>4. QED
  BY <1>1, <1>2, <1>3, PTL DEF SysSpec
==========================================================================
