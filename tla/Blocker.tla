----------------------------- MODULE Blocker -----------------------------
(***************************************************************************)
(* Class Blocker (src/src/blocker.cpp) in every instance of the program,   *)
(* the elevated helper hostswriter.exe that each of them starts, and the   *)
(* three files they share: the hosts file, its backup and the temporary    *)
(* file `hosts.tmp`.                                                       *)
(*                                                                         *)
(* The steps of different processes interleave at every access to a file.  *)
(* A call of Blocker runs on the one thread of its process; pc[p] names    *)
(* the next access it makes.  Three things about the platform are taken    *)
(* from how the code uses it (README, "Assumptions on Windows"):           *)
(*   - CopyFileW takes its source in one piece, empties its target and     *)
(*     then extends it line by line; others may read the target meanwhile  *)
(*     but not write it;                                                   *)
(*   - a file that a process has open cannot be deleted;                   *)
(*   - an open file is closed, and nothing else, when its process dies.    *)
(***************************************************************************)
EXTENDS HostsText, FiniteSets

CONSTANTS
  Process,       \* running instances of the program
  DomainLists,   \* the lists a caller hands to loadDomains
  InitialFiles,  \* what the hosts file can hold at the start
  EditFiles,     \* what a user can make of it later (NoFile: deletes it)
  Operations,    \* the public calls made: "apply", "reapply", "backup"
  Faults,        \* what can fail: see each use
  MaxCalls,      \* bound: calls of applyBlock, reapplyBlock, backupHosts
  MaxEdits,      \* bound: edits by a user
  MaxCrashes     \* bound: killed processes and reboots

ASSUME ListsAssumption == DomainLists \subseteq Seq(Domain)
ASSUME FilesAssumption == InitialFiles \subseteq File /\ EditFiles \subseteq File
ASSUME NoFileAssumption == NoFile \notin Seq(Line)
ASSUME BoundsAssumption ==
  MaxCalls \in Nat /\ MaxEdits \in Nat /\ MaxCrashes \in Nat

VARIABLES
  hosts, backup, tmp,   \* contents of the three files; NoFile: absent
  pc,                   \* next step of each process
  domains,              \* m_domains
  inside, pos,          \* insideBlock, place of inFile, then of ofs
  content,              \* the text in hand: of a copy, or composed
  result,               \* what the last call returned
  hw, src,              \* hostswriter of each process, what it read
  calls, edits, crashes,
  \* Observed only; no step of the program depends on them:
  author,               \* who last wrote the hosts file
  mixed,                \* lines of two texts were ever in the temporary file
  base,                 \* hosts file as applyBlock opened it, while unchanged
  original              \* hosts file before the program first ran

files   == <<hosts, backup, tmp>>
locals  == <<domains, inside, pos, content>>
writer  == <<hw, src>>
bounds  == <<calls, edits, crashes>>
history == <<author, mixed, base, original>>
vars == <<files, pc, locals, result, writer, bounds, history>>

Labels == {"idle", "backup", "backup_begin", "backup_copy", "save_copy",
           "open", "read", "tmp", "write", "close", "launch", "wait", "dead"}
Results == {"none", "failed", "applied", "intact", "saved"}
WriterStates == {"none", "start", "copy", "ok", "failed"}
Authors == {"user", "hostswriter", "reset"}

TypeOK ==
  /\ hosts \in File /\ backup \in File /\ tmp \in File
  /\ pc \in [Process -> Labels]
  /\ domains \in [Process -> DomainLists \cup {<<>>}]
  /\ inside \in [Process -> BOOLEAN]
  /\ pos \in [Process -> Nat]
  /\ content \in [Process -> Seq(Line)]
  /\ result \in [Process -> Results]
  /\ hw \in [Process -> WriterStates]
  /\ src \in [Process -> Seq(Line)]
  /\ calls \in Nat /\ edits \in Nat /\ crashes \in Nat
  /\ author \in Authors /\ mixed \in BOOLEAN
  /\ base \in [Process -> File]
  /\ original \in File

Init ==
  /\ hosts \in InitialFiles
  /\ backup = NoFile /\ tmp = NoFile
  /\ pc = [p \in Process |-> "dead"]
  /\ domains = [p \in Process |-> <<>>]
  /\ inside = [p \in Process |-> FALSE]
  /\ pos = [p \in Process |-> 0]
  /\ content = [p \in Process |-> <<>>]
  /\ result = [p \in Process |-> "none"]
  /\ hw = [p \in Process |-> "none"]
  /\ src = [p \in Process |-> <<>>]
  /\ calls = 0 /\ edits = 0 /\ crashes = 0
  /\ author = "user" /\ mixed = FALSE
  /\ base = [p \in Process |-> NoFile]
  /\ original = hosts

---------------------------------------------------------------------------
(* Moving a process on, and the return of its call: the locals of the call *)
(* go out of scope, m_domains stays.                                       *)

Goto(p, from, to) == pc[p] = from /\ pc' = [pc EXCEPT ![p] = to]

Finished(p, r) ==
  /\ pc' = [pc EXCEPT ![p] = "idle"]
  /\ result' = [result EXCEPT ![p] = r]
  /\ inside' = [inside EXCEPT ![p] = FALSE]
  /\ pos' = [pos EXCEPT ![p] = 0]
  /\ content' = [content EXCEPT ![p] = <<>>]
  /\ base' = [base EXCEPT ![p] = NoFile]
  /\ UNCHANGED <<domains, author, mixed, original>>

(* hostsPath is open in p: as the source of a backup, or as inFile, which  *)
(* applyBlock never closes before it returns.                              *)
HoldsHosts(p) ==
  pc[p] \in {"backup_copy", "save_copy", "read", "tmp", "write", "close", "launch", "wait"}

(* The backup is open in p, as the target of a copy.                       *)
HoldsBackup(p) == pc[p] \in {"backup_copy", "save_copy"}

(* The stream ofs is open in p.                                            *)
HoldsTmp(p) == pc[p] \in {"write", "close"}

Copying(p) == hw[p] = "copy"
Writing(p) == hw[p] \in {"start", "copy"}

(* Everybody but p loses what it knew of the hosts file.                   *)
Touched(p) == base' = [q \in Process |-> IF q = p THEN base[q] ELSE NoFile]

(* fs::remove(tempPath): with another process in the file the deletion may *)
(* fail, which every call site ignores.                                    *)
TmpInUse(p) == \E q \in Process \ {p} : HoldsTmp(q) \/ Copying(q)

RemoveTmp(p) ==
  \/ /\ \A q \in Process \ {p} : ~HoldsTmp(q)
     /\ tmp' = NoFile
  \/ /\ TmpInUse(p)
     /\ tmp' = tmp

---------------------------------------------------------------------------
(* The public calls.                                                       *)

LoadDomains(p, ds) ==
  /\ pc[p] = "idle"
  /\ ds # <<>>
  /\ domains' = [domains EXCEPT ![p] = ds]
  /\ UNCHANGED <<files, pc, inside, pos, content, result, writer, bounds, history>>

(* Faulty: the check of line 202 is missing.                               *)
EnterApplyUnchecked(p) ==
  \/ "admin" \in Faults /\ Finished(p, "failed")
  \/ /\ pc' = [pc EXCEPT ![p] = "backup"]
     /\ result' = [result EXCEPT ![p] = "none"]
     /\ UNCHANGED <<locals, history>>

(* applyBlock, lines 196-205.  Fault "admin": the process is not elevated. *)
EnterApply(p) ==
  \/ /\ "admin" \in Faults \/ domains[p] = <<>>
     /\ Finished(p, "failed")
  \/ /\ domains[p] # <<>>
     /\ pc' = [pc EXCEPT ![p] = "backup"]
     /\ result' = [result EXCEPT ![p] = "none"]
     /\ UNCHANGED <<locals, history>>

Call(p, operation) ==
  /\ operation \in Operations
  /\ pc[p] = "idle"
  /\ calls < MaxCalls
  /\ calls' = calls + 1
  /\ UNCHANGED <<edits, crashes, hosts, tmp, writer>>

ApplyBlock(p) ==
  /\ Call(p, "apply")
  /\ EnterApply(p)
  /\ UNCHANGED backup

(* What isBlocked can say: a file that cannot be opened holds no block.    *)
IsBlocked == {Blocked(hosts)} \cup (IF "open" \in Faults THEN {FALSE} ELSE {})

(* A file with both markers is left alone.                                 *)
ReapplyBlock(p) ==
  /\ Call(p, "reapply")
  /\ \E blocked \in IsBlocked :
       IF blocked THEN Finished(p, "intact") ELSE EnterApply(p)
  /\ UNCHANGED backup

(* fs::copy_file: it has nothing to copy, or another copy has the backup.  *)
CannotCopy == hosts = NoFile \/ \E q \in Process : HoldsBackup(q)

(* It takes the hosts file and empties the backup, whatever was in it.     *)
StartCopy(p) ==
  /\ ~CannotCopy
  /\ backup' = <<>>
  /\ content' = [content EXCEPT ![p] = hosts]
  /\ UNCHANGED <<domains, inside, pos>>

CopyBackupLine(p) ==
  /\ HoldsBackup(p)
  /\ Len(backup) < Len(content[p])
  /\ backup' = Append(backup, content[p][Len(backup) + 1])
  /\ UNCHANGED <<hosts, tmp, pc, locals, result, writer, bounds, history>>

BackupHosts(p) ==
  /\ Call(p, "backup")
  /\ \/ /\ {"admin", "backup"} \cap Faults # {} \/ CannotCopy
        /\ Finished(p, "failed")
        /\ UNCHANGED backup
     \/ /\ StartCopy(p)
        /\ pc' = [pc EXCEPT ![p] = "save_copy"]
        /\ result' = [result EXCEPT ![p] = "none"]
        /\ UNCHANGED history

SaveCopied(p) ==
  /\ pc[p] = "save_copy"
  /\ \/ Len(backup) = Len(content[p]) /\ Finished(p, "saved")
     \/ "backup" \in Faults /\ Finished(p, "failed")
  /\ UNCHANGED <<files, writer, bounds>>

---------------------------------------------------------------------------
(* applyBlock: the automatic backup.  Fault "backup": exists,              *)
(* create_directories, copy_file or permissions throws; the call goes on.  *)

(* Faulty: a backup that exists is overwritten.                            *)
CheckBackupNever(p) ==
  /\ Goto(p, "backup", "backup_begin")
  /\ UNCHANGED <<files, locals, result, writer, bounds, history>>

CheckBackup(p) ==
  /\ Goto(p, "backup", IF backup = NoFile THEN "backup_begin" ELSE "open")
  /\ UNCHANGED <<files, locals, result, writer, bounds, history>>

BeginBackup(p) ==
  /\ StartCopy(p)
  /\ Goto(p, "backup_begin", "backup_copy")
  /\ UNCHANGED <<hosts, tmp, result, writer, bounds, history>>

(* The backup is over, well or not.                                        *)
LeaveBackup(p) ==
  /\ pc' = [pc EXCEPT ![p] = "open"]
  /\ content' = [content EXCEPT ![p] = <<>>]
  /\ UNCHANGED <<files, domains, inside, pos, result, writer, bounds, history>>

CopyBackup(p) ==
  /\ pc[p] = "backup_copy"
  /\ Len(backup) = Len(content[p])
  /\ LeaveBackup(p)

BackupFails(p) ==
  /\ \/ "backup" \in Faults /\ pc[p] \in {"backup", "backup_begin", "backup_copy"}
     \/ CannotCopy /\ pc[p] = "backup_begin"
  /\ LeaveBackup(p)

---------------------------------------------------------------------------
(* applyBlock: reading the hosts file and composing the new one.           *)

OpenHosts(p) ==
  /\ hosts # NoFile
  /\ Goto(p, "open", "read")
  /\ pos' = [pos EXCEPT ![p] = 1]
  /\ base' = [base EXCEPT ![p] = hosts]
  /\ UNCHANGED <<files, domains, inside, content, result, writer, bounds, author, mixed, original>>

OpenHostsFails(p) ==
  /\ pc[p] = "open"
  /\ "open" \in Faults \/ hosts = NoFile
  /\ Finished(p, "failed")
  /\ UNCHANGED <<files, writer, bounds>>

(* Faulty: the end marker does not clear insideBlock.                      *)
ReadLineStaysInside(p) ==
  /\ pc[p] = "read"
  /\ pos[p] <= Len(hosts)
  /\ LET line == hosts[pos[p]] IN
       /\ inside' = [inside EXCEPT ![p] = @ \/ line = Start]
       /\ content' = [content EXCEPT ![p] =
                       IF line \in Marker \/ inside[p] THEN @ ELSE Append(@, line)]
  /\ pos' = [pos EXCEPT ![p] = @ + 1]
  /\ UNCHANGED <<files, pc, domains, result, writer, bounds, history>>

(* One turn of the loop of lines 233-245, on the file as it is now.        *)
ReadLine(p) ==
  /\ pc[p] = "read"
  /\ pos[p] <= Len(hosts)
  /\ LET line == hosts[pos[p]] IN
       /\ inside' = [inside EXCEPT ![p] =
                       IF line \in Marker THEN line = Start ELSE @]
       /\ content' = [content EXCEPT ![p] =
                       IF line \in Marker \/ inside[p] THEN @ ELSE Append(@, line)]
  /\ pos' = [pos EXCEPT ![p] = @ + 1]
  /\ UNCHANGED <<files, pc, domains, result, writer, bounds, history>>

(* Faulty: the list is written as one line.                                *)
BuildContentOneLine(p) ==
  /\ Goto(p, "read", "tmp")
  /\ pos[p] > Len(hosts)
  /\ content' = [content EXCEPT ![p] =
                   @ \o <<Managed, Start, Entry(domains[p]), End>>]
  /\ UNCHANGED <<files, domains, inside, pos, result, writer, bounds, history>>

BuildContent(p) ==
  /\ Goto(p, "read", "tmp")
  /\ pos[p] > Len(hosts)
  /\ content' = [content EXCEPT ![p] = Composed(@, domains[p])]
  /\ UNCHANGED <<files, domains, inside, pos, result, writer, bounds, history>>

---------------------------------------------------------------------------
(* secureWrite.  All processes use the same temporary file.                *)

OpenTmp(p) ==
  /\ Goto(p, "tmp", "write")
  /\ tmp' = <<>>
  /\ pos' = [pos EXCEPT ![p] = 0]
  /\ UNCHANGED <<hosts, backup, domains, inside, content, result, writer, bounds, history>>

OpenTmpFails(p) ==
  /\ pc[p] = "tmp"
  /\ "tmp" \in Faults
  /\ Finished(p, "failed")
  /\ UNCHANGED <<files, writer, bounds>>

(* The first n lines of f are not those of text, or they are not all of it *)
(* and those of another stand behind them.                                 *)
MixedIn(f, text, n) ==
  SubSeq(f, 1, n) # SubSeq(text, 1, n) \/ (n < Len(text) /\ n < Len(f))

(* The stream of p writes its text up to line n.                           *)
WriteUpTo(p, n) ==
  /\ tmp' = Overlay(tmp, pos[p], SubSeq(content[p], pos[p] + 1, n))
  /\ pos' = [pos EXCEPT ![p] = n]
  /\ mixed' = (mixed \/ (tmp' # tmp /\ MixedIn(tmp', content[p], n)))
  /\ UNCHANGED <<hosts, backup, domains, inside, content, result, writer, bounds, author, base,
                 original>>

(* ofs << content writes what fills the buffer of the stream; a short text *)
(* stays in it.                                                            *)
WriteTmp(p) ==
  /\ Goto(p, "write", "close")
  /\ \E n \in 0..Len(content[p]) : WriteUpTo(p, n)

(* The destructor of ofs writes the rest.                                  *)
CloseTmp(p) ==
  /\ Goto(p, "close", "launch")
  /\ WriteUpTo(p, Len(content[p]))

(* Fault "flush": what it cannot write is lost unnoticed.                  *)
WriteTmpShort(p) ==
  /\ "flush" \in Faults
  /\ Goto(p, "close", "launch")
  /\ \E n \in pos[p]..(Len(content[p]) - 1) : WriteUpTo(p, n)

(* Fault "write": ofs << content throws, before it has written anything or *)
(* with a part of it written; the handler removes the file.                *)
WriteTmpFails(p) ==
  /\ HoldsTmp(p)
  /\ "write" \in Faults
  /\ RemoveTmp(p)
  /\ Finished(p, "failed")
  /\ UNCHANGED <<hosts, backup, writer, bounds>>

LaunchWriter(p) ==
  /\ Goto(p, "launch", "wait")
  /\ hw' = [hw EXCEPT ![p] = "start"]
  /\ UNCHANGED <<files, locals, result, src, bounds, history>>

(* Fault "launch": ShellExecuteExW fails or gives no process handle.       *)
LaunchFails(p) ==
  /\ pc[p] = "launch"
  /\ "launch" \in Faults
  /\ RemoveTmp(p)
  /\ Finished(p, "failed")
  /\ UNCHANGED <<hosts, backup, writer, bounds>>

(* Faulty: the temporary file goes only after a success.                   *)
FinishRemovesIfOk(p) ==
  /\ pc[p] = "wait"
  /\ hw[p] \in {"ok", "failed"}
  /\ IF hw[p] = "ok" THEN RemoveTmp(p) ELSE tmp' = tmp
  /\ hw' = [hw EXCEPT ![p] = "none"]
  /\ Finished(p, IF hw[p] = "ok" /\ hosts # NoFile THEN "applied" ELSE "failed")
  /\ UNCHANGED <<hosts, backup, src, bounds>>

(* Faulty: the exit code is not looked at.                                 *)
FinishIgnoresExit(p) ==
  /\ pc[p] = "wait"
  /\ hw[p] \in {"ok", "failed"}
  /\ RemoveTmp(p)
  /\ hw' = [hw EXCEPT ![p] = "none"]
  /\ Finished(p, IF hosts # NoFile THEN "applied" ELSE "failed")
  /\ UNCHANGED <<hosts, backup, src, bounds>>

(* Faulty: waits for a success instead of the end of the process.          *)
FinishAfterSuccess(p) ==
  /\ pc[p] = "wait"
  /\ hw[p] = "ok"
  /\ RemoveTmp(p)
  /\ hw' = [hw EXCEPT ![p] = "none"]
  /\ Finished(p, IF hosts # NoFile THEN "applied" ELSE "failed")
  /\ UNCHANGED <<hosts, backup, src, bounds>>

(* Lines 119-147: hostswriter has ended.                                   *)
Finish(p) ==
  /\ pc[p] = "wait"
  /\ hw[p] \in {"ok", "failed"}
  /\ RemoveTmp(p)
  /\ hw' = [hw EXCEPT ![p] = "none"]
  /\ Finished(p, IF hw[p] = "ok" /\ hosts # NoFile THEN "applied" ELSE "failed")
  /\ UNCHANGED <<hosts, backup, src, bounds>>

---------------------------------------------------------------------------
(* hostswriter.exe: one CopyFileW from the temporary file to hosts.        *)

HwOpen(p) ==
  /\ hw[p] = "start"
  /\ tmp # NoFile
  /\ \A q \in Process : ~Copying(q)
  /\ hw' = [hw EXCEPT ![p] = "copy"]
  /\ src' = [src EXCEPT ![p] = tmp]
  /\ hosts' = <<>>
  /\ author' = "hostswriter"
  /\ Touched(p)
  /\ UNCHANGED <<backup, tmp, pc, locals, result, bounds, mixed, original>>

(* The source is gone, the target is taken, or (fault "copy") either of    *)
(* them cannot be opened.                                                  *)
HwOpenFails(p) ==
  /\ hw[p] = "start"
  /\ "copy" \in Faults \/ tmp = NoFile \/ \E q \in Process : Copying(q)
  /\ hw' = [hw EXCEPT ![p] = "failed"]
  /\ UNCHANGED <<files, pc, locals, result, src, bounds, history>>

HwCopyLine(p) ==
  /\ Copying(p)
  /\ Len(hosts) < Len(src[p])
  /\ hosts' = Append(hosts, src[p][Len(hosts) + 1])
  /\ Touched(p)
  /\ UNCHANGED <<backup, tmp, pc, locals, result, writer, bounds, author, mixed, original>>

HwEnds(p, exit) ==
  /\ hw' = [hw EXCEPT ![p] = exit]
  /\ src' = [src EXCEPT ![p] = <<>>]
  /\ UNCHANGED <<files, pc, locals, result, bounds, history>>

HwDone(p) == Copying(p) /\ Len(hosts) = Len(src[p]) /\ HwEnds(p, "ok")

(* Fault "copy": CopyFileW fails on the way.                               *)
HwCopyFails(p) == Copying(p) /\ "copy" \in Faults /\ HwEnds(p, "failed")

---------------------------------------------------------------------------
(* What the program does not control.                                      *)

(* Processes end wherever they are.                                        *)
Terminated(victims) ==
  /\ pc' = [p \in Process |-> IF p \in victims THEN "dead" ELSE pc[p]]
  /\ inside' = [p \in Process |-> IF p \in victims THEN FALSE ELSE inside[p]]
  /\ pos' = [p \in Process |-> IF p \in victims THEN 0 ELSE pos[p]]
  /\ content' = [p \in Process |-> IF p \in victims THEN <<>> ELSE content[p]]
  /\ result' = [p \in Process |-> IF p \in victims THEN "none" ELSE result[p]]
  /\ base' = [p \in Process |-> IF p \in victims THEN NoFile ELSE base[p]]
  /\ UNCHANGED <<domains, author, mixed, original>>

Crash == crashes < MaxCrashes /\ crashes' = crashes + 1

(* The caller is done and its process ends by itself.                      *)
Exit(p) ==
  /\ pc[p] = "idle"
  /\ Terminated({p})
  /\ UNCHANGED <<files, writer, bounds>>

(* One process is killed.  Its hostswriter.exe goes on.                    *)
Kill(p) ==
  /\ pc[p] # "dead"
  /\ Crash
  /\ Terminated({p})
  /\ UNCHANGED <<files, writer, calls, edits>>

(* Power is lost: every process ends, the files stay as they are.          *)
Reboot ==
  /\ Crash
  /\ Terminated(Process)
  /\ hw' = [p \in Process |-> "none"]
  /\ src' = [p \in Process |-> <<>>]
  /\ UNCHANGED <<files, calls, edits>>

(* A new instance, in the place of one that left nothing running.          *)
StartInstance(p) ==
  /\ ~Writing(p)
  /\ Goto(p, "dead", "idle")
  /\ hw' = [hw EXCEPT ![p] = "none"]
  /\ domains' = [domains EXCEPT ![p] = <<>>]
  /\ UNCHANGED <<files, inside, pos, content, result, src, bounds, history>>

(* A user with an editor replaces or deletes the hosts file.               *)
UserEdit(f) ==
  /\ edits < MaxEdits
  /\ edits' = edits + 1
  /\ f # hosts
  /\ \A p \in Process : ~Copying(p)
  /\ f = NoFile => \A p \in Process : ~HoldsHosts(p)
  /\ hosts' = f
  /\ author' = "user"
  /\ base' = [p \in Process |-> NoFile]
  /\ UNCHANGED <<backup, tmp, pc, locals, result, writer, calls, crashes, mixed, original>>

---------------------------------------------------------------------------
(* Everything left to run that belongs to a call of p.                     *)
ProgramStep(p) ==
  \/ CheckBackup(p) \/ BeginBackup(p) \/ CopyBackupLine(p) \/ CopyBackup(p)
  \/ BackupFails(p) \/ SaveCopied(p)
  \/ OpenHosts(p) \/ OpenHostsFails(p) \/ ReadLine(p) \/ BuildContent(p)
  \/ OpenTmp(p) \/ OpenTmpFails(p) \/ WriteTmp(p) \/ CloseTmp(p)
  \/ WriteTmpShort(p) \/ WriteTmpFails(p)
  \/ LaunchWriter(p) \/ LaunchFails(p) \/ Finish(p)

WriterStep(p) ==
  HwOpen(p) \/ HwOpenFails(p) \/ HwCopyLine(p) \/ HwDone(p) \/ HwCopyFails(p)

CallStep(p) ==
  \/ \E ds \in DomainLists : LoadDomains(p, ds)
  \/ ApplyBlock(p) \/ ReapplyBlock(p) \/ BackupHosts(p)

Environment ==
  \/ \E p \in Process : StartInstance(p) \/ Exit(p) \/ Kill(p)
  \/ Reboot
  \/ \E f \in EditFiles : UserEdit(f)

Next ==
  \/ \E p \in Process : CallStep(p) \/ ProgramStep(p) \/ WriterStep(p)
  \/ Environment

Spec == Init /\ [][Next]_vars

(* The thread of a call and its hostswriter are scheduled; nobody promises *)
(* that a user clicks, or that a dead instance is started again.           *)
Fairness ==
  \A p \in Process : WF_vars(ProgramStep(p)) /\ WF_vars(WriterStep(p))

FairSpec == Spec /\ Fairness
---------------------------------------------------------------------------
(* Safety.                                                                 *)

(* Wherever two instances and their helpers are killed, and whoever opens, *)
(* takes or removes the temporary file of the other: a hosts file that     *)
(* hostswriter.exe wrote and isBlocked accepts holds a whole block of a    *)
(* list that is not empty, so that isBlocked need not look between the     *)
(* markers of what the program wrote itself.  The exception is a temporary *)
(* file in which a part of one text was ever laid over another, or over a  *)
(* gap: there both markers can stand without a whole block.                *)
WholeBlock(f) ==
  \E ds \in DomainLists \ {<<>>} : \E i \in 1..Len(f) : BlockAt(f, i, ds)

BlockIntegrity ==
  author = "hostswriter" /\ ~mixed /\ Blocked(hosts) => WholeBlock(hosts)

(* secureWrite: "Always delete the temp file, regardless of success/       *)
(* failure".  Unless a process was killed, the temporary file is gone as   *)
(* soon as no call of any instance is between its opening and its removal, *)
(* although a removal fails while another instance has the file open.      *)
NoTempLeft ==
  (crashes = 0 /\ \A p \in Process : ~HoldsTmp(p) /\ pc[p] \notin {"launch", "wait"})
    => tmp = NoFile

(* One instance: a call of applyBlock that succeeds has replaced the hosts *)
(* file by exactly the lines outside the blocks it found, followed by one  *)
(* block of its list, whatever blocks, ended or not, were there before.    *)
AppliedMeansRewritten ==
  [][\A p \in Process :
       (result[p] # "applied" /\ result'[p] = "applied" /\ base[p] # NoFile)
         => hosts' = Composed(Kept(base[p]), domains[p])]_vars

(* One instance, any crashes, hosts edited by nobody else: at any moment,  *)
(* the middle of a copy included, the hosts file or the backup is the file *)
(* as it was before the program ran.  The exception is a backup that a     *)
(* crash cut short, at any line: applyBlock takes it for a backup and      *)
(* never makes another.                                                    *)
CutShort ==
  backup # NoFile /\ \E n \in 0..(Len(original) - 1) : backup = SubSeq(original, 1, n)

OriginalRecoverable ==
  edits = 0 => \/ hosts = original \/ backup = original
               \/ crashes > 0 /\ CutShort

---------------------------------------------------------------------------
(* What the source says of itself and does not do.                         *)

(* "Atomic write": whenever no copy is under way, a hosts file that        *)
(* hostswriter.exe was the last to write holds the whole new block.        *)
AtomicWrite ==
  (author = "hostswriter" /\ \A p \in Process : ~Copying(p)) => WholeBlock(hosts)

(* "Hosts file updated successfully.", on which the window shows           *)
(* "Blocklist applied successfully": as a call succeeds, the block of the  *)
(* caller's list stands in the hosts file.                                 *)
AppliedMeansBlocked ==
  [][\A p \in Process : (result[p] # "applied" /\ result'[p] = "applied")
        => \E i \in 1..Len(hosts') : BlockAt(hosts', i, domains[p])]_vars

(* "Block integrity verified.": as reapplyBlock leaves the hosts file      *)
(* alone, a whole block stands in it.                                      *)
IntegrityVerified ==
  [][\A p \in Process : (result[p] # "intact" /\ result'[p] = "intact")
        => WholeBlock(hosts')]_vars

---------------------------------------------------------------------------
(* Liveness: a call returns unless its process is killed; in particular    *)
(* the wait without a timeout of secureWrite ends.                         *)
CallReturns ==
  \A p \in Process : pc[p] \notin {"idle", "dead"} ~> pc[p] \in {"idle", "dead"}

---------------------------------------------------------------------------
(* What one instance promises to its caller, as module Enforcement.        *)

EnforcedList(f) ==
  IF f # NoFile /\ WholeBlock(f)
    THEN CHOOSE ds \in DomainLists \ {<<>>} : \E i \in 1..Len(f) : BlockAt(f, i, ds)
    ELSE <<>>

Promise == INSTANCE Enforcement WITH
  enforced <- EnforcedList(hosts),
  goal <- domains,
  busy <- [p \in Process |-> pc[p] \notin {"idle", "dead"} \/ Writing(p)],
  met <- [p \in Process |-> \/ hw[p] = "ok" /\ pc[p] # "dead"
                            \/ Copying(p) /\ hosts = src[p]]

(* Every step of Blocker, with any fault and a crash at any point, is a    *)
(* step of Enforcement or changes nothing there: a call reports success    *)
(* only after the whole of its list stood in the hosts file.               *)
ImplementsEnforcement == Promise!Spec
==========================================================================
