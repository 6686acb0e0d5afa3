------------------------------ MODULE System -----------------------------
(***************************************************************************)
(* The program as a whole: what wmain (src/src/main.cpp), the diagnostic   *)
(* run and the window (src/src/gui.cpp) make of class Blocker.  stage[p]   *)
(* says where instance p is outside the calls of Blocker, whose steps are  *)
(* those of module Blocker; pc[p] is "idle" between two calls.             *)
(* Module Blocklist gives the text of the window its meaning, and module   *)
(* Crypto the steps of --test-crypto.                                      *)
(*                                                                         *)
(* Left out because they change nothing here: --help, unknown options      *)
(* (--watchdog is one), a start without administrator rights, the write of *)
(* debug_test.txt at the end of a diagnostic run, which has files of its   *)
(* own, and an exception in its system checks, before it has done anything.*)
(***************************************************************************)
EXTENDS Blocker, Blocklist

CONSTANTS
  CommandLines,   \* the sets of options an instance is started with
  DebugList,      \* testDomains of RunDebugMode
  DefaultHosts,   \* what a factory reset writes
  StrayBackup,    \* what hosts.bak holds; the program never writes it
  Typed,          \* the texts a user types
  ListFiles,      \* the files a user imports
  Drawn, Fixed, NoText, Empty, CryptoFaults   \* see module Crypto

ASSUME CommandLinesAssumption ==
  CommandLines \subseteq SUBSET {"gui", "debug", "test", "stop", "reset"}
ASSUME ResetAssumption == DefaultHosts \in Seq(Line) /\ StrayBackup \in File
ASSUME DebugAssumption == DebugList \in DomainLists \ {<<>>}
ASSUME TextAssumption ==
  /\ Typed \subseteq Seq(Token) /\ ListFiles \subseteq Seq(Token)
  /\ \A text \in Typed \cup {Normalized(file) : file \in ListFiles} \cup {<<>>} :
       text \in Seq(Token) /\ Parsed(text) \in DomainLists \cup {<<>>}

VARIABLES
  stage,     \* where each instance is
  edit,      \* the text in the window of each
  store, test,  \* see module Crypto
  home,      \* the program's directory under ProgramData is there
  \* Observed only:
  promised,  \* the domains of the lists whose block was reported as applied,
             \* since the last reset
  overlap    \* an instance was started while another one, or what it left
             \* running, was at work

observed == <<promised, overlap>>
passwords == <<store, test>>
beside == <<edit, passwords, home, observed>>
sysvars == <<vars, stage, beside>>

Test == INSTANCE Crypto WITH Tester <- Process, phase <- stage

Typings == Typed \cup {Normalized(file) : file \in ListFiles}

Stages == {"off", "gate_window", "gate_debug", "window_gate", "window",
           "apply", "applying", "debug", "debug_save", "debug_saving",
           "debug_applying", "debug_reapplying",
           "stop", "stopped", "reset", "restore", "remove", "gate_test"}
  \cup Test!Phases

SysInit ==
  /\ Init
  /\ stage = [p \in Process |-> "off"]
  /\ edit = [p \in Process |-> <<>>]
  /\ Test!StoreInit
  /\ home = (StrayBackup # NoFile)
  /\ promised = {} /\ overlap = FALSE

At(p, from, to) == stage[p] = from /\ stage' = [stage EXCEPT ![p] = to]

Alive(p) == pc[p] # "dead"

(* What processes that end had in their memory.                            *)
Closed(victims) ==
  /\ edit' = [p \in Process |-> IF p \in victims THEN <<>> ELSE edit[p]]
  /\ Test!Forgotten(victims)
  /\ UNCHANGED <<store, home>>

---------------------------------------------------------------------------
(* wmain                                                                   *)

(* Lines 326-367: the first of these that applies; no option is the window. *)
FirstStage(options) ==
  IF "stop" \in options THEN "stop"
  ELSE IF "reset" \in options THEN "reset"
  ELSE IF "gui" \in options \/ options = {} THEN "gate_window"
  ELSE IF "debug" \in options THEN "gate_debug"
  ELSE "gate_test"

Launch(p, options) ==
  /\ At(p, "off", FirstStage(options))
  /\ StartInstance(p)
  /\ overlap' = (overlap \/ \E q \in Process \ {p} : Alive(q) \/ Writing(q))
  /\ UNCHANGED <<edit, passwords, home, promised>>

(* The process of p ends by itself.                                        *)
Leave(p) ==
  /\ stage' = [stage EXCEPT ![p] = "off"]
  /\ Exit(p)
  /\ Closed({p})
  /\ UNCHANGED observed

(* Faulty: the gate of line 340 lets everybody in.                         *)
GateOpen(p, from, to) == At(p, from, to) /\ UNCHANGED <<vars, beside>>

(* An instance that finds a block refuses to go on.                        *)
Gate(p, from, to) ==
  \E blocked \in IsBlocked :
    IF blocked
      THEN stage[p] = from /\ Leave(p)
      ELSE At(p, from, to) /\ UNCHANGED <<vars, beside>>

WmainGate(p) ==
  \/ Gate(p, "gate_window", "window_gate") \/ Gate(p, "gate_debug", "debug")
  \/ Gate(p, "gate_test", "test")

---------------------------------------------------------------------------
(* The window.                                                             *)

(* RunGUI looks again before it shows the window.                          *)
WindowGate(p) == Gate(p, "window_gate", "window")

CloseWindow(p) == stage[p] = "window" /\ Leave(p)

SetText(p, text) ==
  /\ stage[p] = "window"
  /\ edit' = [edit EXCEPT ![p] = text]
  /\ UNCHANGED <<vars, stage, passwords, home, observed>>

TypeText(p) == \E text \in Typed : SetText(p, text)

(* LoadFileToEditControl; one that fails leaves the text as it is.         *)
ImportFile(p) == \E file \in ListFiles : SetText(p, Normalized(file))

(* The user confirms.  A text that gives no list is refused by             *)
(* loadDomains, and nothing changes.                                       *)
ClickApply(p) ==
  /\ At(p, "window", "apply")
  /\ LoadDomains(p, Parsed(edit[p]))
  /\ UNCHANGED beside

(* Faulty: applyBlock runs behind the window, which stays usable.          *)
StartApplyBehind(p) ==
  At(p, "apply", "window") /\ ApplyBlock(p) /\ UNCHANGED beside

StartApply(p) == At(p, "apply", "applying") /\ ApplyBlock(p) /\ UNCHANGED beside

(* Faulty: after a success the window stays open.                          *)
AnsweredStays(p) ==
  /\ pc[p] = "idle"
  /\ At(p, "applying", "window")
  /\ UNCHANGED <<vars, beside>>

(* Success closes the window; after a failure the user may try again.      *)
Answered(p) ==
  /\ pc[p] = "idle"
  /\ \/ stage[p] = "applying" /\ result[p] = "applied" /\ Leave(p)
     \/ /\ result[p] # "applied"
        /\ At(p, "applying", "window")
        /\ UNCHANGED <<vars, beside>>

---------------------------------------------------------------------------
(* RunDebugMode: a real backup, a real block of the test domains, and one  *)
(* call of reapplyBlock, each only if the one before succeeded.            *)

DebugLoad(p) ==
  At(p, "debug", "debug_save") /\ LoadDomains(p, DebugList) /\ UNCHANGED beside

(* create_directories, before a copy to the backup.                        *)
HomeMade ==
  home' = TRUE \/ ("backup" \in Faults /\ backup' = NoFile /\ UNCHANGED home)

DebugSave(p) ==
  /\ At(p, "debug_save", "debug_saving")
  /\ BackupHosts(p)
  /\ HomeMade
  /\ UNCHANGED <<edit, passwords, observed>>

DebugApply(p) ==
  /\ At(p, "debug_saving", "debug_applying")
  /\ result[p] = "saved"
  /\ ApplyBlock(p)
  /\ UNCHANGED beside

DebugReapply(p) ==
  /\ At(p, "debug_applying", "debug_reapplying")
  /\ result[p] = "applied"
  /\ ReapplyBlock(p)
  /\ UNCHANGED beside

DebugEnds(p) ==
  /\ pc[p] = "idle"
  /\ \/ stage[p] = "debug_saving" /\ result[p] # "saved"
     \/ stage[p] = "debug_applying" /\ result[p] # "applied"
     \/ stage[p] = "debug_reapplying"
  /\ Leave(p)

---------------------------------------------------------------------------
(* --stop-everything and --factory-reset                                   *)

(* wmic terminates every other process named ChickenJockey.exe, and so no  *)
(* hostswriter.exe.                                                        *)
TerminateOthers(p, from, to) ==
  /\ stage[p] = from
  /\ Terminated(Process \ {p})
  /\ stage' = [q \in Process |-> IF q = p THEN to ELSE "off"]
  /\ Closed(Process \ {p})
  /\ UNCHANGED <<files, writer, bounds, observed>>

Decline(p) == stage[p] \in {"stop", "reset"} /\ Leave(p)

ConfirmStop(p) == TerminateOthers(p, "stop", "stopped")

Stopped(p) == stage[p] = "stopped" /\ Leave(p)

ConfirmReset(p) == TerminateOthers(p, "reset", "restore")

(* Restores from hosts.bak if there is one, otherwise writes the default.  *)
(* Fault "reset": a file cannot be opened; so while hostswriter copies.    *)
Restore(p) ==
  /\ ~\E q \in Process : Copying(q)
  /\ At(p, "restore", "remove")
  /\ \/ StrayBackup # NoFile /\ hosts' = StrayBackup
     \/ (StrayBackup = NoFile \/ "reset" \in Faults) /\ hosts' = DefaultHosts
  /\ author' = "reset"
  /\ base' = [q \in Process |-> NoFile]
  /\ promised' = {}
  /\ UNCHANGED <<backup, tmp, pc, locals, result, writer, bounds, mixed, original,
                 edit, passwords, home, overlap>>

RestoreFails(p) ==
  /\ stage[p] = "restore"
  /\ "reset" \in Faults \/ \E q \in Process : Copying(q)
  /\ Leave(p)

(* remove_all of the program's directory; what is in use stays, unnoticed, *)
(* and whatever else was not removed before that.                          *)
BackupHeld == \E q \in Process : HoldsBackup(q)

RemoveData(p) ==
  /\ At(p, "remove", "off")
  /\ Terminated({p})
  /\ LET held == BackupHeld \/ Test!Held # {} IN
       /\ \E kept \in SUBSET Test!FileName :
            Test!Held \subseteq kept /\ (~held => kept = {}) /\ Test!RemovedBut(kept)
       /\ \/ backup' = NoFile /\ ~BackupHeld
          \/ UNCHANGED backup /\ held
       /\ home' = held
  /\ UNCHANGED <<hosts, tmp, writer, bounds, edit, test, observed>>

---------------------------------------------------------------------------
(* --test-crypto                                                           *)

TestCryptoFunctions(p) ==
  Test!TestStep(p, home) /\ UNCHANGED <<vars, edit, home, observed>>

TestEnds(p) == stage[p] \in {"passed", "failed"} /\ Leave(p)

---------------------------------------------------------------------------
(* A call of Blocker goes on.                                              *)
Domains(ds) == {ds[i] : i \in DOMAIN ds}

InCall(p) ==
  /\ ProgramStep(p)
  /\ promised' = IF result[p] # "applied" /\ result'[p] = "applied"
                    THEN promised \cup Domains(domains[p])
                    ELSE promised
  /\ IF pc[p] = "backup_begin" THEN HomeMade ELSE UNCHANGED home
  /\ UNCHANGED <<stage, edit, passwords, overlap>>

InWriter(p) == WriterStep(p) /\ UNCHANGED <<stage, beside>>

Instance(p) ==
  \/ \E options \in CommandLines : Launch(p, options)
  \/ WmainGate(p) \/ WindowGate(p) \/ CloseWindow(p)
  \/ TypeText(p) \/ ImportFile(p) \/ ClickApply(p) \/ StartApply(p) \/ Answered(p)
  \/ DebugLoad(p) \/ DebugSave(p) \/ DebugApply(p) \/ DebugReapply(p) \/ DebugEnds(p)
  \/ Decline(p) \/ ConfirmStop(p) \/ Stopped(p)
  \/ ConfirmReset(p) \/ Restore(p) \/ RestoreFails(p) \/ RemoveData(p)
  \/ TestCryptoFunctions(p) \/ TestEnds(p)
  \/ InCall(p) \/ InWriter(p)

World ==
  \/ \E p \in Process :
       Kill(p) /\ stage' = [stage EXCEPT ![p] = "off"] /\ Closed({p}) /\ UNCHANGED observed
  \/ Reboot /\ stage' = [p \in Process |-> "off"] /\ Closed(Process) /\ UNCHANGED observed
  \/ \E f \in EditFiles : UserEdit(f) /\ UNCHANGED <<stage, beside>>

SysNext == World \/ \E p \in Process : Instance(p)

SysSpec == SysInit /\ [][SysNext]_sysvars
---------------------------------------------------------------------------
(* Safety.                                                                 *)

(* The stages have their type, and an instance is in a call of Blocker     *)
(* only in the stages that wait for one: every call is made on the one     *)
(* thread of the instance, so the window takes no click meanwhile.         *)
SysTypeOK ==
  /\ TypeOK
  /\ stage \in [Process -> Stages]
  /\ promised \subseteq Domain
  /\ overlap \in BOOLEAN
  /\ edit \in [Process -> Typings \cup {<<>>}]
  /\ Test!StoreTypeOK
  /\ backup # NoFile => home
  /\ \A p \in Process :
       /\ stage[p] = "off" <=> pc[p] = "dead"
       /\ pc[p] \notin {"idle", "dead"} =>
            stage[p] \in {"applying", "debug_saving", "debug_applying", "debug_reapplying"}

Enforced(d) == hosts # NoFile /\ Has(hosts, Entry(d))

(* "... has already applied website blocks and is now locked": if no two   *)
(* instances were ever at work together, and until a reset or an edit by   *)
(* the user, what was once reported as applied stays in a block that       *)
(* isBlocked accepts, at every moment, through any crash, restart, stop    *)
(* and further start of any mode.                                          *)
LockedStaysBlocked ==
  (promised # {} /\ ~overlap /\ edits = 0)
    => Blocked(hosts) /\ \A d \in promised : Enforced(d)

(* The backup is a hosts file without a block.  backupHosts copies without *)
(* a look, over whatever backup there is, and applyBlock wherever there is *)
(* none; what keeps the block out is that isBlocked stands before the one  *)
(* and that a window whose first call failed late still has the backup of  *)
(* that call (so not where the backup itself failed: fault "backup").      *)
BackupUnblocked == (~overlap /\ edits = 0) => ~Blocked(backup)

(* What the button does with the text above it: if no two instances were   *)
(* ever at work together, and until an edit by the user, as a call of the  *)
(* window has succeeded the domains blocked are those that the text lists, *)
(* whether it was typed or imported, and whatever was blocked before.      *)
ListedIsBlocked ==
  \A p \in Process :
    (stage[p] = "applying" /\ pc[p] = "idle" /\ result[p] = "applied" /\ ~overlap /\ edits = 0)
      => {d \in Domain : Enforced(d)} = Listed(edit[p])

(* It takes that for granted: nobody but the program has put entries into  *)
(* the files it starts from, and the lines of every text are well formed   *)
(* (module Blocklist).                                                     *)
EntriesInBlocks(f) ==
  f # NoFile => \A i \in 1..Len(f), d \in Domain : f[i] = Entry(d) => ~Outside(f, i)

FilesManaged == \A f \in InitialFiles \cup {DefaultHosts, StrayBackup} : EntriesInBlocks(f)

TextsMeant ==
  \A text \in Typings \cup {<<>>} : LET lines == Lines(text) IN
    \A k \in 1..Len(lines) : WellFormed(lines[k])

(* "All operations completed successfully": see module Crypto.             *)
PasswordKept == Test!PassedMeansStored

---------------------------------------------------------------------------
(* What the source says of itself and does not do.                         *)

(* "Once applied, blocks cannot be removed through this UI": where a call  *)
(* read the hosts file as it still is, the block that hostswriter puts in  *)
(* its place for it has every domain that was blocked there and had been   *)
(* reported as blocked.                                                    *)
LockedOnceApplied ==
  [][\A p \in Process :
       (~Copying(p) /\ Copying(p)' /\ base[p] # NoFile /\ Blocked(src'[p]))
         => \A d \in promised : Has(base[p], Entry(d)) => Has(src'[p], Entry(d))]_sysvars

(* "This will restore the original hosts file": where the backup is the    *)
(* hosts file as it was, the reset brings the lines of the user back.      *)
ResetRestores ==
  [][(author # "reset" /\ author' = "reset" /\ backup = original)
       => UserLines(hosts') = UserLines(original)]_sysvars
==========================================================================
