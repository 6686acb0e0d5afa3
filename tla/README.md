# Chicken Jockey: specification, model checking and proofs

Chicken Jockey blocks web sites on Windows by a block of lines in the hosts
file, between two marker lines. This directory holds TLA+ modules of the
program, the TLC configurations that check them on small instances, and
theorems that TLAPS checks for every instance. Source
paths below are relative to the repository (`src/main.cpp`, `src/blocker.cpp`,
...; `PROJECT.json` has the lines of every definition).

## 1. Inventory

| Part | Code | State | Operations |
|---|---|---|---|
| Blocker | `src/blocker.cpp`, `src/blocker.h` | `m_domains`; the hosts file, `hosts_backup.txt`, `hosts.tmp` on disk | `loadDomains`, `backupHosts`, `applyBlock`, `isBlocked`, `reapplyBlock`, `secureWrite` |
| hostswriter | `src/utils/hostswriter.cpp` | none | one `CopyFileW` from `hosts.tmp` to the hosts file in a process of its own |
| Launcher | `src/main.cpp` | the command line | the gate (`isBlocked`), the diagnostic run, the crypto test, stop everything, factory reset |
| Window | `src/gui.cpp` | the edit control, enabled or not | a second gate, import a file, parse the text, confirm and apply, close |
| Watcher | `src/watcher.cpp`, `src/utils/watcher.h` | last write time of the hosts file, id of the peer, number of restarts | check and repair the hosts file, look for the peer, start it again |
| PathUtil | `src/utils/path.cpp` | files | create a directory with retries, write by replacement, read, draw a file name |
| Crypto | `src/utils/crypto.cpp` | one file for each password | draw and store a password, load it, encrypt and decrypt (OpenSSL), draw a file name |
| Build files | `CMakeLists.txt`, `app.manifest` | none | none |

How they interact. The launcher and the window make a `Blocker` for each use;
it keeps nothing but its list. What ties all calls, all instances and all
sessions together is on disk: the hosts file, its backup, and `hosts.tmp`, which
has one fixed name for every instance. `applyBlock` reads the hosts file line by
line, drops the old block, composes the new text, writes it to `hosts.tmp`,
starts `hostswriter.exe` and waits, without a timeout, for it to end. Nothing
keeps two instances apart, and `--stop-everything` and `--factory-reset`
terminate the other instances of `ChickenJockey.exe` but no `hostswriter.exe`.
The launcher and the window call `isBlocked` when they start and refuse to go on
when both markers are there. `Watcher` calls `isBlocked` and `reapplyBlock`, but
nothing calls `Watcher::Run`: `--watchdog`, which it starts its peer with and
which the help text names, is an unknown option to `wmain`. The backup and the
files of the crypto test share the directory `C:\ProgramData\ChickenJockey`, which
only the backup creates and the reset removes. Nothing calls `PathUtil` yet.

What is hard here:

- *interleaving*: two instances, and the hostswriters of both, on three files;
- *crashes*: a kill or a loss of power in the middle of a copy leaves a prefix
  of the new hosts file or of the backup, and the next session works on that;
- *partial failure*: every file operation and the start of the helper can fail,
  and each has its own way out of the call;
- *stale checks*: whether a block stands is asked when an instance starts and
  used until it ends;
- *orphans*: a hostswriter whose parent is gone goes on writing;
- *windows of time*: the watcher looks at the hosts file and takes its write time
  afterwards; `ReadFile` takes the size of a file before it opens it;
- *sequences*: apply, crash, apply again; apply, reset; a diagnostic run, which
  overwrites the backup and leaves its test domains blocked.

What makes each part correct:

- Blocker: a hosts file that the program wrote and takes for blocked holds a
  whole block; the lines of the user are kept, or can be recovered; a call
  reports success only when its list stood in the file; the temporary file goes
  away; every call returns.
- Launcher and window: once a block was reported as applied it stays until a
  reset; the backup never takes in a block; a reset brings the original back.
  What is blocked is what the text lists.
- Watcher: a removed block is noticed; a peer that ended is started again.
- Crypto: a test that passes read its own password back.
- PathUtil: a write replaces a file whole or leaves it as it was, unless the system
  loses it in the replacement; a directory that exists is no error.
- Drawing of names: every character is equally likely.

## 2. Modules

| Module | What it is |
|---|---|
| `HostsText` | the hosts file as a sequence of lines; blocks, markers, what `applyBlock` must keep, said without its loop |
| `Picking` | the elements of a sequence at given places, which `Kept` of `HostsText` is made of |
| `Blocker` | class `Blocker` in every instance, the hostswriter of each, the three files; faults, kills, loss of power, edits |
| `Enforcement` | what the program promises to a caller, without files: the abstract specification of `Blocker` |
| `System` | `wmain`, the diagnostic run, the window, stop and factory reset, over the calls of `Blocker` |
| `Blocklist` | the text of the window, its lines, and the list it gives; what an imported file becomes |
| `Crypto` | `--test-crypto` in every instance, one directory; instantiated by `System` |
| `Watcher` | `Watcher::Run` in processes of its own, beside clients of `Blocker` |
| `PathUtil` | directory, write and read of `path.cpp`, any number of processes on one path |
| `MCBlocker`, `MCSystem`, `MCWatcher`, `MCPathUtil` | values of the constants for TLC |
| `BlockerProof` | theorems about any number of instances of `Blocker` |
| `PickingProof` | lemmas about `Picked` (its elements, the first two of them) and `Kept`: one more line |
| `CallProof` | theorems about a call of `Blocker` that no other instance disturbs; the invariant of such a call |
| `EnforcementProof` | that one instance of `Blocker` implements `Enforcement` |
| `SystemProof`, `WatcherProof`, `PathUtilProof` | theorems about `System`, `Watcher` and `PathUtil` |
| `Names` | the drawing of a character of a file name, and a theorem about it |

### HostsText

Both loops of the code ask of a line only whether it contains a marker, so a
line is a pair: a marker, the comment line `# Managed by ChickenJockey`, the entry
of a domain, a line of the user's, or a gap (the zeros where nobody wrote). A file is a
sequence of lines or `NoFile`. `BlockAt(f, i, ds)` says that the block of list `ds` stands whole at line
`i`. `Kept(f)` is the reference definition of what the reading loop keeps.

### Blocker

`pc[p]` is the next access to a file that the call of instance `p` makes; each
access is one action, because other processes can come in between.

| Code | Actions |
|---|---|
| `loadDomains` | `LoadDomains` (an empty list changes nothing) |
| `applyBlock`, rights and empty list | `ApplyBlock` with `EnterApply` |
| `applyBlock`, backup if there is none | `CheckBackup`, `BeginBackup`, one `CopyBackupLine` per line, `CopyBackup`, `BackupFails` |
| `applyBlock`, reading loop | `OpenHosts`, `OpenHostsFails`, one `ReadLine` per turn |
| `applyBlock`, new text | `BuildContent` |
| `secureWrite` | `OpenTmp`, `WriteTmp` (what fills the stream's buffer), `CloseTmp` (the rest), `LaunchWriter`, `Finish` and the failures `OpenTmpFails`, `WriteTmpFails`, `WriteTmpShort`, `LaunchFails` |
| `hostswriter.exe` | `HwOpen` (takes the source, empties the target), `HwCopyLine`, `HwDone`, `HwOpenFails`, `HwCopyFails` |
| `reapplyBlock` | `ReapplyBlock` |
| `backupHosts` | `BackupHosts`, `CopyBackupLine`, `SaveCopied` |
| outside | `StartInstance`, `Exit`, `Kill`, `Reboot`, `UserEdit` |

`hw[p]` is the hostswriter of `p`; it outlives a kill of `p`. A slot of `Process` is
used again only when its hostswriter has ended; an orphan at work beside a new
instance is two slots. Four variables only observe: `author` (who last
wrote the hosts file), `mixed` (lines of two texts, or of one behind a gap, were ever
together in `hosts.tmp`), `base` (the hosts file as `applyBlock` opened it, as long as
nobody else wrote it) and `original` (the file before the program first ran).
`Faults` says which operations can fail in a run: "admin" (the check of rights),
"backup", "open" (the hosts file), "tmp" (opening `hosts.tmp`), "write" (the stream
throws), "flush" (of what is written as the destructor closes the stream some or all is lost,
which nobody notices), "launch", "copy", and "reset" in `System`.

**Assumptions on Windows.** They are what the code relies on, and are not
checked:

- `CopyFileW` (also below `fs::copy_file`) has its source in one piece, empties its
  target and then extends it line by line. The hosts file is small enough to be read
  in one buffer. While it copies, others can open the target to read and not to write,
  so a second copy to the backup fails. If it fails on the way, what it wrote stays.
- An `ofstream` writes its text in up to two pieces, the first at `<<` (a text over
  one buffer) and the rest when it is closed; the first may be empty or be all. Each
  lies at its place in the file, over what is there (`WriteUpTo`, `Overlay`). One that
  opens `hosts.tmp` while another has it open truncates it, and what the other writes
  next stands behind a gap. Everything is in whole lines.
- A file that any process has open cannot be deleted: the streams and
  `CopyFileW` share no right to delete. `fs::remove` then fails, and the code ignores
  it. `inFile` in `applyBlock` stays open until the call returns, so the hosts file
  cannot be deleted during the read or the wait.
- A process that dies closes its files and does nothing else.
- `isBlocked` reads the file in one step: it is far shorter than a copy, and what it
  could see of a file in the middle of one is what it sees before or after a
  line is added, which are steps.
- A conflict over a file that is not named here shows as one of the `Faults`.

### Enforcement

At most one list is enforced. A call may stop enforcing it (`Drop`), later enforces
its own list (`Enforce`) and reports success only after that (`Succeed`). The
refinement mapping `Promise` in `Blocker` reads `enforced` off the hosts file (the list
of a whole block in it), `busy` off the call and its hostswriter, and `met` off the
progress of the copy. `Doubt` and `Crash` are what is lost when a copy fails after
all, or the caller dies before it hears of the end. It is a promise to one
instance: with two, `applied_twice` shows that it does not hold.

### System

`stage[p]` says where an instance is outside a call of `Blocker`. It goes from
`Launch` (with a set of options; `FirstStage` is the order of the tests in `wmain`)
over `WmainGate` and `WindowGate` to the window, the diagnostic run or the crypto
test, or to stop or reset, which come before the gate.

| Code | Actions |
|---|---|
| `wmain` | `Launch`, `WmainGate` |
| `RunGUI`, `WndProc`, `LoadFileToEditControl` | `WindowGate`, `TypeText`, `ImportFile`, `ClickApply`, `StartApply`, `Answered`, `CloseWindow` |
| `RunDebugMode` | `DebugLoad`, `DebugSave`, `DebugApply`, `DebugReapply`, `DebugEnds` |
| `ConfirmAndStopEverything` | `Decline`, `ConfirmStop`, `Stopped` |
| `PerformFactoryReset` | `Decline`, `ConfirmReset`, `Restore`, `RestoreFails`, `RemoveData` |
| `TestCryptoFunctions` | `TestCryptoFunctions` (a step of module `Crypto`), `TestEnds` |
| steps of calls and helpers | `InCall`, `InWriter` |

`promised` and `overlap` only observe: the domains reported as blocked since the
last reset, and whether two instances were ever at work together. The two
lines a reset writes are written in one step. A window makes a new `Blocker` for each
click, which `ClickApply` shows by loading its list anew. `edit[p]` is the text above
the button; what `ClickApply` loads is `Parsed(edit[p])`. `home` says that the
program's directory exists: a crypto test before the first backup fails, since
nothing else creates it. What is open in the directory survives the reset's
`remove_all`, and so may what comes after it.

### Blocklist

A text is a sequence of tokens: a word for a run of the characters that the
regular expression takes, "#", a blank, the two line ends, and one token for
every other character. Under the first match of
`(0.0.0.0|127.0.0.1)?\s*(name)` a line gives at most one name, and the address is
taken for the name where the match does not begin with it (an indented line) or
no name follows. The text ends with the 0 of its buffer, which is such an other
character. `Meant` and `Listed` say, without the regular expression, what a list
is meant to say; `WellFormed` says for which lines the two agree: those that begin
with a name, an address or a "#", or hold no word, with another character at most at
their end. `MCSystem` has TLC try every line of up to four tokens (`LinesReadAsMeant`);
`CapturedIsMeant` proves it of every line.

### Crypto

`Generate` draws a password and a name; `OpenStore` and `CloseStore` are the two moments
in which the file changes (opened and emptied; filled when the stream is closed);
`OpenLoad` and `ReadLoad` take the size and then the text. `CryptoFaults`: "rand", "store",
"flush" (a store that succeeds with an empty file, because `ofs.good()` is asked
before the buffer is written) and "name" (the name becomes ".dat", in every
process). The ciphertext of a password (48 bytes) fits the stream's buffer, so no
file holds part of one.

### Watcher

`wstage[w]` is the place in the loop of `Run`; each look at the hosts file, at its
write time and at the peer is one action.

| Code | Actions |
|---|---|
| `Run`, `ParseArguments` | `StartWatcher`; every way out is `GiveUp` |
| `GetLastWriteTime`, `IsFileModified` | `Check`, `TakeTime`; `NoTime` when it throws |
| `MonitorHostsFile` | `Verify` (`isBlocked`), `Repair` (`reapplyBlock`), `RepairFailed`, `TakeTime` |
| `MonitorPeerProcess`, `RestartPeer` | `LookForPeer`, `StartPeer`, `NoPeer` |
| around it | `Client` (other instances and every hostswriter), `PeerChanges`, `Surroundings` |

Two abstractions carry it. The write time is only compared, so `modified[w]` says
whether the one kept differs from the file's; every write, and the end of a
`CopyFileW` (which sets the time of the source), makes it so. The peer's id is
only asked for a process, so `peer[w]` says whether one with that id runs: without
a fourth argument the id is any number, and an id may be given to another
process. A restarted peer gets `--watchdog`, which `wmain` refuses, and its id is
not kept, so it is not a process of the model. `missed` only observes. Further
faults: "query" (a process that runs cannot be asked) and "restart".

### PathUtil

`call[p]` has the stage and the locals of the call of process `p`. Each access to a
file is one action, and each piece of a text is written by itself, so two
writers of the one `.tmp` mix. `fs::remove` throws where the file is open; in the
handler of a function that is `noexcept` this ends the process (`Handler`, `aborted`).
`PathFaults`: "open", "create", "busy" (an error that is tried again), "write",
"flush", "replace", "lose" (`ReplaceFileW`, which gets no name for a backup, fails with
the replaced file already gone), "protect" (`fs::permissions` throws). What the caller's vector holds
after a failed read is left out (`src/utils/path.h` says that it is cleared; the early
returns of `ReadFile` leave it as it is).

### Names

One character of `GenerateRandomFilename`, which `crypto.cpp` and `path.cpp` both have.

## 3. Runs

| Run | Instance | Shows |
|---|---|---|
| `blocker_race` | 2 instances, 2 calls, apply and reapply, failing write, flush, launch and copy, 1 crash | `BlockIntegrity`, `NoTempLeft`, `TypeOK` |
| `blocker_one` | 1 instance, 3 calls, clean, blocked, torn and missing hosts file, all faults but those of the backup and the flush, 1 edit or deletion, 2 crashes | `AppliedMeansRewritten`, `OriginalRecoverable`, `ImplementsEnforcement` |
| `blocker_live` | 2 instances, 2 calls of any kind, every fault but the flush, 1 crash, fairness | `CallReturns` |
| `system` | 2 instances in any mode, 4 calls, a typed comment or an imported list of two of the three domains, 2 names for passwords, failing copy, reset, draw, store and flush of a password, 1 crash or edit | `LockedStaysBlocked`, `BackupUnblocked`, `ListedIsBlocked`, `PasswordKept`, `SysTypeOK` |
| `watcher` | 1 watcher, 1 client with 1 call, blocked or clean hosts file, 2 restarts, failing copy, query and restart, 1 crash, 2 edits or deletions, fairness | `NothingSlips`, `TamperingEndsWatch`, `PeerLossAnswered`, `WTypeOK` |
| `path_util` | 2 processes, 4 calls, texts of one and three pieces, file there or not, all faults but "flush", 1 kill | `ReadsOneVersion`, `AnswersTruly`, `TempGone`, `PathTypeOK` |
| `atomic_write` | 1 instance, loss of power | violated: see below |
| `applied_twice` | 2 instances, 1 call each, no fault | violated: see below |
| `integrity_verified` | 2 instances, 3 calls, no fault | violated: see below |
| `locked_once` | 2 windows, 1 call each, no fault | violated: see below |
| `reset_restores` | 1 instance, apply and reset, no fault | violated: see below |
| `auto_repair` | 1 watcher, 1 edit, no fault, fairness | violated: see below |

What holds:

- `BlockIntegrity`: a hosts file that hostswriter wrote and `isBlocked` accepts holds a
  whole block of a list that is not empty, wherever instances and helpers are killed,
  and whoever truncates, takes or removes the `hosts.tmp` of another. The reason is
  that the end marker is the last line of everything the program writes, and that
  `isBlocked` wants it. The exception, stated in it, is `mixed`: once a part of one
  text was laid over another or over a gap, both markers can stand without a whole
  block, as `integrity_verified` shows.
- `NoTempLeft`: without a kill, `hosts.tmp` is gone when no call is between its opening
  and its removal, although a removal fails silently while another instance
  has the file open.
- `AppliedMeansRewritten`: a success replaced the file by exactly the lines outside
  all old blocks, and one new block; also where a block has no end or an end no
  start.
- `OriginalRecoverable`: the hosts file or the backup is the file as it was before the
  program ran, at every moment of every history of crashes; the exception, stated
  in it, is a backup that a crash cut short at any line (`CutShort`: any strict prefix
  of the original), which the code takes for good.
- `ImplementsEnforcement`: the refinement above.
- `CallReturns`: each call returns, so the wait without a timeout ends.
- `LockedStaysBlocked`: where no two instances were ever at work together, what was
  reported as applied stays blocked, at every moment, until a reset or an edit.
- `BackupUnblocked`: likewise the backup never takes in a block. It needs the first
  backup to have been made: with the fault of the backup, a window whose
  call failed after the whole copy was made backs up a blocked file at the next
  click, for only the start of the program looks.
- `ListedIsBlocked`: as a call of the window succeeds, the domains in the hosts file are
  exactly those the text lists, although a comment, an address, an empty line
  and the other line end stand between them, and a domain that only the comments name
  is not blocked. It takes two things for granted, which
  `System` states and `MCSystem` assumes, so that TLC evaluates them: `FilesManaged`, that the files the
  program starts from have entries only in blocks, and `TextsMeant`, that the lines
  of the texts are well formed. The assumption speaks of the texts alone, not of
  what `Parsed` makes of them.
- `PasswordKept`: a crypto test that passes read its own password, also where a store
  "succeeded" with an empty file, a second test stores under its own name at the same
  time, or a reset removes the files; the exception is a failed draw of the name.
- `NothingSlips`: a watcher that sees no change stands before a file with a block,
  unless the file was written between its look and its taking of the write
  time, or had no block when it started. `TamperingEndsWatch`: outside that, a removed
  block comes back or the watcher ends.
- `PeerLossAnswered`: a peer that ended is started again, until the count is used up,
  unless its id was given to another process.
- `ReadsOneVersion`, `AnswersTruly`: with one writer at a time, a reader gets one
  version, or as much of it as the version before was long; true means written
  and false untouched, except where `fs::permissions` threw behind the
  replacement or `ReplaceFileW` lost the old file. The first write of a path always fails, for there is nothing to
  replace.
- `TempGone`: without a kill or an end by an exception the `.tmp` goes, whatever two
  writers do to it.

What the source says and does not do (`findings` in `PROJECT.json` quotes it):

- `atomic_write`: the "Atomic write" of `applyBlock` is a copy over the file, and a
  crash leaves it torn.
- `applied_twice`: with two instances a call reports success although its block is not
  in the hosts file.
- `integrity_verified`: "Block integrity verified." is printed for two markers without
  a whole block: one instance truncates `hosts.tmp` between the two writes of the other.
- `locked_once`: "Once applied, blocks cannot be removed through this UI": the call of
  a second window that was open before reads the block that the first has reported as
  applied, and puts its own list in its place.
- `reset_restores`: "This will restore the original hosts file": the reset looks for
  `hosts.bak`, which nothing writes, and deletes `hosts_backup.txt`.
- `auto_repair`: "Background watchdog services auto-repair any tampering": the watcher's
  `Blocker` never gets a list, so its repair fails and the watcher ends.

**Bounds.** They bound what happens from outside, never what a call does: the
number of calls, of edits, of crashes (`MaxCalls`, `MaxEdits`, `MaxCrashes`).
Two calls of two instances give every way for two calls to overlap; a third
instance adds only one more writer of the same kind, and the integrity theorem
holds for any number, as it does for edits, which `blocker_race` leaves out. Three calls
with two crashes give apply, cut short, apply again, cut short again, apply. Two lists, a short one and a longer
one that does not begin with it, tell apart which list is in a file and make one
text longer than the other under `Overlay`. The initial files are clean, blocked
with a line of the user's behind the block, torn (start marker without an end), and
missing. In `system` a constraint keeps histories in which two instances were at
work together to one call: its properties of calls say nothing of those, and
`overlap` never becomes false again; and histories with a crypto test or a stored
password to a hosts file without a block, no edit and one call, which has not come to
that file, as no call looks at passwords. It also has a crash or an edit, not both:
the theorems have any number of each. Two drawn
names let one test store while another holds its name. The runs of `MCSystem` and
`path_util` do not check for deadlock, as the bounds on calls stop a process before
its next call; all others do. `SYMMETRY` swaps the instances, and in
`system` the drawn names, in runs without liveness. In `watcher` one watcher is enough: watchers
write nothing and cannot tell the peer from any other process, so two do
not see each other, and `NothingSlips` is proved for any number. Its "open" fault is left
out: looks that fail for ever would use up `MaxCalls` in `reapplyBlock`. Two
restarts stand for the five of the source. The loss of buffered text ("flush") is in
`blocker_race` and, for passwords, in `system`. It is left out of `blocker_one`,
`system` (for `hosts.tmp`) and `path_util`: nothing in the code notices it, and what
these runs show does not survive it; and of `blocker_live`, as it steers no call.

**Fairness.** `FairSpec` has weak fairness of `ProgramStep(p)` and of `WriterStep(p)`: the
thread of a call and its hostswriter are scheduled by the system. A hostswriter
always has a step: if it cannot open a file it ends with an error. It does not
wait for a prompt, as the program that starts it already has the rights. Nothing is
assumed of clicks, starts, kills or edits. `WFairSpec` has weak fairness of a watcher's
steps, for it has a thread of its own and sleeps a bounded time, and strong fairness
of `StartPeer`: `CreateProcessW` may fail in a round, not in all. The
counterexample of `auto_repair` needs the first only.

**Mutants.** Each checked property has a faulty variant of a mapped definition,
beside it and marked "Faulty", such as a missing check of the empty list or an exit
code nobody looks at; put in place of the original it violates the property.

## 4. Proofs

Every invariant and every action property that a passing run checks is proved, and so is
the refinement. The theorems hold for every set of processes, lists, files, texts and
edits, every bound, and, where the third column names nothing, every set of faults:

| Theorem | Statement | Only if |
|---|---|---|
| `TypeCorrect` | `Spec => []TypeOK` | |
| `IntegrityHolds` | `Spec => []BlockIntegrity` | |
| `NoTempLeftHolds` | `Spec => []NoTempLeft` | |
| `RewrittenHolds` | `Spec => AppliedMeansRewritten` | one instance, no "flush" |
| `OriginalHolds` | `Spec => []OriginalRecoverable` | one instance, no "backup" |
| `ImplementationHolds` | `Spec => ImplementsEnforcement` | one instance, no "flush" |
| `SysTypeHolds` | `SysSpec => []SysTypeOK` | |
| `PasswordHolds` | `SysSpec => []PasswordKept` | |
| `ProgramKeepsIntegrity` | `SysSpec => []BlockIntegrity` | |
| `LockedHolds` | `SysSpec => []LockedStaysBlocked` | no "open", no "flush" |
| `BackupHolds` | `SysSpec => []BackupUnblocked` | no "open", no "backup" |
| `ListedHolds` | `SysSpec => []ListedIsBlocked` | no "flush"; `FilesManaged`, `TextsMeant` |
| `ParsedIsListed` | a text with well-formed lines is read as the list it is meant to say | |
| `WatchersImplementBlocker` | `WSpec => Spec` | |
| `WatchersKeepIntegrity` | `WSpec => []BlockIntegrity` | |
| `WatchersLeaveNoTemp` | `WSpec => []NoTempLeft` | |
| `WatcherTypeCorrect` | `WSpec => []WTypeOK` | |
| `NothingSlipsHolds` | `WSpec => []NothingSlips` | |
| `PathTypeHolds` | `PathSpec => []PathTypeOK` | |
| `TempGoneHolds` | `PathSpec => []TempGone` | |
| `ReadsHolds` | `PathSpec => ReadsOneVersion` | no "flush" |
| `AnswersHolds` | `PathSpec => AnswersTruly` | no "flush" |
| `Unbiased` | each of the 62 characters is given by four of the accepted bytes | |

**Hypotheses.** Otherwise the theorems use the assumptions of the modules: the lists are
sequences of domains, the files are files, `NoFile` is no sequence, the bounds
are natural numbers, watchers are processes. The conditions of the third column
are each needed, because the code does not notice what they exclude. "flush": a
text that was cut short is copied as if it were whole, and the call succeeds. For
integrity this does not matter until texts mix: what was cut short has no end marker. "backup" (of which
`backupHosts` in `Operations` counts as one for `OriginalHolds`, since it overwrites the
backup): a copy to the backup that fails is gone over in silence. "open": if `isBlocked` cannot open the file the
program takes it for unblocked and goes on. One instance: `applied_twice` shows
what two do to each other's call. The theorems of `System` allow any number of
instances and say in the property that no two were at work together. The runs
of these properties satisfy the hypotheses.

**Blocker.** `TypeOK` is not inductive: a step that reads line `pos[p]` of the hosts file
needs the file to be there. `Held` adds what the sharing rules give: a file that a
process or a hostswriter has open exists, and a reader starts at line 1.
`TypeInv == TypeOK /\ Held` is.

`BlockIntegrity` speaks of the hosts file, and what is in it was in `src` of a
hostswriter, before that in `tmp`, before that in `content` of a call. `IntegrityInv`
says of each what the next needs: `content` while it is read has no marker;
`content` once composed, `tmp`, `src` and a hosts file of hostswriter's are `Sealed`: a place
with an end marker has a whole block before it. `Sealed` is
kept by taking a prefix (`PrefixSealed`: a copy cut short, or under way, or a piece that a
stream writes) and by laying a whole sealed text over another (`LaidOverSealed`: two
instances in one temporary file); so a write in pieces keeps it or sets `mixed`
(`WriteUpToSealed`); composing makes it (`ComposedSealed`). `IntegrityInv` claims this
until `mixed`. A hosts file under copy is a prefix of `src` (`CopyInv`).
So a file with an end marker has a whole block, which is the theorem. A
list that is not empty comes from the check in `EnterApply`.

`NoTempLeft` speaks of moments without a call; `TempInv` says of every moment that where
`hosts.tmp` is, some call is at a step before its removal, and that a hostswriter at work
has a call that waits for it. A removal that fails because another has the
file open leaves it to that other.

**One call.** `CallInv(p)` follows the text of a call that nobody disturbs: `content`, then
`tmp`, then `src`, then a growing prefix in the hosts file, each of which is the text
composed for the list (`IsText`: no marker, then one block). `BaseInv` ties it to the file
that was read: behind line `pos - 1`, `content` is `Kept` of the lines so far and `inside`
says that a block is open in them. `tmp` is the first `pos` lines of `content` while the
stream is open (`WriteGoesOn`). That one turn of the loop keeps this is `OneMoreLine`
in `PickingProof`: so the loop, with its flag, computes the reference definition, which speaks of
places and knows no flag. `OriginalInv` says what the backup is at each step of the call
that makes it: absent, a prefix of the original during its copy or after a crash in it,
or the original.

`EnforcementProof` maps each access to a file to the step of `Enforcement` it is: emptying the
file to `Drop`, the last line of the copy to `Enforce`, `Finish` to `Succeed`, a copy that fails
after all to `Doubt`, an edit to `Tamper`, a kill to `Crash`; loading, entering and other
returns to `Load`, `Begin` and `ReturnOther`, all else to a stutter. The crucial fact is `NoEndYet`: a strict prefix
of a text holds no block, so `enforced` changes at the last line only.

**System.** `BlockerView` says what a step of the program is to Blocker: a step of its own, or
the end of all others, the writing of the reset or its removal of the directory. `ProgramKeepsIntegrity` needs
`IntegrityInv` to come through these three, with any number of instances at work together.

`SoloInv` brings what `CallProof` says of one instance to any number of them: until `overlap`, at
most one has a call or a hostswriter, so `CallInv` holds of each (`SoloStep`, for
a step of an instance that is then alone). On that rest three chains. `LockInv`: from a
success on nobody is at work, nor in a stage (`Opening`) from which a call is
entered without a look at the file; whoever starts later stands before a gate, and
the gate finds both markers. `BackupInv`: a file with a block has a backup beside it, and only the start
of the program, behind the gate, makes a new one over it, line by line: a prefix of a file
without a block has none (`CopiedUnblocked`). `EntryInv`: every entry in any file or
text stands in a block, so `Kept` drops the old ones, and with `ListInv` what stands in the
new file is the list that was loaded. That this is the list of the text is `ParsedIsListed`: the
match of the regular expression depends on the first two words of a line only, and so does
what the line is meant to say. `CapturedIsMeant` shows that a well-formed line begins with
its first word, or adds nothing to the list, and that the name after an address is the second word,
since nothing but blanks is between the two; `LinesType` that no line has an end of line in
it; `PickedFirst` ties the words of a line to their places. `PasswordKept` needs `PassInv`: a drawn name belongs to one
test only, so its file is absent, empty or holds that test's text.

**Watcher.** `WatchersImplementBlocker` maps every step of `Watcher` to one of `Blocker` or to a stutter
(`StepSimulation`), so that the theorems about `Blocker` hold beside watchers. `WTypeOK`
needs that a watcher has no list and so never goes beyond the entry of
`applyBlock`: `CallLocal` says that no other process's call touches its `pc` and
`domains`. `NothingSlips` is not inductive: a watcher between its look and its taking of
the time has not reset `modified` yet. `SlipInv` adds that at "stamp" the file has a
block unless it was written since (`missed`), and that whatever changes the hosts
file sets `modified` everywhere.

**PathUtil.** `PathTypeOK` needs `OpenInv`: the temporary file is there while anyone writes it, the file
while anyone reads it, for Windows neither removes nor replaces what is open.
`TempGone` needs `HolderInv`: where the temporary file is, somebody is in a stage that
leads to its replacement or removal. The two action properties need `VersionInv`, for one writer:
what `Writing(p)` has done by each stage, that the temporary file holds the pieces
written so far (`PutNext`), and that a size taken is that of a version; and `AnswerInv`,
that a call has no answer before it is over. Where the old file is lost, the answer is
false and there is no file (`AnswersHolds`).

**Names.** `Unbiased` follows from `FourBytes`: the accepted bytes that give character `c` are
`c`, `c + 62`, `c + 124` and `c + 186`.

**Only model-checked.** `CallReturns`, `TamperingEndsWatch` and `PeerLossAnswered`: liveness under
fairness and `ENABLED` are out of the prover's reach. That a text satisfies `TextsMeant`
is an assumption, which TLC evaluates for the texts of a run. No module declares a
`RECURSIVE` operator.

## 5. Plan

All modules of section 2 are written, and every safety property of a run is proved. What
could come next: `NoTempLeft` and `AppliedMeansRewritten` in `System`, the first until a stop or reset
ends a call, the second until an overlap; a property for the hazards
that have none in `PROJECT.json`, above all the hostswriter that a factory reset leaves at work.

## 6. Not modelled

Logging and message boxes (but for the answers that decide something), the
drawing of the window, the access rights that the reset and the backup set, the
encryption itself (OpenSSL's), the path check of `GetObscureFilePath` (no state), the
file the diagnostic run writes beside the hosts file, `AddStartupEntry` (never called),
`loadDomainsFromFile` (declared, never defined), the build files. `Watcher::Run` and
`PathUtil` have no caller in the repository: they are modelled as they would run.
`PROJECT.json` lists every part with what is left out of it, and under `hazards` what in
this code a test hardly reaches, with the property that covers it or the reason why
none does.
