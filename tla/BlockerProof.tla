--------------------------- MODULE BlockerProof --------------------------
(***************************************************************************)
(* Theorems about Blocker, for every number of processes, every set of     *)
(* block lists, initial files, edits and faults, and every bound.          *)
(***************************************************************************)
EXTENDS Blocker, TLAPS

(* What makes the type invariant inductive: a file a process or its        *)
(* hostswriter has open exists, inFile is read from its first line, and    *)
(* ofs stands in the text that goes through it.                            *)
Held ==
  \A p \in Process :
    /\ HoldsHosts(p) \/ Copying(p) => hosts # NoFile
    /\ HoldsBackup(p) => backup # NoFile
    /\ HoldsTmp(p) => tmp # NoFile /\ pos[p] <= Len(content[p])
    /\ pc[p] = "write" => pos[p] = 0
    /\ pc[p] = "read" => pos[p] # 0

TypeInv == TypeOK /\ Held

LEMMA LineMembers ==
  /\ Start \in Line /\ End \in Line /\ Managed \in Line /\ Gap \in Line
  /\ \A d \in Domain : Entry(d) \in Line
  BY DEF Line, Marker

LEMMA ComposedType ==
  ASSUME NEW kept \in Seq(Line), NEW ds \in Seq(Domain)
  PROVE  /\ Composed(kept, ds) \in Seq(Line)
         /\ Len(Composed(kept, ds)) = Len(kept) + Len(ds) + 3
         /\ \A k \in 1..Len(kept) : Composed(kept, ds)[k] = kept[k]
         /\ Composed(kept, ds)[Len(kept) + 1] = Managed
         /\ Composed(kept, ds)[Len(kept) + 2] = Start
         /\ \A k \in 1..Len(ds) : Composed(kept, ds)[Len(kept) + 2 + k] = Entry(ds[k])
         /\ Composed(kept, ds)[Len(kept) + Len(ds) + 3] = End
<1> DEFINE entries == [k \in 1..Len(ds) |-> Entry(ds[k])]
<1>1. entries \in Seq(Line) /\ Len(entries) = Len(ds)
      /\ \A k \in 1..Len(ds) : entries[k] = Entry(ds[k])
  BY LineMembers
<1> HIDE DEF entries
<1>2. <<Start>> \in Seq(Line) /\ <<End>> \in Seq(Line) /\ <<Managed>> \in Seq(Line)
  BY LineMembers
<1>3. BlockLines(ds) = <<Start>> \o entries \o <<End>>
  BY DEF BlockLines, entries
<1>4. /\ BlockLines(ds) \in Seq(Line)
      /\ Len(BlockLines(ds)) = Len(ds) + 2
      /\ BlockLines(ds)[1] = Start
      /\ \A k \in 1..Len(ds) : BlockLines(ds)[k + 1] = Entry(ds[k])
      /\ BlockLines(ds)[Len(ds) + 2] = End
  BY <1>1, <1>2, <1>3
<1> DEFINE head == kept \o <<Managed>>
<1>5. /\ head \in Seq(Line)
      /\ Len(head) = Len(kept) + 1
      /\ \A k \in 1..Len(kept) : head[k] = kept[k]
      /\ head[Len(kept) + 1] = Managed
  BY <1>2
<1>6. Composed(kept, ds) = head \o BlockLines(ds)
  BY DEF Composed
<1> HIDE DEF head
<1> DEFINE tail == BlockLines(ds)
           all == head \o tail
<1>t. tail \in Seq(Line) /\ head \in Seq(Line)
  BY <1>4, <1>5
<1> HIDE DEF tail
<1>7. /\ all \in Seq(Line)
      /\ Len(all) = Len(kept) + Len(ds) + 3
      /\ \A k \in 1..(Len(kept) + 1) : all[k] = head[k]
      /\ \A k \in 1..(Len(ds) + 2) : all[Len(kept) + 1 + k] = BlockLines(ds)[k]
  <2>1. /\ head \o tail \in Seq(Line)
        /\ Len(head \o tail) = Len(head) + Len(tail)
        /\ \A k \in 1..Len(head) : (head \o tail)[k] = head[k]
        /\ \A k \in 1..Len(tail) : (head \o tail)[Len(head) + k] = tail[k]
    BY <1>t
  <2>2. Len(kept) \in Nat /\ Len(ds) \in Nat
    OBVIOUS
  <2> HIDE DEF all
  <2>3. QED
    BY <1>4, <1>5, <2>1, <2>2 DEF all, tail
<1> HIDE DEF all
<1>8. \A k \in 1..Len(kept) : all[k] = kept[k]
  BY <1>5, <1>7
<1>9. all[Len(kept) + 1] = Managed
  BY <1>5, <1>7
<1>10. all[Len(kept) + 2] = Start /\ all[Len(kept) + Len(ds) + 3] = End
  BY <1>4, <1>7
<1>11. ASSUME NEW k \in 1..Len(ds) PROVE all[Len(kept) + 2 + k] = Entry(ds[k])
  <2>1. all[Len(kept) + 1 + (k + 1)] = BlockLines(ds)[k + 1]
    BY <1>7
  <2>2. QED
    BY <2>1, <1>4
<1>12. QED
  BY <1>6, <1>7, <1>8, <1>9, <1>10, <1>11 DEF all, tail

LEMMA FileMembers ==
  /\ NoFile \in File /\ <<>> \in File
  /\ NoFile # <<>>
  /\ \A f \in File : f # NoFile => f \in Seq(Line)
  /\ \A f \in Seq(Line) : f \in File /\ f # NoFile
<1>1. <<>> \in Seq(Line)
  OBVIOUS
<1>2. QED
  BY <1>1, NoFileAssumption DEF File

(* What stands where after a write of text behind line n of f.             *)
LEMMA OverlayType ==
  ASSUME NEW f \in Seq(Line), NEW n \in Nat, NEW text \in Seq(Line)
  PROVE  /\ Overlay(f, n, text) \in Seq(Line)
         /\ n + Len(text) <= Len(Overlay(f, n, text))
         /\ Len(f) <= n + Len(text) => Len(Overlay(f, n, text)) = n + Len(text)
         /\ \A k \in 1..n : k <= Len(f) => Overlay(f, n, text)[k] = f[k]
         /\ \A k \in 1..Len(text) : Overlay(f, n, text)[n + k] = text[k]
<1> DEFINE head == Before(f, n)
           tail == SubSeq(f, n + Len(text) + 1, Len(f))
<1>1. /\ head \in Seq(Line) /\ Len(head) = n
      /\ \A k \in 1..n : k <= Len(f) => head[k] = f[k]
  BY LineMembers DEF Before
<1>2. tail \in Seq(Line) /\ (Len(f) <= n + Len(text) => Len(tail) = 0)
  OBVIOUS
<1> HIDE DEF head, tail
<1> DEFINE front == head \o text
<1>3. /\ front \in Seq(Line) /\ Len(front) = n + Len(text)
      /\ \A k \in 1..n : front[k] = head[k]
      /\ \A k \in 1..Len(text) : front[n + k] = text[k]
  BY <1>1
<1> HIDE DEF front
<1>4. /\ front \o tail \in Seq(Line) /\ Len(front \o tail) = n + Len(text) + Len(tail)
      /\ \A k \in 1..(n + Len(text)) : (front \o tail)[k] = front[k]
  <2>1. front \in Seq(Line) /\ tail \in Seq(Line) /\ Len(front) = n + Len(text)
    BY <1>2, <1>3
  <2>2. /\ front \o tail \in Seq(Line) /\ Len(front \o tail) = Len(front) + Len(tail)
        /\ \A k \in 1..Len(front) : (front \o tail)[k] = front[k]
    BY <2>1
  <2>3. QED
    BY <2>1, <2>2
<1> DEFINE all == front \o tail
<1>5. Overlay(f, n, text) = all
  BY DEF Overlay, front, head, tail
<1>6. \A k \in 1..n : k <= Len(f) => all[k] = f[k]
  BY <1>1, <1>3, <1>4
<1>7. \A k \in 1..Len(text) : all[n + k] = text[k]
  BY <1>3, <1>4
<1>8. /\ all \in Seq(Line) /\ n + Len(text) <= Len(all)
      /\ Len(f) <= n + Len(text) => Len(all) = n + Len(text)
  <2>1. Len(text) \in Nat /\ Len(tail) \in Nat
    BY <1>2
  <2>2. all \in Seq(Line) /\ Len(all) = n + Len(text) + Len(tail)
    BY <1>4
  <2> HIDE DEF all
  <2>3. Len(f) <= n + Len(text) => Len(tail) = 0
    BY <1>2
  <2>4. QED
    BY <2>1, <2>2, <2>3
<1> HIDE DEF all
<1>9. QED
  BY <1>5, <1>6, <1>7, <1>8

(* A write of the stream: the file is as long as what is written of the    *)
(* text, and, where it was no longer before, no longer.                    *)
LEMMA WriteUpToType ==
  ASSUME TypeInv, NEW p \in Process, HoldsTmp(p),
         NEW n \in pos[p]..Len(content[p]), WriteUpTo(p, n)
  PROVE  tmp' \in Seq(Line) /\ n <= Len(tmp') /\ n \in Nat /\ mixed' \in BOOLEAN
<1>1. /\ tmp \in Seq(Line) /\ content[p] \in Seq(Line) /\ pos[p] \in Nat /\ n \in Nat
      /\ pos[p] <= n
  BY FileMembers DEF TypeInv, TypeOK, Held
<1> DEFINE text == SubSeq(content[p], pos[p] + 1, n)
<1>2. text \in Seq(Line) /\ Len(text) = n - pos[p]
  BY <1>1
<1>3. tmp' = Overlay(tmp, pos[p], text)
  BY DEF WriteUpTo
<1> HIDE DEF text
<1>4. tmp' \in Seq(Line) /\ pos[p] + Len(text) <= Len(tmp')
  BY <1>1, <1>2, <1>3, OverlayType
<1>5. mixed' \in BOOLEAN
  BY DEF WriteUpTo, MixedIn, TypeInv, TypeOK
<1>6. QED
  BY <1>1, <1>2, <1>4, <1>5

---------------------------------------------------------------------------
LEMMA TypeInit == Init => TypeInv
<1> SUFFICES ASSUME Init PROVE TypeInv
  OBVIOUS
<1>1. hosts \in File /\ original \in File
  BY FilesAssumption DEF Init
<1>2. QED
  BY <1>1, FileMembers
  DEF Init, TypeInv, TypeOK, Held, HoldsHosts, HoldsBackup, HoldsTmp, Copying, Labels, Results,
      WriterStates, Authors

(* A call that returns leaves everything typed.                            *)
LEMMA FinishedType ==
  ASSUME TypeInv, NEW p \in Process, NEW r \in Results, Finished(p, r)
  PROVE  /\ pc' \in [Process -> Labels]
         /\ domains' \in [Process -> DomainLists \cup {<<>>}]
         /\ inside' \in [Process -> BOOLEAN]
         /\ pos' \in [Process -> Nat]
         /\ content' \in [Process -> Seq(Line)]
         /\ result' \in [Process -> Results]
         /\ author' \in Authors /\ mixed' \in BOOLEAN
         /\ base' \in [Process -> File]
         /\ original' \in File
         /\ \A q \in Process :
              /\ HoldsHosts(q)' => HoldsHosts(q)
              /\ HoldsBackup(q)' => HoldsBackup(q)
              /\ HoldsTmp(q)' => HoldsTmp(q) /\ q # p /\ pc'[q] = pc[q] /\ pos'[q] = pos[q]
                                 /\ content'[q] = content[q]
              /\ pc'[q] = "read" => pc[q] = "read" /\ pos'[q] = pos[q]
  BY FileMembers
  DEF TypeInv, TypeOK, Finished, Labels, HoldsHosts, HoldsBackup, HoldsTmp, Authors

LEMMA TypeNext == TypeInv /\ [Next]_vars => TypeInv'
<1> SUFFICES ASSUME TypeInv, [Next]_vars PROVE TypeInv'
  OBVIOUS
<1> USE FileMembers DEF TypeInv, TypeOK, Held, HoldsHosts, HoldsBackup, HoldsTmp, Copying
<1>p. ASSUME NEW p \in Process PROVE
       /\ CallStep(p) => TypeInv'
       /\ ProgramStep(p) => TypeInv'
       /\ WriterStep(p) => TypeInv'
  <2> USE DEF files, locals, writer, bounds, history, Goto, Labels
  <2>e. ASSUME EnterApply(p), UNCHANGED <<files, writer, edits, crashes>>, calls' \in Nat
        PROVE  TypeInv'
    <3>1. CASE Finished(p, "failed")
      BY <2>e, <3>1, FinishedType DEF Results
    <3>2. CASE UNCHANGED <<locals, history>> /\ pc' = [pc EXCEPT ![p] = "backup"]
                 /\ result' = [result EXCEPT ![p] = "none"]
      BY <2>e, <3>2 DEF Results
    <3>3. QED
      BY <2>e, <3>1, <3>2 DEF EnterApply
  <2>s. ASSUME StartCopy(p)
        PROVE  /\ hosts # NoFile /\ backup' = <<>> /\ content' \in [Process -> Seq(Line)]
               /\ \A q \in Process \ {p} : content'[q] = content[q]
               /\ UNCHANGED <<domains, inside, pos>>
    BY <2>s DEF StartCopy, CannotCopy
  <2>b. ASSUME LeaveBackup(p) PROVE TypeInv'
    BY <2>b DEF LeaveBackup
  <2>u. ASSUME HoldsTmp(p), NEW to \in {"close", "launch"}, pc' = [pc EXCEPT ![p] = to],
               NEW n \in pos[p]..Len(content[p]), WriteUpTo(p, n)
        PROVE  TypeInv'
    <3>1. tmp' \in Seq(Line) /\ n \in Nat /\ mixed' \in BOOLEAN
      BY <2>u, WriteUpToType
    <3>2. /\ pos' = [pos EXCEPT ![p] = n]
          /\ UNCHANGED <<hosts, backup, domains, inside, content, result, writer, bounds, author,
                         base, original>>
      BY <2>u DEF WriteUpTo
    <3>3. QED
      BY <2>u, <3>1, <3>2
  <2>1. ASSUME NEW ds \in DomainLists, LoadDomains(p, ds) PROVE TypeInv'
    BY <2>1 DEF LoadDomains
  <2>2. CASE ApplyBlock(p)
    <3>1. EnterApply(p) /\ UNCHANGED <<files, writer, edits, crashes>> /\ calls' \in Nat
      BY <2>2 DEF ApplyBlock, Call
    <3>2. QED
      BY <3>1, <2>e
  <2>3. CASE ReapplyBlock(p)
    <3>1. CASE Finished(p, "intact")
      <4>1. UNCHANGED <<files, writer, edits, crashes>> /\ calls' \in Nat
        BY <2>3 DEF ReapplyBlock, Call
      <4>2. QED
        BY <4>1, <3>1, FinishedType DEF Results
    <3>2. CASE EnterApply(p)
      <4>1. UNCHANGED <<files, writer, edits, crashes>> /\ calls' \in Nat
        BY <2>3 DEF ReapplyBlock, Call
      <4>2. QED
        BY <4>1, <3>2, <2>e
    <3>3. QED
      BY <2>3, <3>1, <3>2 DEF ReapplyBlock
  <2>4. CASE BackupHosts(p)
    <3>1. CASE Finished(p, "failed") /\ UNCHANGED backup
      <4>1. UNCHANGED <<files, writer, edits, crashes>> /\ calls' \in Nat
        BY <2>4, <3>1 DEF BackupHosts, Call
      <4>2. QED
        BY <4>1, <3>1, FinishedType DEF Results
    <3>2. CASE StartCopy(p) /\ pc' = [pc EXCEPT ![p] = "save_copy"]
                 /\ result' = [result EXCEPT ![p] = "none"] /\ UNCHANGED history
      <4>1. UNCHANGED <<hosts, tmp, writer, edits, crashes>> /\ calls' \in Nat
        BY <2>4 DEF BackupHosts, Call
      <4>2. QED
        <5>1. TypeOK'
          BY <4>1, <3>2, <2>s DEF Results
        <5>2. ASSUME NEW q \in Process \ {p} PROVE pc'[q] = pc[q] /\ content'[q] = content[q]
          BY <3>2, <2>s
        <5>3. QED
          BY <4>1, <3>2, <2>s, <5>1, <5>2
    <3>3. QED
      BY <2>4, <3>1, <3>2 DEF BackupHosts
  <2>5. CASE CheckBackup(p)
    BY <2>5 DEF CheckBackup
  <2>6. CASE BeginBackup(p)
    BY <2>6, <2>s DEF BeginBackup
  <2>6l. CASE CopyBackupLine(p)
    <3>1. /\ backup \in Seq(Line) /\ content[p] \in Seq(Line)
          /\ Len(backup) + 1 \in 1..Len(content[p])
      BY <2>6l DEF CopyBackupLine
    <3>2. content[p][Len(backup) + 1] \in Line
      BY <3>1
    <3>3. backup' \in Seq(Line)
      BY <2>6l, <3>1, <3>2 DEF CopyBackupLine
    <3>4. QED
      BY <2>6l, <3>3 DEF CopyBackupLine
  <2>7. CASE CopyBackup(p)
    BY <2>7, <2>b DEF CopyBackup
  <2>8. CASE BackupFails(p)
    BY <2>8, <2>b DEF BackupFails
  <2>9. CASE SaveCopied(p)
    BY <2>9, FinishedType DEF SaveCopied, Results
  <2>10. CASE OpenHosts(p)
    BY <2>10 DEF OpenHosts
  <2>11. CASE OpenHostsFails(p)
    BY <2>11, FinishedType DEF OpenHostsFails, Results
  <2>12. CASE ReadLine(p)
    <3>1. hosts \in Seq(Line) /\ pos[p] \in 1..Len(hosts)
      BY <2>12 DEF ReadLine
    <3>2. hosts[pos[p]] \in Line
      BY <3>1
    <3>3. content' \in [Process -> Seq(Line)]
      BY <2>12, <3>2 DEF ReadLine
    <3>4. inside' \in [Process -> BOOLEAN]
      BY <2>12 DEF ReadLine
    <3>5. pos' \in [Process -> Nat] /\ pos'[p] # 0
      BY <2>12 DEF ReadLine
    <3>6. QED
      BY <2>12, <3>3, <3>4, <3>5 DEF ReadLine
  <2>13. CASE BuildContent(p)
    <3>1. domains[p] \in Seq(Domain) /\ content[p] \in Seq(Line)
      BY ListsAssumption
    <3>2. Composed(content[p], domains[p]) \in Seq(Line)
      BY <3>1, ComposedType
    <3>3. QED
      BY <2>13, <3>2 DEF BuildContent
  <2>14. CASE OpenTmp(p)
    BY <2>14 DEF OpenTmp
  <2>15. CASE OpenTmpFails(p)
    BY <2>15, FinishedType DEF OpenTmpFails, Results
  <2>16. CASE WriteTmp(p)
    <3>1. PICK n \in 0..Len(content[p]) : WriteUpTo(p, n)
      BY <2>16 DEF WriteTmp
    <3>2. QED
      BY <2>16, <3>1, <2>u DEF WriteTmp
  <2>16c. CASE CloseTmp(p)
    <3>1. Len(content[p]) \in pos[p]..Len(content[p])
      BY <2>16c DEF CloseTmp
    <3>2. QED
      BY <2>16c, <3>1, <2>u DEF CloseTmp
  <2>16s. CASE WriteTmpShort(p)
    <3>1. PICK n \in pos[p]..(Len(content[p]) - 1) : WriteUpTo(p, n)
      BY <2>16s DEF WriteTmpShort
    <3>2. n \in pos[p]..Len(content[p])
      BY <3>1
    <3>3. QED
      BY <2>16s, <3>1, <3>2, <2>u DEF WriteTmpShort
  <2>17. CASE WriteTmpFails(p)
    BY <2>17, FinishedType DEF WriteTmpFails, RemoveTmp, Results
  <2>18. CASE LaunchWriter(p)
    BY <2>18 DEF LaunchWriter, WriterStates
  <2>19. CASE LaunchFails(p)
    BY <2>19, FinishedType DEF LaunchFails, RemoveTmp, Results
  <2>20. CASE Finish(p)
    BY <2>20, FinishedType DEF Finish, RemoveTmp, Results, WriterStates
  <2>21. CASE HwOpen(p)
    BY <2>21 DEF HwOpen, Touched, WriterStates, Authors
  <2>22. CASE HwOpenFails(p)
    BY <2>22 DEF HwOpenFails, WriterStates
  <2>23. CASE HwCopyLine(p)
    <3>1. hosts \in Seq(Line) /\ src[p] \in Seq(Line) /\ Len(hosts) + 1 \in 1..Len(src[p])
      BY <2>23 DEF HwCopyLine
    <3>2. src[p][Len(hosts) + 1] \in Line
      BY <3>1
    <3>3. hosts' \in Seq(Line)
      BY <2>23, <3>1, <3>2 DEF HwCopyLine
    <3>4. QED
      BY <2>23, <3>3 DEF HwCopyLine, Touched
  <2>24. CASE HwDone(p)
    BY <2>24 DEF HwDone, HwEnds, WriterStates
  <2>25. CASE HwCopyFails(p)
    BY <2>25 DEF HwCopyFails, HwEnds, WriterStates
  <2>26. QED
    BY <2>1, <2>2, <2>3, <2>4, <2>5, <2>6, <2>6l, <2>7, <2>8, <2>9, <2>10, <2>11, <2>12, <2>13,
       <2>14, <2>15, <2>16, <2>16c, <2>16s, <2>17, <2>18, <2>19, <2>20, <2>21, <2>22, <2>23, <2>24, <2>25
    DEF CallStep, ProgramStep, WriterStep
<1>1. CASE Environment
  <2> USE <1>1 DEF files, locals, writer, bounds, history, Goto, Labels
  <2>t. ASSUME NEW victims \in SUBSET Process, Terminated(victims)
        PROVE  /\ pc' \in [Process -> Labels] /\ inside' \in [Process -> BOOLEAN]
               /\ pos' \in [Process -> Nat] /\ content' \in [Process -> Seq(Line)]
               /\ result' \in [Process -> Results] /\ base' \in [Process -> File]
               /\ \A q \in Process : pc'[q] = "dead" \/ (pc'[q] = pc[q] /\ pos'[q] = pos[q]
                                                          /\ content'[q] = content[q])
    BY <2>t DEF Terminated, Results
  <2>1. ASSUME NEW p \in Process, Kill(p) PROVE TypeInv'
    <3>1. UNCHANGED <<files, domains, writer, edits, author, mixed, original>> /\ crashes' \in Nat /\ calls' = calls
      BY <2>1 DEF Kill, Crash, Terminated
    <3>2. Terminated({p})
      BY <2>1 DEF Kill
    <3>3. QED
      BY <3>1, <3>2, <2>t
  <2>2. ASSUME NEW p \in Process, StartInstance(p) PROVE TypeInv'
    BY <2>2 DEF StartInstance, WriterStates
  <2>3. CASE Reboot
    <3>1. UNCHANGED <<files, domains, edits, author, mixed, original>> /\ crashes' \in Nat /\ calls' = calls
      BY <2>3 DEF Reboot, Crash, Terminated
    <3>2. hw' \in [Process -> WriterStates] /\ src' \in [Process -> Seq(Line)]
          /\ \A q \in Process : ~(hw'[q] = "copy")
      BY <2>3 DEF Reboot, WriterStates
    <3>3. Terminated(Process)
      BY <2>3 DEF Reboot
    <3>4. QED
      BY <3>1, <3>2, <3>3, <2>t
  <2>4. ASSUME NEW f \in EditFiles, UserEdit(f) PROVE TypeInv'
    BY <2>4, FilesAssumption DEF UserEdit, Authors
  <2>5. ASSUME NEW p \in Process, Exit(p) PROVE TypeInv'
    <3>1. UNCHANGED <<files, domains, writer, bounds, author, mixed, original>> /\ Terminated({p})
      BY <2>5 DEF Exit, Terminated
    <3>2. TypeOK'
      BY <3>1, <2>t
    <3>3. ASSUME NEW q \in Process
          PROVE  pc'[q] = "dead" \/ (pc'[q] = pc[q] /\ pos'[q] = pos[q] /\ content'[q] = content[q])
      BY <2>5 DEF Exit, Terminated
    <3>4. UNCHANGED <<hosts, backup, tmp, hw>>
      BY <3>1
    <3>5. Held'
      <4> HIDE DEF TypeOK
      <4>1. QED
        BY <3>3, <3>4
    <3>6. QED
      BY <3>2, <3>5
  <2>6. QED
    BY <2>1, <2>2, <2>3, <2>4, <2>5 DEF Environment
<1>2. CASE UNCHANGED vars
  BY <1>2 DEF vars, files, locals, writer, bounds, history
<1>3. QED
  BY <1>p, <1>1, <1>2 DEF Next

(* The variables keep their types, and no step reads from a file that does *)
(* not exist.                                                              *)
THEOREM TypeCorrect == Spec => []TypeOK
<1>1. TypeInv => TypeOK
  BY DEF TypeInv
<1>2. QED
  BY TypeInit, TypeNext, <1>1, PTL DEF Spec

---------------------------------------------------------------------------
(* A step of p leaves what the others know as it is: each locals' tuple is *)
(* indexed by the process, and only p's entry changes.                     *)
Untouched(q) ==
  /\ pc'[q] = pc[q] /\ domains'[q] = domains[q] /\ hw'[q] = hw[q]
  /\ inside'[q] = inside[q] /\ pos'[q] = pos[q] /\ content'[q] = content[q]
  /\ result'[q] = result[q] /\ src'[q] = src[q]

LEMMA FinishedLocal ==
  ASSUME TypeOK, NEW p \in Process, NEW r, Finished(p, r)
  PROVE  /\ pc'[p] = "idle" /\ result'[p] = r /\ domains' = domains /\ author' = author
         /\ mixed' = mixed /\ original' = original /\ base' = [base EXCEPT ![p] = NoFile]
         /\ content'[p] = <<>>
         /\ hw' = hw /\ src' = src => \A q \in Process \ {p} : Untouched(q)
  BY DEF TypeOK, Finished, Untouched

(* The steps of a call of p move no other process and leave hosts alone.   *)
LEMMA CallLocal ==
  ASSUME TypeOK, NEW p \in Process, CallStep(p) \/ ProgramStep(p)
  PROVE  /\ hosts' = hosts /\ author' = author /\ original' = original
         /\ edits' = edits /\ crashes' = crashes
         /\ \A q \in Process \ {p} : Untouched(q) /\ base'[q] = base[q]
<1> USE DEF files, locals, writer, bounds, history, Goto, Finished, Untouched, TypeOK,
           StartCopy, LeaveBackup, WriteUpTo
<1>1. CASE CallStep(p)
  <2> USE <1>1 DEF Call, EnterApply
  <2>1. ASSUME NEW ds \in DomainLists, LoadDomains(p, ds)
        PROVE  UNCHANGED <<files, pc, inside, pos, content, result, writer, bounds, history>>
               /\ \A q \in Process \ {p} : domains'[q] = domains[q]
    BY <2>1 DEF LoadDomains
  <2>2. CASE ApplyBlock(p)
    BY <2>2 DEF ApplyBlock
  <2>3. CASE ReapplyBlock(p)
    BY <2>3 DEF ReapplyBlock
  <2>4. CASE BackupHosts(p)
    BY <2>4 DEF BackupHosts
  <2>5. QED
    BY <2>1, <2>2, <2>3, <2>4 DEF CallStep
<1>2. CASE ProgramStep(p)
  <2>1. CASE CheckBackup(p) \/ BeginBackup(p) \/ CopyBackupLine(p) \/ CopyBackup(p)
               \/ BackupFails(p) \/ SaveCopied(p)
    BY <2>1 DEF CheckBackup, BeginBackup, CopyBackupLine, CopyBackup, BackupFails, SaveCopied
  <2>2. CASE OpenHosts(p) \/ OpenHostsFails(p) \/ ReadLine(p) \/ BuildContent(p)
    BY <2>2 DEF OpenHosts, OpenHostsFails, ReadLine, BuildContent
  <2>3. CASE OpenTmp(p) \/ OpenTmpFails(p) \/ WriteTmp(p) \/ CloseTmp(p) \/ WriteTmpShort(p)
               \/ WriteTmpFails(p)
    BY <2>3 DEF OpenTmp, OpenTmpFails, WriteTmp, CloseTmp, WriteTmpShort, WriteTmpFails
  <2>4. CASE LaunchWriter(p) \/ LaunchFails(p) \/ Finish(p)
    BY <2>4 DEF LaunchWriter, LaunchFails, Finish
  <2>5. QED
    BY <1>2, <2>1, <2>2, <2>3, <2>4 DEF ProgramStep
<1>3. QED
  BY <1>1, <1>2

(* A call is made by a process between two calls, and goes on or returns:  *)
(* nothing of its own ends it.                                             *)
LEMMA CallAlive ==
  ASSUME TypeOK, NEW p \in Process
  PROVE  /\ CallStep(p) => pc[p] = "idle" /\ pc'[p] # "dead"
         /\ ProgramStep(p) => pc[p] \notin {"idle", "dead"} /\ pc'[p] # "dead"
<1> USE DEF Goto, TypeOK, LeaveBackup, HoldsBackup, HoldsTmp
<1>f. ASSUME NEW r, Finished(p, r) PROVE pc'[p] # "dead"
  BY <1>f DEF Finished
<1>1. ASSUME CallStep(p) PROVE pc[p] = "idle" /\ pc'[p] # "dead"
  <2>1. ASSUME NEW ds \in DomainLists, LoadDomains(p, ds) PROVE pc[p] = "idle" /\ pc' = pc
    BY <2>1 DEF LoadDomains
  <2>2. CASE ApplyBlock(p)
    BY <2>2, <1>f DEF ApplyBlock, Call, EnterApply
  <2>3. CASE ReapplyBlock(p)
    BY <2>3, <1>f DEF ReapplyBlock, Call, EnterApply
  <2>4. CASE BackupHosts(p)
    BY <2>4, <1>f DEF BackupHosts, Call
  <2>5. QED
    BY <1>1, <2>1, <2>2, <2>3, <2>4 DEF CallStep
<1>2. ASSUME ProgramStep(p) PROVE pc[p] \notin {"idle", "dead"} /\ pc'[p] # "dead"
  <2>1. CASE CheckBackup(p) \/ BeginBackup(p) \/ CopyBackupLine(p) \/ CopyBackup(p)
               \/ BackupFails(p) \/ SaveCopied(p)
    BY <2>1, <1>f DEF CheckBackup, BeginBackup, CopyBackupLine, CopyBackup, BackupFails, SaveCopied
  <2>2. CASE OpenHosts(p) \/ OpenHostsFails(p) \/ ReadLine(p) \/ BuildContent(p)
    BY <2>2, <1>f DEF OpenHosts, OpenHostsFails, ReadLine, BuildContent
  <2>3. CASE OpenTmp(p) \/ OpenTmpFails(p) \/ WriteTmp(p) \/ CloseTmp(p) \/ WriteTmpShort(p)
               \/ WriteTmpFails(p)
    BY <2>3, <1>f DEF OpenTmp, OpenTmpFails, WriteTmp, CloseTmp, WriteTmpShort, WriteTmpFails
  <2>4. CASE LaunchWriter(p) \/ LaunchFails(p) \/ Finish(p)
    BY <2>4, <1>f DEF LaunchWriter, LaunchFails, Finish
  <2>5. QED
    BY <1>2, <2>1, <2>2, <2>3, <2>4 DEF ProgramStep
<1>3. QED
  BY <1>1, <1>2

(* hostswriter.exe of p changes nothing but itself and the hosts file.     *)
LEMMA WriterLocal ==
  ASSUME TypeOK, NEW p \in Process, WriterStep(p)
  PROVE  /\ Writing(p) /\ base'[p] = base[p]
         /\ UNCHANGED <<backup, tmp, pc, locals, result, bounds, mixed, original>>
         /\ \A q \in Process \ {p} : Untouched(q) /\ base'[q] \in {base[q], NoFile}
<1> USE DEF TypeOK, files, locals, writer, bounds, history, Untouched, Writing, Copying
<1>1. CASE HwOpen(p)
  BY <1>1 DEF HwOpen, Touched
<1>2. CASE HwCopyLine(p)
  BY <1>2 DEF HwCopyLine, Touched
<1>3. CASE HwOpenFails(p) \/ HwDone(p) \/ HwCopyFails(p)
  BY <1>3 DEF HwOpenFails, HwDone, HwCopyFails, HwEnds
<1>4. QED
  BY <1>1, <1>2, <1>3 DEF WriterStep

---------------------------------------------------------------------------
(* NoTempLeft is not inductive: the process that is to remove the file may *)
(* fail because another one has it open, and then that one has to be about *)
(* to remove it as well, also where it is only its hostswriter.            *)
Removing(p) == HoldsTmp(p) \/ pc[p] \in {"launch", "wait"}

TempInv ==
  crashes = 0 =>
    /\ \A p \in Process : Writing(p) => pc[p] = "wait"
    /\ tmp # NoFile => \E p \in Process : Removing(p)

LEMMA TempInit == Init => TempInv
  BY DEF Init, TempInv, Writing

LEMMA TempNext == TypeInv /\ TempInv /\ [Next]_vars => TempInv'
<1> SUFFICES ASSUME TypeInv, TempInv, [Next]_vars PROVE TempInv'
  OBVIOUS
<1>t. TypeOK
  BY DEF TypeInv
<1> USE DEF files, locals, writer, bounds, history, Goto
(* Steps of p, or of its hostswriter, beside which it still removes what   *)
(* it was to remove.                                                       *)
<1>k. ASSUME NEW p \in Process, tmp' = tmp \/ Removing(p)', crashes' = crashes,
             \A q \in Process \ {p} : pc'[q] = pc[q] /\ hw'[q] = hw[q],
             Removing(p) => Removing(p)', Writing(p)' => pc'[p] = "wait"
      PROVE  TempInv'
  BY <1>k DEF TempInv, Removing, HoldsTmp, Writing
(* RemoveTmp, as a call of p returns.                                      *)
<1>r. ASSUME NEW p \in Process, NEW r, Finished(p, r), RemoveTmp(p), ~Writing(p)',
             crashes' = crashes, \A q \in Process \ {p} : hw'[q] = hw[q]
      PROVE  TempInv'
  <2>1. \A q \in Process \ {p} : pc'[q] = pc[q]
    BY <1>r, <1>t, FinishedLocal DEF Finished, TypeOK
  <2>2. ASSUME crashes = 0, tmp' # NoFile PROVE \E q \in Process : Removing(q)'
    <3>1. PICK q \in Process \ {p} : HoldsTmp(q) \/ Copying(q)
      BY <1>r, <2>2 DEF RemoveTmp, TmpInUse
    <3>2. Removing(q)
      BY <2>2, <3>1 DEF TempInv, Removing, Copying, Writing
    <3>3. QED
      BY <2>1, <3>2 DEF Removing, HoldsTmp
  <2>3. QED
    BY <1>r, <2>1, <2>2 DEF TempInv, Writing
<1>w. ASSUME NEW p \in Process, CallStep(p) \/ ProgramStep(p)
      PROVE  crashes' = crashes /\ \A q \in Process \ {p} : pc'[q] = pc[q] /\ hw'[q] = hw[q]
  BY <1>w, <1>t, CallLocal DEF Untouched
<1>1. ASSUME NEW p \in Process, CallStep(p) PROVE TempInv'
  <2>1. /\ tmp' = tmp /\ hw' = hw /\ pc[p] = "idle"
    BY <1>1 DEF CallStep, LoadDomains, ApplyBlock, ReapplyBlock, BackupHosts, Call
  <2>2. CASE crashes = 0
    <3>1. ~Writing(p)
      BY <2>1, <2>2 DEF TempInv
    <3>2. QED
      BY <1>1, <2>1, <3>1, <1>w, <1>k DEF Writing, Removing, HoldsTmp
  <2>3. QED
    BY <2>2, <1>1, <1>w DEF TempInv
<1>2. ASSUME NEW p \in Process, ProgramStep(p) PROVE TempInv'
  <2> USE DEF Removing, HoldsTmp
  <2>0. CASE crashes # 0
    BY <2>0, <1>2, <1>w DEF TempInv
  <2>h. ASSUME hw' = hw, pc[p] # "wait", crashes = 0
        PROVE  ~Writing(p)'
    BY <2>h DEF TempInv, Writing
  <2>1. CASE CheckBackup(p) \/ BeginBackup(p) \/ CopyBackupLine(p) \/ CopyBackup(p)
               \/ BackupFails(p) \/ SaveCopied(p)
    <3>1. tmp' = tmp /\ hw' = hw /\ ~Removing(p)
      BY <2>1 DEF CheckBackup, BeginBackup, CopyBackupLine, CopyBackup, BackupFails, SaveCopied,
                  LeaveBackup, HoldsBackup
    <3>2. QED
      BY <1>2, <1>w, <1>k, <2>0, <2>h, <3>1
  <2>2. CASE OpenHosts(p) \/ OpenHostsFails(p) \/ ReadLine(p) \/ BuildContent(p) \/ OpenTmpFails(p)
    <3>1. tmp' = tmp /\ hw' = hw /\ ~Removing(p)
      BY <2>2 DEF OpenHosts, OpenHostsFails, ReadLine, BuildContent, OpenTmpFails
    <3>2. QED
      BY <1>2, <1>w, <1>k, <2>0, <2>h, <3>1
  <2>3. CASE OpenTmp(p) \/ WriteTmp(p) \/ CloseTmp(p) \/ WriteTmpShort(p)
    <3>1. Removing(p)' /\ hw' = hw /\ pc[p] # "wait"
      BY <2>3, <1>t DEF OpenTmp, WriteTmp, CloseTmp, WriteTmpShort, WriteUpTo, TypeOK
    <3>2. QED
      BY <1>2, <1>w, <1>k, <2>0, <2>h, <3>1
  <2>4. CASE LaunchWriter(p)
    <3>1. tmp' = tmp /\ pc'[p] = "wait"
      BY <2>4, <1>t DEF LaunchWriter, TypeOK
    <3>2. QED
      BY <1>2, <1>w, <1>k, <3>1
  <2>5. CASE WriteTmpFails(p) \/ LaunchFails(p)
    <3>1. Finished(p, "failed") /\ RemoveTmp(p) /\ hw' = hw /\ pc[p] # "wait"
      BY <2>5 DEF WriteTmpFails, LaunchFails
    <3>2. QED
      BY <1>2, <1>w, <1>r, <2>0, <2>h, <3>1
  <2>6. CASE Finish(p)
    <3>1. PICK r : Finished(p, r)
      BY <2>6 DEF Finish
    <3>2. RemoveTmp(p) /\ ~Writing(p)'
      BY <2>6, <1>t DEF Finish, Writing, TypeOK
    <3>3. QED
      BY <1>2, <1>w, <1>r, <3>1, <3>2
  <2>7. QED
    BY <1>2, <2>1, <2>2, <2>3, <2>4, <2>5, <2>6 DEF ProgramStep
<1>3. ASSUME NEW p \in Process, WriterStep(p) PROVE TempInv'
  <2>1. Writing(p) /\ UNCHANGED <<tmp, pc, crashes>>
    BY <1>3 DEF WriterStep, HwOpen, HwOpenFails, HwCopyLine, HwDone, HwCopyFails, HwEnds,
                Copying, Writing
  <2>2. \A q \in Process \ {p} : hw'[q] = hw[q]
    BY <1>3, <1>t DEF WriterStep, HwOpen, HwOpenFails, HwCopyLine, HwDone, HwCopyFails, HwEnds, TypeOK
  <2>3. QED
    BY <2>1, <2>2 DEF TempInv, Writing, Removing, HoldsTmp
<1>4. CASE Environment
  <2>1. ASSUME NEW p \in Process, Kill(p) PROVE TempInv'
    BY <2>1, <1>t DEF Kill, Crash, TempInv, TypeOK
  <2>2. CASE Reboot
    BY <2>2, <1>t DEF Reboot, Crash, TempInv, TypeOK
  <2>3. ASSUME NEW p \in Process, Exit(p) PROVE TempInv'
    <3>1. /\ UNCHANGED <<tmp, hw, crashes>> /\ pc[p] = "idle"
          /\ \A q \in Process \ {p} : pc'[q] = pc[q]
      BY <2>3 DEF Exit, Terminated
    <3>2. QED
      BY <3>1 DEF TempInv, Writing, Removing, HoldsTmp
  <2>4. ASSUME NEW p \in Process, StartInstance(p) PROVE TempInv'
    <3>1. /\ UNCHANGED <<tmp, crashes>> /\ pc[p] = "dead" /\ ~Writing(p)'
          /\ \A q \in Process \ {p} : pc'[q] = pc[q] /\ hw'[q] = hw[q]
      BY <2>4, <1>t DEF StartInstance, TypeOK, Writing
    <3>2. QED
      BY <3>1, <1>k DEF Removing, HoldsTmp
  <2>5. ASSUME NEW f \in EditFiles, UserEdit(f) PROVE TempInv'
    BY <2>5 DEF UserEdit, TempInv, Writing, Removing, HoldsTmp
  <2>6. QED
    BY <1>4, <2>1, <2>2, <2>3, <2>4, <2>5 DEF Environment
<1>5. CASE UNCHANGED vars
  BY <1>5 DEF vars, TempInv, Writing, Removing, HoldsTmp
<1>6. QED
  BY <1>1, <1>2, <1>3, <1>4, <1>5 DEF Next

(* For any number of instances and any faults: unless a process was        *)
(* killed, hosts.tmp is gone whenever no call stands between its opening   *)
(* and its removal, although a removal fails silently while another        *)
(* instance or its hostswriter.exe has the file open.                      *)
THEOREM NoTempLeftHolds == Spec => []NoTempLeft
<1>1. TempInv => NoTempLeft
  BY DEF TempInv, NoTempLeft, Removing
<1>2. QED
  BY TypeInit, TypeNext, TempInit, TempNext, <1>1, PTL DEF Spec

---------------------------------------------------------------------------
(* BlockIntegrity is not inductive: what the hosts file holds comes from   *)
(* src, that from tmp, that from the text of some process, which may stand *)
(* whole over that of another.  What every one of them satisfies, and what *)
(* no truncation, no prefix and no whole text laid over can break, is that *)
(* each end marker has a whole block of a list that is not empty at or     *)
(* before it.                                                              *)

BlockBy(f, j) ==
  \E ds \in DomainLists \ {<<>>} : \E i \in 1..Len(f) :
    BlockAt(f, i, ds) /\ i + Len(ds) + 1 <= j

Sealed(f) == \A j \in 1..Len(f) : f[j] = End => BlockBy(f, j)

NoMarkers(f) == \A k \in 1..Len(f) : f[k] \notin Marker

Composing(p) == pc[p] \in {"tmp", "write", "close", "launch", "wait"}

TextInv(p) ==
  /\ ~Composing(p) /\ ~HoldsBackup(p) => NoMarkers(content[p])
  /\ Composing(p) => Sealed(content[p]) /\ BlockBy(content[p], Len(content[p]))
  /\ pc[p] \notin {"idle", "dead", "save_copy"} => domains[p] # <<>>

CopyInv(p) ==
  Copying(p) =>
    /\ author = "hostswriter"
    /\ mixed \/ Sealed(src[p])
    /\ Len(hosts) <= Len(src[p])
    /\ \A k \in 1..Len(hosts) : hosts[k] = src[p][k]
    /\ \A q \in Process : Copying(q) => q = p

FilesInv ==
  /\ tmp # NoFile => mixed \/ Sealed(tmp)
  /\ author = "hostswriter" => hosts # NoFile /\ (mixed \/ Sealed(hosts))

IntegrityInv ==
  FilesInv /\ \A p \in Process : TextInv(p) /\ CopyInv(p)

LEMMA LinesDiffer ==
  /\ Start # End /\ Managed # End /\ Managed \notin Marker
  /\ \A d : Entry(d) # End
  BY DEF Start, End, Managed, Entry, Marker

(* A block in the part two files share is in both.                         *)
LEMMA SharedBlock ==
  ASSUME NEW f \in Seq(Line), NEW g \in Seq(Line), NEW j \in Nat,
         j <= Len(f), j <= Len(g), \A k \in 1..j : f[k] = g[k],
         BlockBy(f, j)
  PROVE  BlockBy(g, j)
<1>1. PICK ds \in DomainLists \ {<<>>}, i \in 1..Len(f) :
        BlockAt(f, i, ds) /\ i + Len(ds) + 1 <= j
  BY DEF BlockBy
<1>2. Len(ds) \in Nat
  BY ListsAssumption
<1>3. i \in 1..Len(g) /\ BlockAt(g, i, ds)
  BY <1>1, <1>2 DEF BlockAt
<1>4. QED
  BY <1>1, <1>3 DEF BlockBy

LEMMA PrefixSealed ==
  ASSUME NEW f \in Seq(Line), NEW g \in Seq(Line), Sealed(g),
         Len(f) <= Len(g), \A k \in 1..Len(f) : f[k] = g[k]
  PROVE  Sealed(f)
<1> SUFFICES ASSUME NEW j \in 1..Len(f), f[j] = End PROVE BlockBy(f, j)
  BY DEF Sealed
<1>1. j \in 1..Len(g) /\ g[j] = End
  OBVIOUS
<1>2. BlockBy(g, j)
  BY <1>1 DEF Sealed
<1>3. QED
  BY <1>1, <1>2, SharedBlock

LEMMA LaidOverSealed ==
  ASSUME NEW text \in Seq(Line), NEW all \in Seq(Line), Len(text) <= Len(all),
         \A k \in 1..Len(text) : all[k] = text[k],
         Sealed(text), BlockBy(text, Len(text))
  PROVE  Sealed(all)
<1> SUFFICES ASSUME NEW j \in 1..Len(all), all[j] = End PROVE BlockBy(all, j)
  BY DEF Sealed
<1>1. CASE j <= Len(text)
  <2>1. BlockBy(text, j)
    BY <1>1 DEF Sealed
  <2>2. QED
    BY <1>1, <2>1, SharedBlock
<1>2. CASE j > Len(text)
  <2>1. BlockBy(all, Len(text))
    BY SharedBlock
  <2>2. QED
    BY <1>2, <2>1, ListsAssumption DEF BlockBy
<1>3. QED
  BY <1>1, <1>2

(* A write of the stream that mixes nothing leaves a prefix of its text,   *)
(* or the whole of it with what stood behind it.                           *)
LEMMA WriteUpToSealed ==
  ASSUME TypeInv, NEW p \in Process, HoldsTmp(p),
         NEW n \in pos[p]..Len(content[p]), WriteUpTo(p, n),
         mixed \/ Sealed(tmp), Sealed(content[p]), BlockBy(content[p], Len(content[p]))
  PROVE  mixed' \/ Sealed(tmp')
<1> SUFFICES ASSUME ~mixed' PROVE Sealed(tmp')
  OBVIOUS
<1>1. ~mixed /\ (tmp' = tmp \/ ~MixedIn(tmp', content[p], n))
  BY DEF WriteUpTo, TypeInv, TypeOK
<1>2. CASE tmp' = tmp
  BY <1>1, <1>2
<1>3. CASE ~MixedIn(tmp', content[p], n)
  <2>1. /\ tmp' \in Seq(Line) /\ content[p] \in Seq(Line) /\ n \in Nat
        /\ n <= Len(tmp') /\ n <= Len(content[p])
    BY WriteUpToType DEF TypeInv, TypeOK
  <2>2. SubSeq(tmp', 1, n) = SubSeq(content[p], 1, n) /\ (n = Len(content[p]) \/ Len(tmp') = n)
    BY <1>3, <2>1 DEF MixedIn
  <2>3. \A k \in 1..n : tmp'[k] = content[p][k]
    <3>1. \A k \in 1..n : SubSeq(tmp', 1, n)[k] = tmp'[k]
                          /\ SubSeq(content[p], 1, n)[k] = content[p][k]
      BY <2>1
    <3>2. QED
      BY <2>2, <3>1
  <2>4. CASE n = Len(content[p])
    BY <2>1, <2>3, <2>4, LaidOverSealed
  <2>5. CASE Len(tmp') = n
    BY <2>1, <2>3, <2>5, PrefixSealed
  <2>6. QED
    BY <2>2, <2>4, <2>5
<1>4. QED
  BY <1>1, <1>2, <1>3

LEMMA ComposedSealed ==
  ASSUME NEW kept \in Seq(Line), NEW ds \in DomainLists \ {<<>>}, NoMarkers(kept)
  PROVE  /\ Sealed(Composed(kept, ds))
         /\ BlockBy(Composed(kept, ds), Len(Composed(kept, ds)))
<1> DEFINE all == Composed(kept, ds)
           n == Len(kept)
           m == Len(ds)
<1>0. ds \in Seq(Domain) /\ n \in Nat /\ m \in Nat
  BY ListsAssumption
<1>1. /\ all \in Seq(Line)
      /\ Len(all) = n + m + 3
      /\ \A k \in 1..n : all[k] = kept[k]
      /\ all[n + 1] = Managed
      /\ all[n + 2] = Start
      /\ \A k \in 1..m : all[n + 2 + k] = Entry(ds[k])
      /\ all[n + m + 3] = End
  BY <1>0, ComposedType
<1> HIDE DEF all, n, m
<1>2. BlockAt(all, n + 2, ds) /\ n + 2 \in 1..Len(all)
  BY <1>0, <1>1 DEF BlockAt, m
<1>3. BlockBy(all, Len(all))
  BY <1>0, <1>1, <1>2 DEF BlockBy, m
<1>4. ASSUME NEW j \in 1..Len(all), all[j] = End PROVE j = Len(all)
  <2>1. CASE j \in 1..n
    BY <1>1, <1>4, <2>1 DEF NoMarkers, Marker, n
  <2>2. CASE j = n + 1 \/ j = n + 2
    BY <1>1, <1>4, <2>2, LinesDiffer
  <2>3. CASE j \in (n + 3)..(n + m + 2)
    <3>1. j - n - 2 \in 1..m /\ n + 2 + (j - n - 2) = j
      BY <1>0, <2>3
    <3>2. all[j] = Entry(ds[j - n - 2])
      BY <1>1, <3>1
    <3>3. QED
      BY <1>4, <3>2, LinesDiffer
  <2>4. QED
    BY <1>0, <1>1, <2>1, <2>2, <2>3
<1>5. QED
  BY <1>3, <1>4 DEF Sealed, all

LEMMA EmptyFile == NoMarkers(<<>>) /\ Sealed(<<>>)
  BY DEF NoMarkers, Sealed

LEMMA IntegrityInit == Init => IntegrityInv
<1> SUFFICES ASSUME Init PROVE IntegrityInv
  OBVIOUS
<1>1. \A p \in Process : content[p] = <<>> /\ pc[p] = "dead" /\ hw[p] = "none"
  BY DEF Init
<1>2. tmp = NoFile /\ author = "user"
  BY DEF Init
<1>3. QED
  BY <1>1, <1>2, EmptyFile
  DEF IntegrityInv, FilesInv, TextInv, CopyInv, Composing, HoldsBackup, Copying

(* The call of p returns: nothing of its text is left.                     *)
LEMMA FinishedText ==
  ASSUME TypeInv, NEW p \in Process, NEW r, Finished(p, r), NEW q \in Process, TextInv(q)
  PROVE  TextInv(q)'
  BY EmptyFile DEF TypeInv, TypeOK, Finished, TextInv, Composing, HoldsBackup

(* A process that goes on with its text unchanged, on the same side of     *)
(* BuildContent and with a list loaded, keeps what TextInv says of it.     *)
LEMMA SameText ==
  ASSUME NEW p \in Process, TextInv(p),
         content'[p] = content[p], domains'[p] = domains[p],
         Composing(p)' <=> Composing(p), HoldsBackup(p)' <=> HoldsBackup(p),
         pc'[p] \in {"idle", "dead", "save_copy"}
           \/ pc[p] \notin {"idle", "dead", "save_copy"}
           \/ domains[p] # <<>>
  PROVE  TextInv(p)'
  BY DEF TextInv

(* The hosts file and every hostswriter as they were.                      *)
LEMMA SameCopy ==
  ASSUME NEW p \in Process, CopyInv(p), hosts' = hosts, author' = author,
         mixed \in BOOLEAN, mixed => mixed',
         src' = src, \A q \in Process : Copying(q)' => Copying(q)
  PROVE  CopyInv(p)'
  BY DEF CopyInv

LEMMA IntegrityNext ==
  TypeInv /\ TypeInv' /\ IntegrityInv /\ [Next]_vars => IntegrityInv'
<1> SUFFICES ASSUME TypeInv, TypeInv', IntegrityInv, [Next]_vars PROVE IntegrityInv'
  OBVIOUS
<1> USE DEF IntegrityInv, FilesInv
(* Steps that leave the text of every process and all copies alone.        *)
<1>q. ASSUME UNCHANGED <<hosts, author, mixed, tmp, src, hw>>,
             \A q \in Process : TextInv(q)'
      PROVE  IntegrityInv'
  BY <1>q DEF CopyInv, Copying
<1>p. ASSUME NEW p \in Process PROVE
       /\ CallStep(p) => IntegrityInv'
       /\ ProgramStep(p) => IntegrityInv'
       /\ WriterStep(p) => IntegrityInv'
  <2> USE DEF files, locals, writer, bounds, history, Goto
  <2>f. ASSUME NEW r, Finished(p, r), UNCHANGED <<hosts, tmp, src, hw>> PROVE IntegrityInv'
    <3>1. \A q \in Process : TextInv(q)'
      BY <2>f, FinishedText
    <3>2. QED
      BY <2>f, <3>1, <1>q DEF Finished
  (* RemoveTmp takes the file away or leaves it.                           *)
  <2>r. ASSUME NEW r, Finished(p, r), RemoveTmp(p), UNCHANGED <<hosts, src>>,
               \A q \in Process : Copying(q)' => Copying(q)
        PROVE  IntegrityInv'
    <3>1. \A q \in Process : TextInv(q)'
      BY <2>r, FinishedText
    <3>2. tmp' = NoFile \/ tmp' = tmp
      BY <2>r DEF RemoveTmp
    <3>3. \A q \in Process : CopyInv(q)'
      BY <2>r, SameCopy DEF Finished, TypeInv, TypeOK
    <3>4. QED
      BY <2>r, <3>1, <3>2, <3>3 DEF Finished
  (* A step from one label of a call to another.                           *)
  <2>g. ASSUME NEW to, pc' = [pc EXCEPT ![p] = to],
               UNCHANGED <<hosts, author, mixed, tmp, src, hw, content, domains>>,
               to \in {"tmp", "write", "close", "launch", "wait"} <=> Composing(p),
               pc[p] \notin {"backup_copy", "save_copy"}, to \notin {"backup_copy", "save_copy"},
               to \in {"idle", "dead", "save_copy"} \/ domains[p] # <<>>
        PROVE  IntegrityInv'
    <3>1. \A q \in Process : TextInv(q)'
      BY <2>g DEF TextInv, Composing, HoldsBackup, TypeInv, TypeOK
    <3>2. QED
      BY <2>g, <3>1, <1>q
  <2>l. pc[p] \notin {"idle", "dead", "save_copy"} => domains[p] # <<>>
    BY DEF TextInv
  <2>e. ASSUME EnterApply(p), UNCHANGED <<hosts, tmp, writer>>, pc[p] = "idle"
        PROVE  IntegrityInv'
    <3>1. CASE Finished(p, "failed")
      BY <2>e, <3>1, <2>f
    <3>2. CASE domains[p] # <<>> /\ pc' = [pc EXCEPT ![p] = "backup"] /\ UNCHANGED <<locals, history>>
      <4> HIDE DEF IntegrityInv, FilesInv
      <4>1. /\ pc[p] = "idle" /\ \E to \in {"backup"} : pc' = [pc EXCEPT ![p] = to]
            /\ UNCHANGED <<hosts, author, mixed, tmp, src, hw, content, domains>>
        BY <2>e, <3>2
      <4>2. QED
        BY <3>2, <4>1, <2>g DEF Composing
    <3>3. QED
      BY <2>e, <3>1, <3>2 DEF EnterApply
  (* The copy to the backup begins, and is over.                           *)
  <2>s. ASSUME StartCopy(p), NEW to \in {"backup_copy", "save_copy"}, pc' = [pc EXCEPT ![p] = to],
               UNCHANGED <<hosts, author, mixed, tmp, src, hw>>,
               to = "save_copy" \/ domains[p] # <<>>
        PROVE  IntegrityInv'
    <3>1. \A q \in Process : TextInv(q)'
      BY <2>s DEF StartCopy, TextInv, Composing, HoldsBackup, TypeInv, TypeOK
    <3>2. QED
      BY <2>s, <3>1, <1>q
  <2>b. ASSUME LeaveBackup(p), pc[p] \in {"backup", "backup_begin", "backup_copy"}
        PROVE  IntegrityInv'
    <3>1. \A q \in Process : TextInv(q)'
      BY <2>b, EmptyFile DEF LeaveBackup, TextInv, Composing, HoldsBackup, TypeInv, TypeOK
    <3>2. QED
      BY <2>b, <3>1, <1>q DEF LeaveBackup
  (* The stream of p writes.                                               *)
  <2>u. ASSUME HoldsTmp(p), NEW to \in {"close", "launch"}, pc' = [pc EXCEPT ![p] = to],
               NEW n \in pos[p]..Len(content[p]), WriteUpTo(p, n)
        PROVE  IntegrityInv'
    <3>1. UNCHANGED <<hosts, author, content, domains, src, hw>> /\ (mixed => mixed')
      BY <2>u DEF WriteUpTo
    <3>2. \A q \in Process : TextInv(q)'
      BY <2>u, <3>1 DEF TextInv, Composing, HoldsBackup, HoldsTmp, TypeInv, TypeOK
    <3>3. \A q \in Process : CopyInv(q)'
      BY <3>1, SameCopy DEF Copying, TypeInv, TypeOK
    <3>4. Composing(p) /\ tmp # NoFile
      BY <2>u DEF HoldsTmp, Composing, TypeInv, Held
    <3>5. mixed' \/ Sealed(tmp')
      BY <2>u, <3>4, WriteUpToSealed DEF TextInv
    <3>6. QED
      BY <3>1, <3>2, <3>3, <3>5
  <2>1. ASSUME NEW ds \in DomainLists, LoadDomains(p, ds) PROVE IntegrityInv'
    <3>1. \A q \in Process : TextInv(q)'
      BY <2>1 DEF LoadDomains, TextInv, Composing, HoldsBackup, TypeInv, TypeOK
    <3>2. QED
      BY <2>1, <3>1, <1>q DEF LoadDomains
  <2>2. CASE ApplyBlock(p)
    BY <2>2, <2>e DEF ApplyBlock, Call
  <2>3. CASE ReapplyBlock(p)
    <3>1. CASE Finished(p, "intact")
      BY <2>3, <3>1, <2>f DEF ReapplyBlock, Call
    <3>2. CASE EnterApply(p)
      BY <2>3, <3>2, <2>e DEF ReapplyBlock, Call
    <3>3. QED
      BY <2>3, <3>1, <3>2 DEF ReapplyBlock
  <2>4. CASE BackupHosts(p)
    <3>0. pc[p] = "idle" /\ UNCHANGED <<hosts, tmp, src, hw>>
      BY <2>4 DEF BackupHosts, Call
    <3>1. CASE Finished(p, "failed")
      BY <3>0, <3>1, <2>f
    <3>2. CASE StartCopy(p) /\ pc' = [pc EXCEPT ![p] = "save_copy"] /\ UNCHANGED history
      BY <3>0, <3>2, <2>s
    <3>3. QED
      BY <2>4, <3>1, <3>2 DEF BackupHosts
  <2>5. CASE CheckBackup(p)
    <3> HIDE DEF IntegrityInv, FilesInv
    <3>1. /\ pc[p] = "backup"
          /\ UNCHANGED <<hosts, author, mixed, tmp, src, hw, content, domains>>
          /\ \E to \in {"backup_begin", "open"} : pc' = [pc EXCEPT ![p] = to]
      BY <2>5 DEF CheckBackup
    <3>2. QED
      BY <3>1, <2>g, <2>l DEF Composing
  <2>6. CASE BeginBackup(p)
    BY <2>6, <2>s, <2>l DEF BeginBackup
  <2>6l. CASE CopyBackupLine(p)
    <3>1. \A q \in Process : TextInv(q)'
      BY <2>6l DEF CopyBackupLine, TextInv, Composing, HoldsBackup
    <3>2. QED
      BY <2>6l, <3>1, <1>q DEF CopyBackupLine
  <2>7. CASE CopyBackup(p)
    BY <2>7, <2>b DEF CopyBackup
  <2>8. CASE BackupFails(p)
    BY <2>8, <2>b DEF BackupFails
  <2>9. CASE SaveCopied(p)
    BY <2>9, <2>f DEF SaveCopied
  <2>10. CASE OpenHosts(p)
    <3> HIDE DEF IntegrityInv, FilesInv
    <3>1. /\ pc[p] = "open" /\ \E to \in {"read"} : pc' = [pc EXCEPT ![p] = to]
          /\ UNCHANGED <<hosts, author, mixed, tmp, src, hw, content, domains>>
      BY <2>10 DEF OpenHosts
    <3>2. QED
      BY <3>1, <2>g, <2>l DEF Composing
  <2>11. CASE OpenHostsFails(p)
    BY <2>11, <2>f DEF OpenHostsFails
  <2>12. CASE ReadLine(p)
    <3>1. NoMarkers(content[p]) /\ content[p] \in Seq(Line)
      BY <2>12 DEF ReadLine, TextInv, Composing, HoldsBackup, TypeInv, TypeOK
    <3>2. content'[p] = content[p] \/ (hosts[pos[p]] \notin Marker
                                       /\ content'[p] = Append(content[p], hosts[pos[p]]))
      BY <2>12 DEF ReadLine, TypeInv, TypeOK
    <3>3. NoMarkers(content'[p])
      BY <3>1, <3>2 DEF NoMarkers
    <3>4. ~Composing(p)' /\ \A q \in Process \ {p} : content'[q] = content[q]
      BY <2>12 DEF ReadLine, Composing, TypeInv, TypeOK
    <3>5. TextInv(p)'
      BY <2>12, <3>3, <3>4 DEF ReadLine, TextInv
    <3>6. \A q \in Process \ {p} : TextInv(q)'
      BY <2>12, <3>4 DEF ReadLine, TextInv, Composing, HoldsBackup
    <3>7. QED
      BY <2>12, <3>5, <3>6, <1>q DEF ReadLine
  <2>13. CASE BuildContent(p)
    <3>1. NoMarkers(content[p]) /\ content[p] \in Seq(Line)
      BY <2>13 DEF BuildContent, TextInv, Composing, HoldsBackup, TypeInv, TypeOK
    <3>2. domains[p] \in DomainLists \ {<<>>}
      BY <2>13, <2>l DEF BuildContent, TypeInv, TypeOK
    <3>3. content'[p] = Composed(content[p], domains[p])
      BY <2>13 DEF BuildContent, TypeInv, TypeOK
    <3>4. Sealed(content'[p]) /\ BlockBy(content'[p], Len(content'[p]))
      BY <3>1, <3>2, <3>3, ComposedSealed
    <3>5. TextInv(p)'
      BY <2>13, <3>2, <3>4 DEF BuildContent, TextInv, Composing, TypeInv, TypeOK
    <3>6. \A q \in Process \ {p} : TextInv(q)'
      BY <2>13 DEF BuildContent, TextInv, Composing, HoldsBackup, TypeInv, TypeOK
    <3>7. QED
      BY <2>13, <3>5, <3>6, <1>q DEF BuildContent
  <2>14. CASE OpenTmp(p)
    <3>1. \A q \in Process : TextInv(q)'
      BY <2>14 DEF OpenTmp, TextInv, Composing, HoldsBackup, TypeInv, TypeOK
    <3>2. \A q \in Process : CopyInv(q)'
      BY <2>14, SameCopy DEF OpenTmp, Copying, TypeInv, TypeOK
    <3>3. QED
      BY <2>14, <3>1, <3>2, EmptyFile DEF OpenTmp
  <2>15. CASE OpenTmpFails(p)
    BY <2>15, <2>f DEF OpenTmpFails
  <2>16. CASE WriteTmp(p)
    <3>1. PICK n \in 0..Len(content[p]) : WriteUpTo(p, n)
      BY <2>16 DEF WriteTmp
    <3>2. HoldsTmp(p) /\ pos[p] = 0
      BY <2>16 DEF WriteTmp, HoldsTmp, TypeInv, Held
    <3>3. QED
      BY <2>16, <3>1, <3>2, <2>u DEF WriteTmp
  <2>16c. CASE CloseTmp(p)
    <3>1. HoldsTmp(p) /\ Len(content[p]) \in pos[p]..Len(content[p])
      BY <2>16c DEF CloseTmp, HoldsTmp, TypeInv, TypeOK, Held
    <3>2. QED
      BY <2>16c, <3>1, <2>u DEF CloseTmp
  <2>16s. CASE WriteTmpShort(p)
    <3>1. PICK n \in pos[p]..(Len(content[p]) - 1) : WriteUpTo(p, n)
      BY <2>16s DEF WriteTmpShort
    <3>2. HoldsTmp(p) /\ n \in pos[p]..Len(content[p])
      BY <2>16s, <3>1 DEF WriteTmpShort, HoldsTmp, TypeInv, TypeOK
    <3>3. QED
      BY <2>16s, <3>1, <3>2, <2>u DEF WriteTmpShort
  <2>17. CASE WriteTmpFails(p)
    BY <2>17, <2>r DEF WriteTmpFails, Copying
  <2>18. CASE LaunchWriter(p)
    <3>1. \A q \in Process : TextInv(q)'
      BY <2>18 DEF LaunchWriter, TextInv, Composing, HoldsBackup, TypeInv, TypeOK
    <3>2. \A q \in Process : CopyInv(q)'
      BY <2>18, SameCopy DEF LaunchWriter, Copying, TypeInv, TypeOK
    <3>3. QED
      BY <2>18, <3>1, <3>2 DEF LaunchWriter
  <2>19. CASE LaunchFails(p)
    BY <2>19, <2>r DEF LaunchFails, Copying
  <2>20. CASE Finish(p)
    <3>1. \A q \in Process : Copying(q)' => Copying(q)
      BY <2>20 DEF Finish, Copying, TypeInv, TypeOK
    <3>2. QED
      BY <2>20, <3>1, <2>r DEF Finish
  <2>21. CASE HwOpen(p)
    <3>1. \A q \in Process : TextInv(q)'
      BY <2>21 DEF HwOpen, TextInv, Composing, HoldsBackup
    <3>2. hosts' = <<>> /\ Sealed(hosts') /\ (mixed \/ Sealed(tmp)) /\ tmp \in Seq(Line)
      BY <2>21, EmptyFile, FileMembers DEF HwOpen, TypeInv, TypeOK
    <3>3. src'[p] = tmp /\ \A q \in Process : Copying(q)' => q = p
      BY <2>21 DEF HwOpen, Copying, TypeInv, TypeOK
    <3>4. \A q \in Process : CopyInv(q)'
      BY <2>21, <3>2, <3>3 DEF HwOpen, CopyInv
    <3>5. QED
      BY <2>21, <3>1, <3>2, <3>4, FileMembers DEF HwOpen
  <2>22. CASE HwOpenFails(p)
    <3>1. \A q \in Process : TextInv(q)'
      BY <2>22 DEF HwOpenFails, TextInv, Composing, HoldsBackup
    <3>2. \A q \in Process : CopyInv(q)'
      BY <2>22, SameCopy DEF HwOpenFails, Copying, TypeInv, TypeOK
    <3>3. QED
      BY <2>22, <3>1, <3>2 DEF HwOpenFails
  <2>23. CASE HwCopyLine(p)
    <3>1. \A q \in Process : TextInv(q)'
      BY <2>23 DEF HwCopyLine, TextInv, Composing, HoldsBackup
    <3>2. hosts \in Seq(Line) /\ src[p] \in Seq(Line) /\ hosts' \in Seq(Line)
      BY <2>23, FileMembers DEF HwCopyLine, TypeInv, TypeOK, Held
    <3>3. CopyInv(p) /\ Copying(p)
      BY <2>23 DEF HwCopyLine
    <3>4. /\ Len(hosts') <= Len(src[p])
          /\ \A k \in 1..Len(hosts') : hosts'[k] = src[p][k]
      BY <2>23, <3>2, <3>3 DEF HwCopyLine, CopyInv
    <3>5. mixed \/ Sealed(hosts')
      BY <3>2, <3>3, <3>4, PrefixSealed DEF CopyInv
    <3>6. \A q \in Process : CopyInv(q)'
      BY <2>23, <3>3, <3>4 DEF HwCopyLine, CopyInv, Copying
    <3>7. QED
      BY <2>23, <3>1, <3>2, <3>5, <3>6, FileMembers DEF HwCopyLine
  <2>h. ASSUME NEW exit \in {"ok", "failed"}, HwEnds(p, exit) PROVE IntegrityInv'
    <3>1. \A q \in Process : TextInv(q)'
      BY <2>h DEF HwEnds, TextInv, Composing, HoldsBackup
    <3>2. \A q \in Process : Copying(q)' => Copying(q) /\ src'[q] = src[q]
      BY <2>h DEF HwEnds, Copying, TypeInv, TypeOK
    <3>3. \A q \in Process : CopyInv(q)'
      BY <2>h, <3>2 DEF HwEnds, CopyInv
    <3>4. QED
      BY <2>h, <3>1, <3>3 DEF HwEnds
  <2>24. CASE HwDone(p)
    BY <2>24, <2>h DEF HwDone
  <2>25. CASE HwCopyFails(p)
    BY <2>25, <2>h DEF HwCopyFails
  <2>26. QED
    BY <2>1, <2>2, <2>3, <2>4, <2>5, <2>6, <2>6l, <2>7, <2>8, <2>9, <2>10, <2>11, <2>12, <2>13,
       <2>14, <2>15, <2>16, <2>16c, <2>16s, <2>17, <2>18, <2>19, <2>20, <2>21, <2>22, <2>23, <2>24, <2>25
    DEF CallStep, ProgramStep, WriterStep
<1>1. CASE Environment
  <2> USE DEF files, locals, writer, bounds, history, Goto
  <2>1. ASSUME NEW p \in Process, Kill(p) PROVE IntegrityInv'
    <3>1. \A q \in Process : TextInv(q)'
      BY <2>1, EmptyFile DEF Kill, Terminated, TextInv, Composing, HoldsBackup, TypeInv, TypeOK
    <3>2. QED
      BY <2>1, <3>1, <1>q DEF Kill, Terminated
  <2>2. ASSUME NEW p \in Process, StartInstance(p) PROVE IntegrityInv'
    <3>1. \A q \in Process : TextInv(q)'
      BY <2>2 DEF StartInstance, TextInv, Composing, HoldsBackup, TypeInv, TypeOK
    <3>2. \A q \in Process : Copying(q)' => Copying(q)
      BY <2>2 DEF StartInstance, Copying, TypeInv, TypeOK
    <3>3. \A q \in Process : CopyInv(q)'
      BY <2>2, <3>2, SameCopy DEF StartInstance, TypeInv, TypeOK
    <3>4. QED
      BY <2>2, <3>1, <3>3 DEF StartInstance
  <2>3. CASE Reboot
    <3>1. \A q \in Process : TextInv(q)' /\ CopyInv(q)'
      BY <2>3, EmptyFile DEF Reboot, Terminated, TextInv, Composing, HoldsBackup, CopyInv, Copying
    <3>2. QED
      BY <2>3, <3>1 DEF Reboot, Terminated
  <2>4. ASSUME NEW f \in EditFiles, UserEdit(f) PROVE IntegrityInv'
    <3>1. \A q \in Process : TextInv(q)' /\ CopyInv(q)'
      BY <2>4 DEF UserEdit, TextInv, Composing, HoldsBackup, CopyInv, Copying
    <3>2. QED
      BY <2>4, <3>1 DEF UserEdit
  <2>5. ASSUME NEW p \in Process, Exit(p) PROVE IntegrityInv'
    <3>1. \A q \in Process : TextInv(q)'
      BY <2>5, EmptyFile DEF Exit, Terminated, TextInv, Composing, HoldsBackup, TypeInv, TypeOK
    <3>2. QED
      BY <2>5, <3>1, <1>q DEF Exit, Terminated
  <2>6. QED
    BY <1>1, <2>1, <2>2, <2>3, <2>4, <2>5 DEF Environment
<1>2. CASE UNCHANGED vars
  BY <1>2 DEF vars, files, locals, writer, bounds, history, TextInv, CopyInv, Composing, HoldsBackup, Copying
<1>3. QED
  BY <1>p, <1>1, <1>2 DEF Next

LEMMA IntegrityMeans == IntegrityInv => BlockIntegrity
<1> SUFFICES ASSUME IntegrityInv, author = "hostswriter", ~mixed, Blocked(hosts)
             PROVE  WholeBlock(hosts)
  BY DEF BlockIntegrity
<1>1. PICK j \in 1..Len(hosts) : hosts[j] = End
  BY DEF Blocked, Has
<1>2. BlockBy(hosts, j)
  BY <1>1 DEF IntegrityInv, FilesInv, Sealed
<1>3. QED
  BY <1>2 DEF BlockBy, WholeBlock

(* For any number of instances, any lists and files and every fault, that  *)
(* of losing buffered text included, until the lines of two texts stand in *)
(* the temporary file together: a hosts file that hostswriter.exe wrote    *)
(* and isBlocked accepts holds a whole block of a list that is not empty.  *)
THEOREM IntegrityHolds == Spec => []BlockIntegrity
  BY TypeInit, TypeNext, IntegrityInit, IntegrityNext, IntegrityMeans, PTL DEF Spec
==========================================================================
