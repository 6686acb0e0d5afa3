------------------------- MODULE EnforcementProof -------------------------
(***************************************************************************)
(* Blocker with one instance implements Enforcement: each step, with any   *)
(* fault but the loss of buffered text and a crash at any point, is a step *)
(* of Enforcement or a stutter.                                            *)
(***************************************************************************)
EXTENDS CallProof

(* The busy and met of the refinement mapping.                             *)
Working(p) == pc[p] \notin {"idle", "dead"} \/ Writing(p)
Met(p) == \/ hw[p] = "ok" /\ pc[p] # "dead"
          \/ Copying(p) /\ hosts = src[p]

---------------------------------------------------------------------------
(* The list that a hosts file enforces.                                    *)

LEMMA EnforcedMember ==
  ASSUME NEW f
  PROVE  EnforcedList(f) \in DomainLists \cup {<<>>}
<1>1. CASE f # NoFile /\ WholeBlock(f)
  BY <1>1 DEF EnforcedList, WholeBlock
<1>2. CASE ~(f # NoFile /\ WholeBlock(f))
  BY <1>2 DEF EnforcedList
<1>3. QED
  BY <1>1, <1>2

LEMMA NoneEnforced ==
  ASSUME NEW f, ~WholeBlock(f)
  PROVE  EnforcedList(f) = <<>>
  BY DEF EnforcedList

LEMMA NothingEnforced == EnforcedList(<<>>) = <<>>
<1>1. ~WholeBlock(<<>>)
  <2>1. \A i : i \notin 1..Len(<<>>)
    OBVIOUS
  <2>2. QED
    BY <2>1 DEF WholeBlock
<1>2. QED
  BY <1>1, NoneEnforced

LEMMA TextEnforced ==
  ASSUME NEW ds \in DomainLists \ {<<>>}, NEW f \in Seq(Line), IsText(f, ds)
  PROVE  EnforcedList(f) = ds
<1>1. ds \in Seq(Domain) /\ f # NoFile
  BY ListsAssumption, FileMembers
<1> DEFINE stands(es) == \E i \in 1..Len(f) : BlockAt(f, i, es)
<1>2. stands(ds)
  BY <1>1, TextMarkers
<1>3. ASSUME NEW es \in DomainLists \ {<<>>}, stands(es) PROVE es = ds
  BY <1>1, <1>3, ListsAssumption, OnlyBlock
<1>4. WholeBlock(f)
  BY <1>2 DEF WholeBlock
<1>5. EnforcedList(f) = CHOOSE es \in DomainLists \ {<<>>} : stands(es)
  BY <1>1, <1>4 DEF EnforcedList
<1> HIDE DEF stands
<1>6. QED
  BY <1>2, <1>3, <1>5

---------------------------------------------------------------------------
(* The steps of Enforcement, for one caller.                               *)

LEMMA AsStutter ==
  ASSUME NEW i, Process = {i}, EnforcedList(hosts)' = EnforcedList(hosts),
         Working(i)' <=> Working(i), Met(i)' <=> Met(i),
         UNCHANGED <<domains, result, edits, crashes>>
  PROVE  UNCHANGED Promise!vars
  BY DEF Promise!vars, Promise!outside, Working, Met

LEMMA AsLoad ==
  ASSUME NEW i, Process = {i}, NEW ds, domains' = [domains EXCEPT ![i] = ds],
         EnforcedList(hosts)' = EnforcedList(hosts),
         ~Working(i), ~Working(i)', ~Met(i), ~Met(i)',
         UNCHANGED <<result, edits, crashes>>
  PROVE  Promise!Load(i, ds)
  BY DEF Promise!Load, Promise!outside, Working, Met

LEMMA AsBegin ==
  ASSUME NEW i, Process = {i}, result' = [result EXCEPT ![i] = "none"],
         EnforcedList(hosts)' = EnforcedList(hosts),
         ~Working(i), Working(i)', ~Met(i), ~Met(i)',
         UNCHANGED <<domains, edits, crashes>>
  PROVE  Promise!Begin(i)
  BY DEF Promise!Begin, Promise!outside, Working, Met

LEMMA AsDrop ==
  ASSUME NEW i, Process = {i}, EnforcedList(hosts)' = <<>>,
         Working(i), Working(i)', ~Met(i), ~Met(i)',
         UNCHANGED <<domains, result, edits, crashes>>
  PROVE  Promise!Drop(i)
  BY DEF Promise!Drop, Promise!outside, Working, Met

LEMMA AsEnforce ==
  ASSUME NEW i, Process = {i}, EnforcedList(hosts)' = domains[i], domains[i] # <<>>,
         Working(i), Working(i)', ~Met(i), Met(i)',
         UNCHANGED <<domains, result, edits, crashes>>
  PROVE  Promise!Enforce(i)
  BY DEF Promise!Enforce, Promise!outside, Working, Met

LEMMA AsDoubt ==
  ASSUME NEW i, Process = {i}, EnforcedList(hosts)' = EnforcedList(hosts),
         Working(i), Met(i), ~Met(i)',
         UNCHANGED <<domains, result, edits, crashes>>
  PROVE  Promise!Doubt(i)
<1>1. PICK left \in BOOLEAN : left <=> Working(i)'
  OBVIOUS
<1>2. QED
  BY <1>1 DEF Promise!Doubt, Promise!outside, Working, Met

LEMMA AsSucceed ==
  ASSUME NEW i, Process = {i}, EnforcedList(hosts)' = EnforcedList(hosts),
         Working(i), ~Working(i)', Met(i), ~Met(i)',
         result' = [result EXCEPT ![i] = "applied"],
         UNCHANGED <<domains, edits, crashes>>
  PROVE  Promise!Succeed(i)
  BY DEF Promise!Succeed, Promise!outside, Working, Met

LEMMA AsReturnOther ==
  ASSUME NEW i, Process = {i}, EnforcedList(hosts)' = EnforcedList(hosts),
         ~Working(i)', ~Met(i), ~Met(i)',
         NEW r, r # "applied", result' = [result EXCEPT ![i] = r],
         UNCHANGED <<domains, edits, crashes>>
  PROVE  Promise!ReturnOther(i, r)
  BY DEF Promise!ReturnOther, Promise!outside, Working, Met

LEMMA AsCrash ==
  ASSUME NEW i, Process = {i}, EnforcedList(hosts)' = EnforcedList(hosts),
         Met(i)' => Met(i), crashes' = crashes + 1,
         result' = [result EXCEPT ![i] = "none"], UNCHANGED <<domains, edits>>
  PROVE  Promise!Crash(i)
<1>1. PICK left \in BOOLEAN : left <=> Working(i)'
  OBVIOUS
<1>2. CASE Met(i)' <=> Met(i)
  BY <1>1, <1>2 DEF Promise!Crash, Promise!outside, Working, Met
<1>3. CASE ~Met(i)'
  BY <1>1, <1>3 DEF Promise!Crash, Promise!outside, Working, Met
<1>4. QED
  BY <1>2, <1>3

LEMMA AsTamper ==
  ASSUME NEW i, Process = {i}, Working(i)' <=> Working(i), Met(i)' <=> Met(i),
         edits' = edits + 1, UNCHANGED <<domains, result, crashes>>
  PROVE  Promise!Tamper
  BY EnforcedMember DEF Promise!Tamper, Promise!outside, Working, Met

---------------------------------------------------------------------------
(* What a killed caller was told is lost with it.                          *)
DeadInv == \A p \in Process : pc[p] = "dead" => result[p] = "none"

LEMMA DeadInit == Init => DeadInv
  BY DEF Init, DeadInv

LEMMA DeadNext ==
  ASSUME NEW i, Process = {i}, OneInv, DeadInv, [Next]_vars
  PROVE  DeadInv'
<1>t. TypeOK /\ CallInv(i) /\ i \in Process
  BY DEF OneInv, TypeInv
<1> SUFFICES ASSUME pc'[i] = "dead" PROVE result'[i] = "none"
  BY DEF DeadInv
<1> USE DEF history
<1>1. CASE CallStep(i) \/ ProgramStep(i)
  BY <1>1, <1>t, CallAlive
<1>2. CASE WriterStep(i)
  <2>1. UNCHANGED <<pc, result>>
    BY <1>2 DEF WriterStep, HwOpen, HwOpenFails, HwCopyLine, HwDone, HwCopyFails, HwEnds
  <2>2. QED
    BY <2>1 DEF DeadInv
<1>3. CASE Environment
  <2>1. ~StartInstance(i)
    BY <1>t DEF StartInstance, Goto, TypeOK
  <2>2. ASSUME Terminated({i}) \/ Terminated(Process) PROVE result'[i] = "none"
    BY <2>2, <1>t DEF Terminated
  <2>3. ASSUME NEW f \in EditFiles, UserEdit(f) PROVE UNCHANGED <<pc, result>>
    BY <2>3 DEF UserEdit
  <2>4. QED
    BY <1>3, <2>1, <2>2, <2>3 DEF Environment, Exit, Kill, Reboot, DeadInv
<1>4. CASE UNCHANGED vars
  BY <1>4 DEF vars, DeadInv
<1>5. QED
  BY <1>1, <1>2, <1>3, <1>4 DEF Next

---------------------------------------------------------------------------
(* The mapping of the steps.                                               *)

(* The part of OneInv that the mapping reads.                              *)
LEMMA WriterFacts ==
  ASSUME NEW i, Process = {i}, OneInv, Writing(i) \/ hw[i] = "ok"
  PROVE  pc[i] \in {"wait", "dead"}
  BY DEF OneInv, CallInv, Writing

LEMMA CopyFacts ==
  ASSUME NEW i, Process = {i}, OneInv, Copying(i)
  PROVE  /\ domains[i] \in DomainLists \ {<<>>}
         /\ src[i] \in Seq(Line) /\ hosts \in Seq(Line)
         /\ hosts = src[i] => EnforcedList(hosts) = domains[i]
         /\ Len(hosts) < Len(src[i]) => EnforcedList(hosts) = <<>>
<1>1. /\ domains[i] \in DomainLists \ {<<>>} /\ IsText(src[i], domains[i])
      /\ src[i] \in Seq(Line) /\ hosts \in Seq(Line)
      /\ \A k \in 1..Len(hosts) : hosts[k] = src[i][k]
  BY FileMembers DEF OneInv, TypeInv, TypeOK, Held, CallInv, Writing, Copying
<1>2. domains[i] \in Seq(Domain)
  BY <1>1, ListsAssumption
<1>3. Len(hosts) < Len(src[i]) => ~WholeBlock(hosts)
  BY <1>1, <1>2, NoEndYet
<1>4. QED
  BY <1>1, <1>3, NoneEnforced, TextEnforced

LEMMA CallMapped ==
  ASSUME NEW i, Process = {i}, OneInv, CallStep(i)
  PROVE  \/ \E ds \in DomainLists : Promise!Load(i, ds)
         \/ Promise!Begin(i)
         \/ \E r \in {"failed", "intact"} : Promise!ReturnOther(i, r)
<1>t. TypeOK /\ i \in Process
  BY DEF OneInv, TypeInv
<1>1. pc[i] = "idle" /\ UNCHANGED <<hosts, hw, src, edits, crashes>>
  <2>1. UNCHANGED <<hosts, edits, crashes>>
    BY <1>t, CallLocal
  <2>2. pc[i] = "idle" /\ UNCHANGED <<hw, src>>
    BY DEF CallStep, LoadDomains, ApplyBlock, ReapplyBlock, BackupHosts, Call, writer
  <2>3. QED
    BY <2>1, <2>2
<1>2. ~Working(i) /\ ~Met(i) /\ ~Met(i)' /\ ~Writing(i)'
  BY <1>1, WriterFacts DEF Working, Met, Copying, Writing
<1>3. ASSUME NEW r \in {"failed", "intact"}, Finished(i, r) PROVE Promise!ReturnOther(i, r)
  <2>1. pc'[i] = "idle" /\ result' = [result EXCEPT ![i] = r] /\ domains' = domains
    BY <1>3, <1>t DEF Finished, TypeOK
  <2>2. QED
    BY <2>1, <1>1, <1>2, AsReturnOther DEF Working
<1>4. ASSUME NEW to \in {"backup", "save_copy"}, pc' = [pc EXCEPT ![i] = to],
             result' = [result EXCEPT ![i] = "none"], domains' = domains
      PROVE  Promise!Begin(i)
  <2>1. Working(i)'
    BY <1>4, <1>t DEF Working, TypeOK
  <2>2. QED
    BY <2>1, <1>1, <1>2, <1>4, AsBegin
<1>5. ASSUME NEW ds \in DomainLists, LoadDomains(i, ds) PROVE Promise!Load(i, ds)
  <2>1. domains' = [domains EXCEPT ![i] = ds] /\ UNCHANGED <<pc, result>>
    BY <1>5 DEF LoadDomains
  <2>2. QED
    BY <2>1, <1>1, <1>2, AsLoad DEF Working
<1>6. CASE ApplyBlock(i)
  BY <1>6, <1>3, <1>4 DEF ApplyBlock, EnterApply, locals
<1>7. CASE ReapplyBlock(i)
  BY <1>7, <1>3, <1>4 DEF ReapplyBlock, EnterApply, locals
<1>8. CASE BackupHosts(i)
  BY <1>8, <1>3, <1>4 DEF BackupHosts, StartCopy
<1>9. QED
  BY <1>5, <1>6, <1>7, <1>8 DEF CallStep

LEMMA ProgramMapped ==
  ASSUME NEW i, Process = {i}, OneInv, ProgramStep(i)
  PROVE  \/ UNCHANGED Promise!vars
         \/ \E r \in {"failed", "saved"} : Promise!ReturnOther(i, r)
         \/ Promise!Succeed(i)
<1>t. TypeOK /\ i \in Process
  BY DEF OneInv, TypeInv
<1>1. UNCHANGED <<hosts, edits, crashes>>
  BY <1>t, CallLocal
(* The call goes on.                                                       *)
<1>2. ASSUME pc[i] \notin {"idle", "dead", "wait"},
             pc'[i] \notin {"idle", "dead"}, hw' = hw \/ hw'[i] = "start",
             UNCHANGED <<domains, result, src>>
      PROVE  UNCHANGED Promise!vars
  <2>1. Working(i) /\ Working(i)' /\ ~Met(i) /\ ~Met(i)'
    BY <1>2, WriterFacts DEF Working, Met, Copying, Writing
  <2>2. QED
    BY <2>1, <1>1, <1>2, AsStutter
(* It returns without a success.                                           *)
<1>3. ASSUME pc[i] # "dead", pc[i] = "wait" => hw[i] = "failed",
             NEW r \in {"failed", "saved"}, Finished(i, r),
             hw' = hw \/ hw'[i] = "none"
      PROVE  Promise!ReturnOther(i, r)
  <2>1. pc'[i] = "idle" /\ result' = [result EXCEPT ![i] = r] /\ domains' = domains
    BY <1>3, <1>t DEF Finished, TypeOK
  <2>2. ~Writing(i) /\ hw[i] # "ok"
    BY <1>3, WriterFacts DEF Writing
  <2>3. ~Met(i) /\ ~Met(i)' /\ ~Working(i)'
    BY <2>1, <2>2, <1>3 DEF Working, Met, Copying, Writing
  <2>4. QED
    BY <2>1, <2>3, <1>1, AsReturnOther
<1> USE DEF Goto, files, locals, writer, history
<1>4. CASE CheckBackup(i) \/ BeginBackup(i)
  BY <1>4, <1>2, <1>t DEF CheckBackup, BeginBackup, StartCopy, TypeOK
<1>4l. CASE CopyBackupLine(i)
  BY <1>4l, <1>2, <1>t DEF CopyBackupLine, HoldsBackup, TypeOK
<1>5. CASE CopyBackup(i) \/ BackupFails(i)
  BY <1>5, <1>2, <1>t DEF CopyBackup, BackupFails, LeaveBackup, TypeOK
<1>6. CASE OpenHosts(i) \/ ReadLine(i) \/ BuildContent(i)
  BY <1>6, <1>2, <1>t DEF OpenHosts, ReadLine, BuildContent, TypeOK
<1>7. CASE OpenTmp(i) \/ LaunchWriter(i)
  BY <1>7, <1>2, <1>t DEF OpenTmp, LaunchWriter, TypeOK
<1>7w. CASE WriteTmp(i) \/ CloseTmp(i) \/ WriteTmpShort(i)
  BY <1>7w, <1>2, <1>t DEF WriteTmp, CloseTmp, WriteTmpShort, WriteUpTo, TypeOK
<1>8. CASE SaveCopied(i) \/ OpenHostsFails(i) \/ OpenTmpFails(i) \/ WriteTmpFails(i)
           \/ LaunchFails(i)
  BY <1>8, <1>3 DEF SaveCopied, OpenHostsFails, OpenTmpFails, WriteTmpFails, LaunchFails, HoldsTmp
<1>9. CASE Finish(i)
  <2>1. /\ pc[i] = "wait" /\ hw[i] \in {"ok", "failed"} /\ hw'[i] = "none"
        /\ Finished(i, IF hw[i] = "ok" /\ hosts # NoFile THEN "applied" ELSE "failed")
    BY <1>9, <1>t DEF Finish, TypeOK
  <2>2. CASE hw[i] = "failed"
    <3>1. Finished(i, "failed")
      BY <2>1, <2>2
    <3>2. QED
      BY <3>1, <2>1, <2>2, <1>3
  <2>3. CASE hw[i] = "ok"
    <3>1. hosts # NoFile
      BY <2>1, <1>t DEF OneInv, TypeInv, Held, HoldsHosts
    <3>2. Finished(i, "applied")
      BY <2>1, <2>3, <3>1
    <3>3. pc'[i] = "idle" /\ result' = [result EXCEPT ![i] = "applied"] /\ domains' = domains
      BY <3>2, <1>t DEF Finished, TypeOK
    <3>4. Working(i) /\ ~Working(i)' /\ Met(i) /\ ~Met(i)'
      BY <2>1, <2>3, <3>3 DEF Working, Met, Copying, Writing
    <3>5. QED
      BY <3>3, <3>4, <1>1, AsSucceed
  <2>4. QED
    BY <2>1, <2>2, <2>3
<1>10. QED
  BY <1>4, <1>4l, <1>5, <1>6, <1>7, <1>7w, <1>8, <1>9 DEF ProgramStep

LEMMA WriterMapped ==
  ASSUME NEW i, Process = {i}, OneInv, DeadInv, WriterStep(i)
  PROVE  \/ UNCHANGED Promise!vars
         \/ Promise!ReturnOther(i, "none")
         \/ Promise!Drop(i) \/ Promise!Enforce(i) \/ Promise!Doubt(i)
<1>t. TypeOK /\ i \in Process
  BY DEF OneInv, TypeInv
<1>1. Writing(i) /\ pc[i] \in {"wait", "dead"} /\ UNCHANGED <<pc, domains, result, edits, crashes>>
  <2>1. Writing(i) /\ UNCHANGED <<pc, domains, result, edits, crashes>>
    BY DEF WriterStep, HwOpen, HwOpenFails, HwCopyLine, HwDone, HwCopyFails, HwEnds,
       Writing, Copying, locals, bounds
  <2>2. QED
    BY <2>1, WriterFacts
<1>w. Working(i)
  BY <1>1 DEF Working
<1> USE DEF files, writer
(* It ends before the whole list stood in the hosts file.                  *)
<1>2. ASSUME ~Met(i), ~Met(i)', ~Writing(i)', hosts' = hosts
      PROVE  UNCHANGED Promise!vars \/ Promise!ReturnOther(i, "none")
  <2>1. CASE pc[i] = "wait"
    <3>1. Working(i)'
      BY <2>1, <1>1 DEF Working
    <3>2. QED
      BY <3>1, <1>1, <1>2, <1>w, AsStutter
  <2>2. CASE pc[i] = "dead"
    <3>1. ~Working(i)'
      BY <2>2, <1>1, <1>2 DEF Working
    <3>2. result' = [result EXCEPT ![i] = "none"]
      BY <2>2, <1>1, <1>t DEF DeadInv, TypeOK
    <3>3. QED
      BY <3>1, <3>2, <1>1, <1>2, AsReturnOther
  <2>3. QED
    BY <1>1, <2>1, <2>2
<1>3. CASE HwOpen(i)
  <2>1. hw[i] = "start" /\ hw'[i] = "copy" /\ src'[i] = tmp /\ hosts' = <<>> /\ tmp # NoFile
    BY <1>3, <1>t DEF HwOpen, TypeOK
  <2>2. IsText(tmp, domains[i]) /\ domains[i] # <<>>
    BY <2>1 DEF OneInv, CallInv, Writing
  <2>3. tmp # <<>>
    <3>1. \A n \in 0..Len(<<>>) : n = 0 /\ Len(<<>>) = 0
      OBVIOUS
    <3>2. domains[i] \in Seq(Domain)
      BY <2>2, <1>t, ListsAssumption DEF TypeOK
    <3>3. QED
      BY <2>2, <3>1, <3>2 DEF IsText
  <2>4. ~Met(i) /\ ~Met(i)' /\ Working(i)'
    BY <2>1, <2>3 DEF Met, Working, Copying, Writing
  <2>5. EnforcedList(hosts)' = <<>>
    BY <2>1, NothingEnforced
  <2>6. QED
    BY <2>4, <2>5, <1>1, <1>w, AsDrop
<1>4. CASE HwOpenFails(i)
  <2>1. hw[i] = "start" /\ hw'[i] = "failed" /\ hosts' = hosts
    BY <1>4, <1>t DEF HwOpenFails, TypeOK
  <2>2. QED
    BY <2>1, <1>2 DEF Met, Copying, Writing
<1>5. CASE HwCopyLine(i)
  <2>1. /\ Copying(i) /\ Copying(i)' /\ src' = src /\ hw' = hw /\ Len(hosts) < Len(src[i])
        /\ hosts' = Append(hosts, src[i][Len(hosts) + 1])
    BY <1>5 DEF HwCopyLine, Copying
  <2>2. /\ domains[i] \in DomainLists \ {<<>>} /\ src[i] \in Seq(Line) /\ hosts \in Seq(Line)
        /\ EnforcedList(hosts) = <<>>
    BY <2>1, CopyFacts
  <2>3. hosts # src[i] /\ hw[i] = "copy" /\ hw'[i] = "copy"
    BY <2>1, <2>2 DEF Copying
  <2>4. ~Met(i) /\ Working(i)'
    BY <2>1, <2>3 DEF Met, Working, Writing
  <2>5. /\ hosts' \in Seq(Line) /\ Len(hosts') <= Len(src[i])
        /\ \A k \in 1..Len(hosts') : hosts'[k] = src[i][k]
        /\ IsText(src[i], domains[i])
    <3>1. \A k \in 1..Len(hosts) : hosts[k] = src[i][k]
      BY <2>1 DEF OneInv, CallInv
    <3>2. src[i][Len(hosts) + 1] \in Line
      BY <2>1, <2>2
    <3>3. QED
      BY <2>1, <2>2, <3>1, <3>2 DEF OneInv, CallInv
  <2>6. domains[i] \in Seq(Domain)
    BY <2>2, ListsAssumption
  <2>7. CASE Len(hosts') < Len(src[i])
    <3>1. ~WholeBlock(hosts')
      BY <2>2, <2>5, <2>6, <2>7, NoEndYet
    <3>2. EnforcedList(hosts)' = <<>>
      BY <3>1, NoneEnforced
    <3>3. ~Met(i)'
      BY <2>1, <2>3, <2>7 DEF Met
    <3>4. QED
      BY <3>2, <3>3, <2>4, <1>1, <1>w, AsDrop
  <2>8. CASE Len(hosts') = Len(src[i])
    <3>1. hosts' = src[i]
      BY <2>2, <2>5, <2>8
    <3>2. EnforcedList(hosts)' = domains[i]
      BY <3>1, <2>2, <2>5, TextEnforced
    <3>3. Met(i)'
      BY <3>1, <2>1 DEF Met
    <3>4. QED
      BY <3>2, <3>3, <2>2, <2>4, <1>1, <1>w, AsEnforce
  <2>9. QED
    BY <2>2, <2>5, <2>7, <2>8
<1>6. CASE HwDone(i)
  <2>1. /\ Copying(i) /\ hw[i] = "copy" /\ Len(hosts) = Len(src[i]) /\ hw'[i] = "ok"
        /\ hosts' = hosts
    BY <1>6, <1>t DEF HwDone, HwEnds, Copying, TypeOK
  <2>2. Met(i)
    <3>1. hosts = src[i]
      BY <2>1, CopyFacts DEF OneInv, CallInv
    <3>2. QED
      BY <3>1, <2>1 DEF Met
  <2>3. CASE pc[i] = "wait"
    <3>1. Met(i)' /\ Working(i)'
      BY <2>1, <2>3, <1>1 DEF Met, Working
    <3>2. QED
      BY <3>1, <2>1, <2>2, <1>1, <1>w, AsStutter
  <2>4. CASE pc[i] = "dead"
    <3>1. ~Met(i)'
      BY <2>1, <2>4, <1>1 DEF Met, Copying
    <3>2. QED
      BY <3>1, <2>1, <2>2, <1>1, <1>w, AsDoubt
  <2>5. QED
    BY <1>1, <2>3, <2>4
<1>7. CASE HwCopyFails(i)
  <2>1. hw[i] = "copy" /\ hw'[i] = "failed" /\ hosts' = hosts
    BY <1>7, <1>t DEF HwCopyFails, HwEnds, Copying, TypeOK
  <2>2. ~Met(i)' /\ ~Writing(i)'
    BY <2>1 DEF Met, Copying, Writing
  <2>3. CASE Met(i)
    BY <2>1, <2>2, <2>3, <1>1, <1>w, AsDoubt
  <2>4. CASE ~Met(i)
    BY <2>1, <2>2, <2>4, <1>2
  <2>5. QED
    BY <2>3, <2>4
<1>8. QED
  BY <1>3, <1>4, <1>5, <1>6, <1>7 DEF WriterStep

LEMMA EnvironmentMapped ==
  ASSUME NEW i, Process = {i}, OneInv, Environment
  PROVE  \/ Promise!Load(i, <<>>) \/ Promise!ReturnOther(i, "none")
         \/ Promise!Crash(i) \/ Promise!Tamper
<1>t. TypeOK /\ i \in Process
  BY DEF OneInv, TypeInv
<1> USE DEF files, locals, writer, bounds, history
<1>1. CASE StartInstance(i)
  <2>1. /\ ~Writing(i) /\ pc[i] = "dead" /\ pc'[i] = "idle" /\ hw'[i] = "none"
        /\ domains' = [domains EXCEPT ![i] = <<>>]
        /\ UNCHANGED <<hosts, result, edits, crashes>>
    BY <1>1, <1>t DEF StartInstance, Goto, TypeOK
  <2>2. ~Working(i) /\ ~Working(i)' /\ ~Met(i) /\ ~Met(i)'
    BY <2>1 DEF Working, Met, Copying, Writing
  <2>3. QED
    BY <2>1, <2>2, AsLoad
<1>e. ASSUME Terminated({i}) \/ Terminated(Process)
      PROVE  pc'[i] = "dead" /\ result' = [result EXCEPT ![i] = "none"] /\ domains' = domains
  BY <1>e, <1>t DEF Terminated, TypeOK
<1>2. CASE Exit(i)
  <2>1. pc[i] = "idle" /\ Terminated({i}) /\ UNCHANGED <<hosts, hw, src, edits, crashes>>
    BY <1>2 DEF Exit
  <2>2. ~Writing(i) /\ hw[i] # "ok"
    BY <2>1, WriterFacts
  <2>3. ~Met(i) /\ ~Met(i)' /\ ~Working(i)'
    BY <2>1, <2>2, <1>e DEF Working, Met, Copying, Writing
  <2>4. QED
    BY <2>1, <2>3, <1>e, AsReturnOther
<1>3. CASE Kill(i)
  <2>1. Terminated({i}) /\ UNCHANGED <<hosts, hw, src, edits>> /\ crashes' = crashes + 1
    BY <1>3 DEF Kill, Crash
  <2>2. Met(i)' => Met(i)
    BY <2>1, <1>e DEF Met, Copying
  <2>3. QED
    BY <2>1, <2>2, <1>e, AsCrash
<1>4. CASE Reboot
  <2>1. Terminated(Process) /\ UNCHANGED <<hosts, edits>> /\ crashes' = crashes + 1
        /\ hw'[i] = "none"
    BY <1>4, <1>t DEF Reboot, Crash
  <2>2. ~Met(i)'
    BY <2>1 DEF Met, Copying
  <2>3. QED
    BY <2>1, <2>2, <1>e, AsCrash
<1>5. ASSUME NEW f \in EditFiles, UserEdit(f) PROVE Promise!Tamper
  <2>1. ~Copying(i) /\ edits' = edits + 1 /\ UNCHANGED <<pc, hw, domains, result, crashes>>
    BY <1>5, <1>t DEF UserEdit
  <2>2. (Working(i)' <=> Working(i)) /\ (Met(i)' <=> Met(i))
    BY <2>1 DEF Working, Met, Copying, Writing
  <2>3. QED
    BY <2>1, <2>2, AsTamper
<1>6. QED
  BY <1>1, <1>2, <1>3, <1>4, <1>5 DEF Environment

---------------------------------------------------------------------------
LEMMA PromiseInit ==
  Init => Promise!Init
  BY EnforcedMember DEF Init, Promise!Init, Writing, Copying

LEMMA PromiseNext ==
  ASSUME NEW i, Process = {i}, OneInv, DeadInv, [Next]_vars
  PROVE  [Promise!Next]_(Promise!vars)
<1>1. CASE CallStep(i)
  BY <1>1, CallMapped DEF Promise!Next
<1>2. CASE ProgramStep(i)
  BY <1>2, ProgramMapped DEF Promise!Next
<1>3. CASE WriterStep(i)
  BY <1>3, WriterMapped DEF Promise!Next
<1>4. CASE Environment
  BY <1>4, EnvironmentMapped DEF Promise!Next
<1>5. CASE UNCHANGED vars
  BY <1>5 DEF vars, files, locals, writer, bounds, Promise!vars, Promise!outside, Writing, Copying
<1>6. QED
  BY <1>1, <1>2, <1>3, <1>4, <1>5 DEF Next

(* One instance of Blocker implements Enforcement, for any lists, files    *)
(* and edits, with crashes anywhere and any faults but the loss of         *)
(* buffered text: between two lists nothing but none is enforced, what is  *)
(* enforced is the whole list of the caller, and a call reports success    *)
(* only after it was.                                                      *)
THEOREM ImplementationHolds ==
  ASSUME "flush" \notin Faults, NEW i, Process = {i}
  PROVE  Spec => ImplementsEnforcement
<1>1. OneInv /\ [Next]_vars => OneInv'
  BY OneNext
<1>2. OneInv /\ DeadInv /\ [Next]_vars => DeadInv'
  BY DeadNext
<1>3. OneInv /\ DeadInv /\ [Next]_vars => [Promise!Next]_(Promise!vars)
  BY PromiseNext
<1>4. QED
  BY OneInit, DeadInit, PromiseInit, <1>1, <1>2, <1>3, PTL
  DEF Spec, ImplementsEnforcement, Promise!Spec
==========================================================================
