----------------------------- MODULE PathUtil -----------------------------
(***************************************************************************)
(* PathUtil::EnsureDirectoryExists, WriteFile and ReadFile                 *)
(* (src/src/utils/path.cpp) on one path, called by any number of           *)
(* processes; the repository declares them for all its parts and does not  *)
(* call them yet.  Text is a sequence of pieces, written one by one; a     *)
(* gap that another writer's truncation leaves is filled with 0.           *)
(*                                                                         *)
(* Of Windows: an open file can be truncated and written by others, but    *)
(* neither removed nor replaced; ReplaceFileW needs both files.            *)
(***************************************************************************)
EXTENDS Integers, Sequences, FiniteSets

CONSTANTS
  Caller,          \* processes
  Data,            \* what they write
  InitialData,     \* what the file can hold at first; NoFile: it is not there
  NoFile,
  MaxAttempts,     \* MAX_DIR_CREATION_ATTEMPTS: 3 in the source
  PathFaults,      \* what can fail: see each use
  MaxPathCalls,    \* bound: calls
  MaxPathCrashes   \* bound: killed processes

ASSUME DataAssumption == \A d \in Data : d \in Seq(Nat \ {0})
ASSUME InitialAssumption == NoFile \notin Seq(Nat) /\ InitialData \subseteq Seq(Nat) \cup {NoFile}
ASSUME AttemptsAssumption == MaxAttempts \in Nat \ {0}

VARIABLES
  dir,             \* what stands under the name of the directory
  file, temp,      \* the file and full_path + ".tmp"
  call,            \* stage and locals of the call of each process
  made, killed,    \* calls, killed processes
  shared,          \* observed: two calls of WriteFile were ever at work together
  aborted          \* observed: processes that an exception in a noexcept function ended

disk == <<dir, file, temp>>
pathBounds == <<made, killed>>
pathSeen == <<shared, aborted>>
pathVars == <<disk, call, pathBounds, pathSeen>>

WriteStages == {"open", "write", "replace", "protect", "clean", "handler"}
PathStages == WriteStages \cup {"idle", "dead", "size", "open_read", "read", "create"}

(* Locals: the argument of WriteFile and the pieces of it written, the     *)
(* size and the text that ReadFile got, the attempt; what the last call    *)
(* returned; and, observed only, the file as the call began.               *)
Idle == [stage |-> "idle", data |-> <<>>, written |-> 0, size |-> 0, got |-> <<>>,
         tries |-> 0, answer |-> "none", found |-> NoFile]

PathInit ==
  /\ dir \in {"none", "file", "directory"}
  /\ file \in InitialData /\ (dir # "directory" => file = NoFile)
  /\ temp = NoFile
  /\ call = [p \in Caller |-> Idle]
  /\ made = 0 /\ killed = 0 /\ shared = FALSE /\ aborted = {}

In(p, stages) == call[p].stage \in stages
Become(p, locals) == call' = [call EXCEPT ![p] = locals] /\ UNCHANGED <<pathBounds, pathSeen>>
Go(p, to) == Become(p, [call[p] EXCEPT !.stage = to])
Return(p, r) == Become(p, [Idle EXCEPT !.answer = r])

Begin(p, locals) ==
  /\ In(p, {"idle"}) /\ made < MaxPathCalls
  /\ made' = made + 1
  /\ call' = [call EXCEPT ![p] = locals]
  /\ UNCHANGED <<disk, killed, aborted>>

---------------------------------------------------------------------------
(* EnsureDirectoryExists                                                   *)

EnsureDirectoryExists(p) == Begin(p, [Idle EXCEPT !.stage = "create"]) /\ UNCHANGED shared

(* create_directories makes the directory; or says without an error that   *)
(* it made none, because it is there; or fails because a file has its      *)
(* name.  Fault "create": any other error.                                 *)
CreateDirectory(p) ==
  /\ In(p, {"create"})
  /\ \/ dir = "none" /\ dir' = "directory" /\ Return(p, "true")
     \/ dir = "file" /\ UNCHANGED dir /\ Return(p, "true")
     \/ (dir = "directory" \/ "create" \in PathFaults) /\ UNCHANGED dir /\ Return(p, "false")
  /\ UNCHANGED <<file, temp>>

(* Faulty: one attempt too many.                                           *)
DirectoryBusyOnceMore(p) ==
  /\ In(p, {"create"}) /\ "busy" \in PathFaults
  /\ IF call[p].tries < MaxAttempts
       THEN Become(p, [call[p] EXCEPT !.tries = @ + 1]) ELSE Return(p, "false")
  /\ UNCHANGED disk

(* Fault "busy": an error that may pass.                                   *)
DirectoryBusy(p) ==
  /\ In(p, {"create"}) /\ "busy" \in PathFaults
  /\ IF call[p].tries + 1 < MaxAttempts
       THEN Become(p, [call[p] EXCEPT !.tries = @ + 1]) ELSE Return(p, "false")
  /\ UNCHANGED disk

---------------------------------------------------------------------------
(* WriteFile                                                               *)

WriteFile(p, d) ==
  /\ Begin(p, [Idle EXCEPT !.stage = "open", !.data = d, !.found = file])
  /\ shared' = (shared \/ \E q \in Caller \ {p} : In(q, WriteStages))

(* Another writer has the temporary file open.                             *)
InUse(p) == \E q \in Caller \ {p} : In(q, {"write"})

OpenTemp(p) ==
  /\ In(p, {"open"})
  /\ \/ dir = "directory" /\ temp' = <<>> /\ Go(p, "write")
     \/ (dir # "directory" \/ "open" \in PathFaults) /\ UNCHANGED temp /\ Return(p, "false")
  /\ UNCHANGED <<dir, file>>

(* Piece n of text put in its place in f.                                  *)
Put(f, text, n) ==
  [i \in 1..(IF n > Len(f) THEN n ELSE Len(f)) |->
     IF i = n THEN text[i] ELSE IF i <= Len(f) THEN f[i] ELSE 0]

Unwritten(p) == In(p, {"write"}) /\ call[p].written < Len(call[p].data)

(* Faulty: the file itself is written.                                     *)
WriteInPlace(p) ==
  /\ Unwritten(p) /\ file # NoFile
  /\ LET n == call[p].written + 1 IN
       /\ file' = Put(IF n = 1 THEN <<>> ELSE file, call[p].data, n)
       /\ Become(p, [call[p] EXCEPT !.written = n])
  /\ UNCHANGED <<dir, temp>>

WritePiece(p) ==
  /\ Unwritten(p)
  /\ LET n == call[p].written + 1 IN
       /\ temp' = Put(temp, call[p].data, n)
       /\ Become(p, [call[p] EXCEPT !.written = n])
  /\ UNCHANGED <<dir, file>>

(* The stream is closed by its destructor.  Fault "flush": what it still   *)
(* holds is lost, unnoticed.                                               *)
CloseTemp(p) ==
  /\ In(p, {"write"})
  /\ ~Unwritten(p) \/ "flush" \in PathFaults
  /\ Go(p, "replace") /\ UNCHANGED disk

(* Fault "write": the stream throws.                                       *)
WriteThrows(p) ==
  In(p, {"write"}) /\ "write" \in PathFaults /\ Go(p, "handler") /\ UNCHANGED disk

Replaceable(p) ==
  file # NoFile /\ temp # NoFile /\ ~InUse(p) /\ \A q \in Caller : ~In(q, {"read"})

(* Faulty: what ReplaceFileW returns is not looked at.                     *)
ReplaceUnchecked(p) ==
  /\ In(p, {"replace"})
  /\ IF Replaceable(p) THEN file' = temp /\ temp' = NoFile ELSE UNCHANGED <<file, temp>>
  /\ Go(p, "protect") /\ UNCHANGED dir

Replace(p) ==
  /\ In(p, {"replace"}) /\ Replaceable(p)
  /\ file' = temp /\ temp' = NoFile
  /\ Go(p, "protect") /\ UNCHANGED dir

(* Fault "replace": ReplaceFileW fails for another reason.                 *)
ReplaceFails(p) ==
  /\ In(p, {"replace"})
  /\ "replace" \in PathFaults \/ ~Replaceable(p)
  /\ Go(p, "clean") /\ UNCHANGED disk

(* Fault "lose": it fails when it has moved the old file away and cannot   *)
(* move the new one in its place; the call names no file for a backup, so  *)
(* the old one is gone.                                                    *)
ReplaceLoses(p) ==
  /\ In(p, {"replace"}) /\ Replaceable(p)
  /\ "lose" \in PathFaults
  /\ file' = NoFile
  /\ Go(p, "clean") /\ UNCHANGED <<dir, temp>>

(* fs::permissions.  Fault "protect": it throws, after the file was        *)
(* replaced.                                                               *)
Protect(p) ==
  /\ In(p, {"protect"})
  /\ Return(p, "true") \/ ("protect" \in PathFaults /\ Go(p, "handler"))
  /\ UNCHANGED disk

(* Faulty: the temporary file is left where it is.                         *)
CleanNothing(p) == In(p, {"clean"}) /\ Return(p, "false") /\ UNCHANGED disk

(* fs::remove after a failure throws where another writer has the file     *)
(* open, and the handler of line 134 removes again.                        *)
Clean(p) ==
  /\ In(p, {"clean"})
  /\ IF InUse(p) THEN UNCHANGED temp /\ Go(p, "handler")
                 ELSE temp' = NoFile /\ Return(p, "false")
  /\ UNCHANGED <<dir, file>>

(* An exception in the handler leaves the function, which is noexcept.     *)
Handler(p) ==
  /\ In(p, {"handler"})
  /\ IF InUse(p)
       THEN /\ call' = [call EXCEPT ![p] = [Idle EXCEPT !.stage = "dead"]]
            /\ aborted' = aborted \cup {p}
            /\ UNCHANGED <<temp, pathBounds, shared>>
       ELSE temp' = NoFile /\ Return(p, "false")
  /\ UNCHANGED <<dir, file>>

---------------------------------------------------------------------------
(* ReadFile.  The size is asked for before the file is opened; a file that *)
(* became shorter throws.                                                  *)

ReadFile(p) == Begin(p, [Idle EXCEPT !.stage = "size"]) /\ UNCHANGED shared

TakeSize(p) ==
  /\ In(p, {"size"})
  /\ IF file = NoFile THEN Return(p, "false")
     ELSE Become(p, [call[p] EXCEPT !.size = Len(file), !.stage = "open_read"])
  /\ UNCHANGED disk

OpenRead(p) ==
  /\ In(p, {"open_read"})
  /\ \/ file # NoFile /\ Go(p, "read")
     \/ (file = NoFile \/ "open" \in PathFaults) /\ Return(p, "false")
  /\ UNCHANGED disk

Read(p) ==
  /\ In(p, {"read"})
  /\ IF call[p].size > Len(file) THEN Return(p, "false")
     ELSE Become(p, [Idle EXCEPT !.answer = "true", !.got = SubSeq(file, 1, call[p].size)])
  /\ UNCHANGED disk

---------------------------------------------------------------------------
PathCall(p) ==
  EnsureDirectoryExists(p) \/ ReadFile(p) \/ \E d \in Data : WriteFile(p, d)

PathStep(p) ==
  \/ CreateDirectory(p) \/ DirectoryBusy(p)
  \/ OpenTemp(p) \/ WritePiece(p) \/ CloseTemp(p) \/ WriteThrows(p)
  \/ Replace(p) \/ ReplaceFails(p) \/ ReplaceLoses(p) \/ Protect(p) \/ Clean(p) \/ Handler(p)
  \/ TakeSize(p) \/ OpenRead(p) \/ Read(p)

PathKill(p) ==
  /\ ~In(p, {"dead"}) /\ killed < MaxPathCrashes
  /\ killed' = killed + 1
  /\ call' = [call EXCEPT ![p] = [Idle EXCEPT !.stage = "dead"]]
  /\ UNCHANGED <<disk, made, pathSeen>>

PathRestart(p) == In(p, {"dead"}) /\ Go(p, "idle") /\ UNCHANGED disk

PathNext == \E p \in Caller : PathCall(p) \/ PathStep(p) \/ PathKill(p) \/ PathRestart(p)

PathSpec == PathInit /\ [][PathNext]_pathVars
---------------------------------------------------------------------------
Text == Seq(Nat) \cup {NoFile}
Locals == [stage : PathStages, data : Data \cup {<<>>}, written : Nat, size : Nat, got : Seq(Nat),
           tries : 0..(MaxAttempts - 1), answer : {"none", "true", "false"}, found : Text]

(* The files and locals have their types: no access is made to a file that *)
(* is not there, and no attempt goes beyond the last.                      *)
PathTypeOK ==
  /\ dir \in {"none", "file", "directory"}
  /\ file \in Text /\ temp \in Text
  /\ file # NoFile \/ temp # NoFile => dir = "directory"
  /\ call \in [Caller -> Locals]
  /\ made \in Nat /\ killed \in Nat /\ shared \in BOOLEAN /\ aborted \subseteq Caller

Versions == Data \cup (InitialData \ {NoFile})

(* "Writes data atomically": as long as no two writes were at work         *)
(* together, a reader gets a text that was written or there at first,      *)
(* wherever writers are killed, cut at most to the length of another one,  *)
(* which was there when the size was taken.                                *)
ReadsOneVersion ==
  [][\A p \in Caller :
       (~shared /\ In(p, {"read"}) /\ call'[p].answer = "true")
         => \E d, e \in Versions :
              Len(e) <= Len(d) /\ call'[p].got = SubSeq(d, 1, Len(e))]_pathVars

(* "Returns: true if write succeeded": as long as no two writes were at    *)
(* work together, true means that the file is the text, and that there was *)
(* a file before, and false that it is untouched, with two exceptions: the *)
(* failure of ReplaceFileW may have taken the file away, and an exception  *)
(* may have come from fs::permissions, when the text was in place.         *)
AnswersTruly ==
  [][\A p \in Caller :
       (~shared /\ In(p, WriteStages) /\ call'[p].stage = "idle")
         => IF call'[p].answer = "true"
              THEN file' = call[p].data /\ call[p].found # NoFile
              ELSE \/ file' = call[p].found
                   \/ In(p, {"clean"}) /\ file' = NoFile
                   \/ In(p, {"handler"}) /\ file' = call[p].data]_pathVars

(* Without a kill or an end by an exception, the temporary file is gone    *)
(* when the last writer returns, whoever removed or replaced whose.        *)
TempGone ==
  (killed = 0 /\ aborted = {} /\ \A p \in Caller : ~In(p, WriteStages)) => temp = NoFile
==========================================================================
