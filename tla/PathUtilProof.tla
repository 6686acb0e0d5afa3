-------------------------- MODULE PathUtilProof --------------------------
(***************************************************************************)
(* Theorems about PathUtil, for any number of callers, any texts and any   *)
(* bounds, and every fault but those that the theorems name.               *)
(***************************************************************************)
EXTENDS PathUtil, TLAPS

(* Files that somebody has open are there.                                 *)
OpenInv ==
  /\ \A p \in Caller : In(p, {"write"}) => temp # NoFile
  /\ \A p \in Caller : In(p, {"read"}) => file # NoFile

PathInv == PathTypeOK /\ OpenInv

LEMMA IdleType == Idle \in Locals /\ Idle.stage = "idle"
<1>1. <<>> \in Seq(Nat) /\ NoFile \in Text /\ 0 \in 0..(MaxAttempts - 1)
  BY AttemptsAssumption DEF Text
<1>2. "idle" \in PathStages
  BY DEF PathStages
<1>3. QED
  BY <1>1, <1>2 DEF Idle, Locals

LEMMA TextMembers ==
  /\ \A f \in Text : f # NoFile => f \in Seq(Nat)
  /\ \A f \in Seq(Nat) : f \in Text /\ f # NoFile
  /\ <<>> \in Seq(Nat) /\ NoFile \in Text
  /\ \A d \in Data \cup {<<>>} : d \in Seq(Nat)
<1>1. <<>> \in Seq(Nat)
  OBVIOUS
<1>2. \A d \in Data : d \in Seq(Nat)
  BY DataAssumption
<1>3. QED
  BY <1>1, <1>2, InitialAssumption DEF Text

LEMMA PutType ==
  ASSUME NEW f \in Seq(Nat), NEW text \in Seq(Nat), NEW n \in 1..Len(text)
  PROVE  Put(f, text, n) \in Seq(Nat)
<1> DEFINE m == IF n > Len(f) THEN n ELSE Len(f)
<1>1. m \in Nat
  OBVIOUS
<1>2. \A i \in 1..m : (IF i = n THEN text[i] ELSE IF i <= Len(f) THEN f[i] ELSE 0) \in Nat
  OBVIOUS
<1>3. [i \in 1..m |-> IF i = n THEN text[i] ELSE IF i <= Len(f) THEN f[i] ELSE 0] \in Seq(Nat)
  BY <1>1, <1>2
<1>4. QED
  BY <1>3 DEF Put

(* A step of one caller gives it new locals and leaves the others alone.   *)
LEMMA OneCaller ==
  ASSUME call \in [Caller -> Locals], NEW p \in Caller, NEW locals \in Locals,
         call' = [call EXCEPT ![p] = locals]
  PROVE  /\ call' \in [Caller -> Locals]
         /\ call'[p] = locals
         /\ \A q \in Caller \ {p} : call'[q] = call[q]
  OBVIOUS

LEMMA StageType ==
  ASSUME NEW l \in Locals, NEW to \in PathStages
  PROVE  /\ [l EXCEPT !.stage = to] \in Locals
         /\ [l EXCEPT !.stage = to].stage = to
  BY DEF Locals

LEMMA PathTypeInit == PathInit => PathInv
<1> SUFFICES ASSUME PathInit PROVE PathInv
  OBVIOUS
<1>1. call \in [Caller -> Locals] /\ \A p \in Caller : call[p].stage = "idle"
  BY IdleType DEF PathInit
<1>2. file \in Text /\ temp \in Text
  BY InitialAssumption DEF PathInit, Text
<1>3. QED
  BY <1>1, <1>2 DEF PathInit, PathInv, PathTypeOK, OpenInv, In

(* What a step of one caller must see to for the types: files keep their   *)
(* types, and nobody loses a file it has open.                             *)
LEMMA PathTypeAfter ==
  ASSUME PathInv, NEW p \in Caller, NEW l \in Locals,
         call' = [call EXCEPT ![p] = l],
         dir' \in {"none", "file", "directory"}, file' \in Text, temp' \in Text,
         file' # NoFile \/ temp' # NoFile => dir' = "directory",
         file' = NoFile => file = NoFile \/ \A q \in Caller \ {p} : ~In(q, {"read"}),
         temp' = NoFile => temp = NoFile \/ \A q \in Caller \ {p} : ~In(q, {"write"}),
         l.stage = "write" => temp' # NoFile,
         l.stage = "read" => file' # NoFile,
         made' \in Nat, killed' \in Nat, shared' \in BOOLEAN, aborted' \subseteq Caller
  PROVE  PathInv'
<1>1. /\ call' \in [Caller -> Locals]
      /\ call'[p] = l
      /\ \A q \in Caller \ {p} : call'[q] = call[q]
  BY OneCaller DEF PathInv, PathTypeOK
<1>2. PathTypeOK'
  BY <1>1 DEF PathTypeOK
<1>3. OpenInv'
  BY <1>1 DEF PathInv, OpenInv, In
<1>4. QED
  BY <1>2, <1>3 DEF PathInv

LEMMA ReturnType ==
  ASSUME NEW r \in {"true", "false"}
  PROVE  /\ [Idle EXCEPT !.answer = r] \in Locals
         /\ [Idle EXCEPT !.answer = r].stage = "idle"
         /\ [Idle EXCEPT !.answer = r].answer = r
  BY IdleType DEF Idle, Locals

LEMMA DeadType ==
  /\ [Idle EXCEPT !.stage = "dead"] \in Locals
  /\ [Idle EXCEPT !.stage = "dead"].stage = "dead"
  BY IdleType DEF Idle, Locals, PathStages

(* The steps that change no file, and end in a stage with nothing open.    *)
LEMMA QuietType ==
  ASSUME PathInv, NEW p \in Caller, NEW l \in Locals,
         UNCHANGED disk, call' = [call EXCEPT ![p] = l],
         l.stage \notin {"write", "open_read", "read"},
         made' \in Nat, killed' \in Nat, shared' \in BOOLEAN, aborted' \subseteq Caller
  PROVE  PathInv'
  BY PathTypeAfter DEF PathInv, PathTypeOK, disk

LEMMA CallType ==
  ASSUME PathInv, NEW p \in Caller, PathCall(p)
  PROVE  PathInv'
<1>0. /\ call[p] \in Locals /\ made \in Nat /\ killed \in Nat /\ shared \in BOOLEAN
      /\ aborted \subseteq Caller /\ file \in Text
  BY DEF PathInv, PathTypeOK
<1>1. CASE EnsureDirectoryExists(p)
  <2>1. [Idle EXCEPT !.stage = "create"] \in Locals /\ [Idle EXCEPT !.stage = "create"].stage = "create"
    BY IdleType, StageType DEF PathStages
  <2>2. /\ call' = [call EXCEPT ![p] = [Idle EXCEPT !.stage = "create"]]
        /\ UNCHANGED disk /\ made' = made + 1 /\ UNCHANGED <<killed, aborted, shared>>
    BY <1>1 DEF EnsureDirectoryExists, Begin
  <2>3. made' \in Nat /\ killed' \in Nat /\ shared' \in BOOLEAN /\ aborted' \subseteq Caller
    BY <1>0, <2>2
  <2> DEFINE l == [Idle EXCEPT !.stage = "create"]
  <2>4. l \in Locals /\ l.stage \notin {"write", "open_read", "read"} /\ call' = [call EXCEPT ![p] = l]
    BY <2>1, <2>2
  <2> HIDE DEF l
  <2>5. QED
    BY <2>2, <2>3, <2>4, QuietType
<1>2. CASE ReadFile(p)
  <2>1. [Idle EXCEPT !.stage = "size"] \in Locals /\ [Idle EXCEPT !.stage = "size"].stage = "size"
    BY IdleType, StageType DEF PathStages
  <2>2. /\ call' = [call EXCEPT ![p] = [Idle EXCEPT !.stage = "size"]]
        /\ UNCHANGED disk /\ made' = made + 1 /\ UNCHANGED <<killed, aborted, shared>>
    BY <1>2 DEF ReadFile, Begin
  <2>3. made' \in Nat /\ killed' \in Nat /\ shared' \in BOOLEAN /\ aborted' \subseteq Caller
    BY <1>0, <2>2
  <2> DEFINE l == [Idle EXCEPT !.stage = "size"]
  <2>4. l \in Locals /\ l.stage \notin {"write", "open_read", "read"} /\ call' = [call EXCEPT ![p] = l]
    BY <2>1, <2>2
  <2> HIDE DEF l
  <2>5. QED
    BY <2>2, <2>3, <2>4, QuietType
<1>3. ASSUME NEW d \in Data, WriteFile(p, d) PROVE PathInv'
  <2> DEFINE l == [Idle EXCEPT !.stage = "open", !.data = d, !.found = file]
  <2>1. l \in Locals /\ l.stage = "open"
    BY <1>0, IdleType DEF Idle, Locals, PathStages, WriteStages
  <2>2. /\ call' = [call EXCEPT ![p] = l]
        /\ UNCHANGED disk /\ made' = made + 1 /\ UNCHANGED <<killed, aborted>>
        /\ shared' = (shared \/ \E q \in Caller \ {p} : In(q, WriteStages))
    BY <1>3 DEF WriteFile, Begin
  <2>3. shared' \in BOOLEAN
    BY <1>0, <2>2, Zenon
  <2> HIDE DEF l
  <2>4. made' \in Nat /\ killed' \in Nat /\ aborted' \subseteq Caller
    BY <1>0, <2>2
  <2>5. l.stage \notin {"write", "open_read", "read"}
    BY <2>1
  <2>6. QED
    BY <2>1, <2>2, <2>3, <2>4, <2>5, QuietType
<1>4. QED
  BY <1>1, <1>2, <1>3 DEF PathCall

LEMMA BecomeType ==
  ASSUME PathInv, NEW p \in Caller, NEW l, Become(p, l)
  PROVE  /\ call' = [call EXCEPT ![p] = l]
         /\ made' \in Nat /\ killed' \in Nat /\ shared' \in BOOLEAN /\ aborted' \subseteq Caller
         /\ UNCHANGED <<made, killed, shared, aborted>>
<1>1. made \in Nat /\ killed \in Nat /\ shared \in BOOLEAN /\ aborted \subseteq Caller
  BY DEF PathInv, PathTypeOK
<1>2. QED
  BY <1>1 DEF Become, pathBounds, pathSeen

LEMMA GoType ==
  ASSUME PathInv, NEW p \in Caller, NEW to \in PathStages \ {"write", "open_read", "read"},
         Go(p, to), UNCHANGED disk
  PROVE  PathInv'
<1> DEFINE l == [call[p] EXCEPT !.stage = to]
<1>1. l \in Locals /\ l.stage = to
  BY StageType DEF PathInv, PathTypeOK
<1>2. Become(p, l)
  BY DEF Go
<1> HIDE DEF l
<1>3. QED
  BY <1>1, <1>2, BecomeType, QuietType

LEMMA AnswerType ==
  ASSUME PathInv, NEW p \in Caller, NEW r \in {"true", "false"}, Return(p, r), UNCHANGED disk
  PROVE  PathInv'
<1> DEFINE l == [Idle EXCEPT !.answer = r]
<1>1. l \in Locals /\ l.stage = "idle"
  BY ReturnType
<1>2. Become(p, l)
  BY DEF Return
<1> HIDE DEF l
<1>3. QED
  BY <1>1, <1>2, BecomeType, QuietType

LEMMA CreateType ==
  ASSUME PathInv, NEW p \in Caller, CreateDirectory(p) \/ DirectoryBusy(p)
  PROVE  PathInv'
<1>0. call[p] \in Locals /\ file \in Text /\ temp \in Text
  BY DEF PathInv, PathTypeOK
<1>1. CASE CreateDirectory(p) /\ UNCHANGED dir
  <2>1. UNCHANGED disk
    BY <1>1 DEF CreateDirectory, disk
  <2>2. QED
    BY <1>1, <2>1, AnswerType DEF CreateDirectory
<1>2. CASE CreateDirectory(p) /\ dir' # dir
  <2>1. dir' = "directory" /\ Return(p, "true") /\ UNCHANGED <<file, temp>>
    BY <1>2 DEF CreateDirectory
  <2> DEFINE l == [Idle EXCEPT !.answer = "true"]
  <2>2. l \in Locals /\ l.stage = "idle"
    BY ReturnType
  <2>3. Become(p, l)
    BY <2>1 DEF Return
  <2> HIDE DEF l
  <2>4. /\ call' = [call EXCEPT ![p] = l]
        /\ made' \in Nat /\ killed' \in Nat /\ shared' \in BOOLEAN /\ aborted' \subseteq Caller
    BY <2>3, BecomeType
  <2>5. l.stage \notin {"write", "open_read", "read"}
    BY <2>2
  <2>6. QED
    BY <1>0, <2>1, <2>2, <2>4, <2>5, PathTypeAfter
<1>3. CASE DirectoryBusy(p) /\ call[p].tries + 1 < MaxAttempts
  <2> DEFINE l == [call[p] EXCEPT !.tries = @ + 1]
  <2>1. l \in Locals /\ l.stage = call[p].stage
    <3>1. call[p].tries \in 0..(MaxAttempts - 1)
      BY <1>0 DEF Locals
    <3>2. call[p].tries + 1 \in 0..(MaxAttempts - 1)
      BY <3>1, <1>3, AttemptsAssumption
    <3>3. QED
      BY <1>0, <3>2 DEF Locals
  <2>2. Become(p, l) /\ UNCHANGED disk /\ call[p].stage = "create"
    BY <1>3 DEF DirectoryBusy, In
  <2> HIDE DEF l
  <2>3. l.stage \notin {"write", "open_read", "read"}
    BY <2>1, <2>2
  <2>4. QED
    BY <2>1, <2>2, <2>3, BecomeType, QuietType
<1>4. CASE DirectoryBusy(p) /\ ~(call[p].tries + 1 < MaxAttempts)
  BY <1>4, AnswerType DEF DirectoryBusy
<1>5. QED
  BY <1>1, <1>2, <1>3, <1>4

LEMMA OpenTempType ==
  ASSUME PathInv, NEW p \in Caller, OpenTemp(p)
  PROVE  PathInv'
<1>0. call[p] \in Locals /\ file \in Text /\ temp \in Text /\ dir \in {"none", "file", "directory"}
  BY DEF PathInv, PathTypeOK
<1>1. CASE dir = "directory" /\ temp' = <<>> /\ Go(p, "write")
  <2> DEFINE l == [call[p] EXCEPT !.stage = "write"]
  <2>1. l \in Locals /\ l.stage = "write"
    BY <1>0, StageType DEF PathStages, WriteStages
  <2>2. Become(p, l) /\ UNCHANGED <<dir, file>>
    BY <1>1 DEF Go, OpenTemp
  <2> HIDE DEF l
  <2>3. temp' \in Text /\ temp' # NoFile
    BY <1>1, TextMembers
  <2>4. /\ call' = [call EXCEPT ![p] = l]
        /\ made' \in Nat /\ killed' \in Nat /\ shared' \in BOOLEAN /\ aborted' \subseteq Caller
    BY <2>2, BecomeType
  <2>5. l.stage \notin {"open_read", "read"}
    BY <2>1
  <2>6. QED
    BY <1>0, <1>1, <2>1, <2>2, <2>3, <2>4, <2>5, PathTypeAfter
<1>2. CASE UNCHANGED temp /\ Return(p, "false")
  <2>1. UNCHANGED disk
    BY <1>2 DEF OpenTemp, disk
  <2>2. QED
    BY <1>2, <2>1, AnswerType
<1>3. QED
  BY <1>1, <1>2 DEF OpenTemp

(* The piece that is written and the text it goes into.                    *)
LEMMA PieceType ==
  ASSUME PathInv, NEW p \in Caller, Unwritten(p)
  PROVE  /\ call[p].stage = "write" /\ temp \in Seq(Nat) /\ temp # NoFile
         /\ call[p].data \in Seq(Nat) /\ call[p].written \in Nat
         /\ call[p].written + 1 \in 1..Len(call[p].data)
<1>1. call[p] \in Locals /\ temp \in Text /\ temp # NoFile /\ call[p].stage = "write"
  BY DEF PathInv, PathTypeOK, OpenInv, Unwritten, In
<1>2. call[p].data \in Seq(Nat) /\ call[p].written \in Nat
  BY <1>1, TextMembers DEF Locals
<1>3. call[p].written < Len(call[p].data)
  BY DEF Unwritten
<1>4. QED
  BY <1>1, <1>2, <1>3, TextMembers

LEMMA WritePieceType ==
  ASSUME PathInv, NEW p \in Caller, WritePiece(p)
  PROVE  PathInv'
<1>0. call[p] \in Locals /\ file \in Text /\ temp \in Text /\ dir \in {"none", "file", "directory"}
  BY DEF PathInv, PathTypeOK
<1> DEFINE n == call[p].written + 1
           l == [call[p] EXCEPT !.written = n]
<1>1. /\ call[p].stage = "write" /\ temp \in Seq(Nat) /\ temp # NoFile
      /\ call[p].data \in Seq(Nat) /\ n \in 1..Len(call[p].data) /\ n \in Nat
  BY PieceType DEF WritePiece
<1>2. temp' = Put(temp, call[p].data, n) /\ Become(p, l) /\ UNCHANGED <<dir, file>>
  BY DEF WritePiece
<1>3. l \in Locals /\ l.stage = "write"
  BY <1>0, <1>1 DEF Locals
<1> HIDE DEF n, l
<1>4. Put(temp, call[p].data, n) \in Seq(Nat)
  BY <1>1, PutType
<1>5. temp' \in Text /\ temp' # NoFile
  BY <1>2, <1>4, TextMembers
<1>6. /\ call' = [call EXCEPT ![p] = l]
      /\ made' \in Nat /\ killed' \in Nat /\ shared' \in BOOLEAN /\ aborted' \subseteq Caller
  BY <1>2, BecomeType
<1>7. l.stage \notin {"open_read", "read"} /\ dir = "directory"
  BY <1>1, <1>3 DEF PathInv, PathTypeOK
<1>8. QED
  BY <1>0, <1>2, <1>3, <1>5, <1>6, <1>7, PathTypeAfter

LEMMA ReplaceType ==
  ASSUME PathInv, NEW p \in Caller, Replace(p)
  PROVE  PathInv'
<1>0. /\ call[p] \in Locals /\ file \in Text /\ temp \in Text
      /\ dir \in {"none", "file", "directory"}
      /\ (file # NoFile \/ temp # NoFile => dir = "directory")
  BY DEF PathInv, PathTypeOK
<1> DEFINE l == [call[p] EXCEPT !.stage = "protect"]
<1>1. l \in Locals /\ l.stage = "protect"
  BY <1>0, StageType DEF PathStages, WriteStages
<1>2. Become(p, l) /\ UNCHANGED dir /\ file' = temp /\ temp' = NoFile
  BY DEF Replace, Go
<1>3. temp # NoFile /\ \A q \in Caller \ {p} : ~In(q, {"write"})
  BY DEF Replace, Replaceable, InUse
<1> HIDE DEF l
<1>4. /\ call' = [call EXCEPT ![p] = l]
      /\ made' \in Nat /\ killed' \in Nat /\ shared' \in BOOLEAN /\ aborted' \subseteq Caller
  BY <1>2, BecomeType
<1>5. l.stage # "write" /\ l.stage \notin {"open_read", "read"}
  BY <1>1
<1>6. file' \in Text /\ temp' \in Text /\ file' # NoFile
  BY <1>0, <1>2, <1>3, TextMembers
<1>7. QED
  BY <1>0, <1>1, <1>2, <1>3, <1>4, <1>5, <1>6, PathTypeAfter

(* The file goes only where nobody reads it.                               *)
LEMMA ReplaceLosesType ==
  ASSUME PathInv, NEW p \in Caller, ReplaceLoses(p)
  PROVE  PathInv'
<1>0. /\ call[p] \in Locals /\ file \in Text /\ temp \in Text
      /\ dir \in {"none", "file", "directory"}
      /\ (file # NoFile \/ temp # NoFile => dir = "directory")
  BY DEF PathInv, PathTypeOK
<1> DEFINE l == [call[p] EXCEPT !.stage = "clean"]
<1>1. l \in Locals /\ l.stage = "clean"
  BY <1>0, StageType DEF PathStages, WriteStages
<1>2. Become(p, l) /\ UNCHANGED <<dir, temp>> /\ file' = NoFile
  BY DEF ReplaceLoses, Go
<1>3. \A q \in Caller \ {p} : ~In(q, {"read"})
  BY DEF ReplaceLoses, Replaceable
<1> HIDE DEF l
<1>4. /\ call' = [call EXCEPT ![p] = l]
      /\ made' \in Nat /\ killed' \in Nat /\ shared' \in BOOLEAN /\ aborted' \subseteq Caller
  BY <1>2, BecomeType
<1>5. l.stage # "write" /\ l.stage # "read"
  BY <1>1
<1>6. file' \in Text /\ temp' \in Text /\ (file' # NoFile \/ temp' # NoFile => dir' = "directory")
  BY <1>0, <1>2, TextMembers
<1>7. temp' = NoFile => temp = NoFile
  BY <1>2
<1>8. dir' \in {"none", "file", "directory"}
  BY <1>0, <1>2
<1>9. QED
  BY <1>1, <1>3, <1>4, <1>5, <1>6, <1>7, <1>8, PathTypeAfter

(* Removing the temporary file, which no other writer has open.            *)
LEMMA RemoveType ==
  ASSUME PathInv, NEW p \in Caller, ~InUse(p),
         temp' = NoFile, UNCHANGED <<dir, file>>, Return(p, "false")
  PROVE  PathInv'
<1>0. /\ file \in Text /\ temp \in Text
      /\ dir \in {"none", "file", "directory"}
      /\ (file # NoFile \/ temp # NoFile => dir = "directory")
  BY DEF PathInv, PathTypeOK
<1> DEFINE l == [Idle EXCEPT !.answer = "false"]
<1>1. l \in Locals /\ l.stage = "idle"
  BY ReturnType
<1>2. Become(p, l)
  BY DEF Return
<1>3. \A q \in Caller \ {p} : ~In(q, {"write"})
  BY DEF InUse
<1> HIDE DEF l
<1>4. /\ call' = [call EXCEPT ![p] = l]
      /\ made' \in Nat /\ killed' \in Nat /\ shared' \in BOOLEAN /\ aborted' \subseteq Caller
  BY <1>2, BecomeType
<1>5. l.stage # "write" /\ l.stage \notin {"open_read", "read"}
  BY <1>1
<1>6. temp' \in Text
  BY TextMembers
<1>7. QED
  BY <1>0, <1>1, <1>3, <1>4, <1>5, <1>6, PathTypeAfter

LEMMA CleanType ==
  ASSUME PathInv, NEW p \in Caller, Clean(p)
  PROVE  PathInv'
<1>1. CASE InUse(p)
  <2>1. UNCHANGED disk /\ Go(p, "handler")
    BY <1>1 DEF Clean, disk
  <2>2. QED
    BY <2>1, GoType DEF PathStages, WriteStages
<1>2. CASE ~InUse(p)
  BY <1>2, RemoveType DEF Clean
<1>3. QED
  BY <1>1, <1>2

LEMMA HandlerType ==
  ASSUME PathInv, NEW p \in Caller, Handler(p)
  PROVE  PathInv'
<1>1. CASE InUse(p)
  <2> DEFINE l == [Idle EXCEPT !.stage = "dead"]
  <2>1. l \in Locals /\ l.stage = "dead"
    BY DeadType
  <2>2. call' = [call EXCEPT ![p] = l]
    BY <1>1 DEF Handler
  <2> HIDE DEF l
  <2>3. UNCHANGED disk /\ aborted' = aborted \cup {p} /\ UNCHANGED <<made, killed, shared>>
    BY <1>1 DEF Handler, disk, pathBounds
  <2>4. made' \in Nat /\ killed' \in Nat /\ shared' \in BOOLEAN /\ aborted' \subseteq Caller
    BY <2>3 DEF PathInv, PathTypeOK
  <2>5. l.stage \notin {"write", "open_read", "read"}
    BY <2>1
  <2>6. QED
    BY <2>1, <2>2, <2>3, <2>4, <2>5, QuietType
<1>2. CASE ~InUse(p)
  BY <1>2, RemoveType DEF Handler
<1>3. QED
  BY <1>1, <1>2

(* The steps of ReadFile change no file, and open one that is there.       *)
LEMMA ReadType ==
  ASSUME PathInv, NEW p \in Caller, TakeSize(p) \/ OpenRead(p) \/ Read(p)
  PROVE  PathInv'
<1>0. /\ call[p] \in Locals /\ file \in Text /\ temp \in Text
      /\ dir \in {"none", "file", "directory"}
      /\ (file # NoFile \/ temp # NoFile => dir = "directory")
      /\ (call[p].stage = "read" => file # NoFile)
  BY DEF PathInv, PathTypeOK, OpenInv, In
<1>1. UNCHANGED <<dir, file, temp>> /\ UNCHANGED disk
  BY DEF TakeSize, OpenRead, Read, disk
<1>2. ASSUME NEW l \in Locals, Become(p, l), file # NoFile, l.stage # "write"
      PROVE  PathInv'
  <2>1. /\ call' = [call EXCEPT ![p] = l]
        /\ made' \in Nat /\ killed' \in Nat /\ shared' \in BOOLEAN /\ aborted' \subseteq Caller
    BY <1>2, BecomeType
  <2>2. QED
    BY <1>0, <1>1, <1>2, <2>1, PathTypeAfter
<1>3. CASE Return(p, "false")
  BY <1>1, <1>3, AnswerType
<1>4. CASE TakeSize(p) /\ file # NoFile
  <2> DEFINE l == [call[p] EXCEPT !.size = Len(file), !.stage = "open_read"]
  <2>1. Len(file) \in Nat
    BY <1>0, <1>4, TextMembers
  <2>2. l \in Locals /\ l.stage = "open_read"
    BY <1>0, <2>1 DEF Locals, PathStages
  <2>3. Become(p, l)
    BY <1>4 DEF TakeSize
  <2> HIDE DEF l
  <2>4. l.stage # "write"
    BY <2>2
  <2>5. QED
    BY <1>2, <1>4, <2>2, <2>3, <2>4
<1>5. CASE OpenRead(p) /\ file # NoFile /\ Go(p, "read")
  <2> DEFINE l == [call[p] EXCEPT !.stage = "read"]
  <2>1. l \in Locals /\ l.stage = "read"
    BY <1>0, StageType DEF PathStages
  <2>2. Become(p, l)
    BY <1>5 DEF Go
  <2> HIDE DEF l
  <2>3. l.stage # "write" /\ file # NoFile
    BY <1>0, <1>5, <2>1 DEF OpenRead, In
  <2>4. QED
    BY <1>2, <2>1, <2>2, <2>3
<1>6. CASE Read(p) /\ ~(call[p].size > Len(file))
  <2> DEFINE l == [Idle EXCEPT !.answer = "true", !.got = SubSeq(file, 1, call[p].size)]
  <2>1. file \in Seq(Nat) /\ file # NoFile /\ call[p].size \in Nat /\ call[p].size <= Len(file)
    BY <1>0, <1>6, TextMembers DEF Read, In, Locals
  <2>2. SubSeq(file, 1, call[p].size) \in Seq(Nat)
    BY <2>1
  <2>3. l \in Locals /\ l.stage = "idle"
    BY <2>2, IdleType DEF Idle, Locals
  <2>4. Become(p, l)
    BY <1>6 DEF Read
  <2> HIDE DEF l
  <2>5. l.stage # "write"
    BY <2>3
  <2>6. QED
    BY <1>2, <2>1, <2>3, <2>4, <2>5
<1>7. QED
  BY <1>3, <1>4, <1>5, <1>6 DEF TakeSize, OpenRead, Read

LEMMA PathTypeNext == PathInv /\ [PathNext]_pathVars => PathInv'
<1> SUFFICES ASSUME PathInv, [PathNext]_pathVars PROVE PathInv'
  OBVIOUS
<1>1. CASE UNCHANGED pathVars
  BY <1>1 DEF PathInv, PathTypeOK, OpenInv, In, pathVars, disk, pathBounds, pathSeen
<1>2. ASSUME NEW p \in Caller, PathStep(p) PROVE PathInv'
  <2>1. CASE CreateDirectory(p) \/ DirectoryBusy(p)
    BY <2>1, CreateType
  <2>2. CASE OpenTemp(p)
    BY <2>2, OpenTempType
  <2>3. CASE WritePiece(p)
    BY <2>3, WritePieceType
  <2>4. CASE CloseTemp(p) \/ WriteThrows(p) \/ ReplaceFails(p)
    <3>1. UNCHANGED disk /\ \E to \in {"replace", "handler", "clean"} : Go(p, to)
      BY <2>4 DEF CloseTemp, WriteThrows, ReplaceFails
    <3>2. QED
      BY <3>1, GoType DEF PathStages, WriteStages
  <2>5. CASE Replace(p)
    BY <2>5, ReplaceType
  <2>11. CASE ReplaceLoses(p)
    BY <2>11, ReplaceLosesType
  <2>6. CASE Protect(p)
    BY <2>6, GoType, AnswerType DEF Protect, PathStages, WriteStages
  <2>7. CASE Clean(p)
    BY <2>7, CleanType
  <2>8. CASE Handler(p)
    BY <2>8, HandlerType
  <2>9. CASE TakeSize(p) \/ OpenRead(p) \/ Read(p)
    BY <2>9, ReadType
  <2>10. QED
    BY <1>2, <2>1, <2>2, <2>3, <2>4, <2>5, <2>6, <2>7, <2>8, <2>9, <2>11 DEF PathStep
<1>3. ASSUME NEW p \in Caller, PathKill(p) PROVE PathInv'
  <2> DEFINE l == [Idle EXCEPT !.stage = "dead"]
  <2>1. l \in Locals /\ l.stage = "dead"
    BY DeadType
  <2>2. /\ call' = [call EXCEPT ![p] = l] /\ UNCHANGED disk
        /\ killed' = killed + 1 /\ UNCHANGED <<made, shared, aborted>>
    BY <1>3 DEF PathKill, pathSeen
  <2> HIDE DEF l
  <2>3. made' \in Nat /\ killed' \in Nat /\ shared' \in BOOLEAN /\ aborted' \subseteq Caller
    BY <2>2 DEF PathInv, PathTypeOK
  <2>4. l.stage \notin {"write", "open_read", "read"}
    BY <2>1
  <2>5. QED
    BY <2>1, <2>2, <2>3, <2>4, QuietType
<1>4. ASSUME NEW p \in Caller, PathRestart(p) PROVE PathInv'
  BY <1>4, GoType DEF PathRestart, PathStages
<1>5. QED
  BY <1>1, <1>2, <1>3, <1>4, CallType DEF PathNext

(* The files and the calls always have their types: no step reads or       *)
(* changes a file that is not there.                                       *)
THEOREM PathTypeHolds == PathSpec => []PathTypeOK
<1>1. PathInv => PathTypeOK
  BY DEF PathInv
<1>2. QED
  BY PathTypeInit, PathTypeNext, <1>1, PTL DEF PathSpec
---------------------------------------------------------------------------
(* Where a step leaves the locals of its caller, and those of the others.  *)

LEMMA GoesTo ==
  ASSUME PathInv, NEW p \in Caller, NEW to, Go(p, to)
  PROVE  /\ call'[p].stage = to /\ call'[p].data = call[p].data
         /\ call'[p].written = call[p].written /\ call'[p].size = call[p].size
         /\ call'[p].answer = call[p].answer /\ call'[p].found = call[p].found
         /\ \A q \in Caller \ {p} : call'[q] = call[q]
         /\ UNCHANGED <<made, killed, shared, aborted>>
  BY DEF PathInv, PathTypeOK, Locals, Go, Become, pathBounds, pathSeen

LEMMA Returns ==
  ASSUME PathInv, NEW p \in Caller, NEW r \in {"true", "false"}, Return(p, r)
  PROVE  /\ call'[p].stage = "idle" /\ call'[p].answer = r
         /\ \A q \in Caller \ {p} : call'[q] = call[q]
         /\ UNCHANGED <<made, killed, shared, aborted>>
<1> DEFINE l == [Idle EXCEPT !.answer = r]
<1>1. l.stage = "idle" /\ l.answer = r
  BY ReturnType
<1>2. call' = [call EXCEPT ![p] = l] /\ UNCHANGED <<made, killed, shared, aborted>>
  BY DEF Return, Become, pathBounds, pathSeen
<1> HIDE DEF l
<1>3. QED
  BY <1>1, <1>2 DEF PathInv, PathTypeOK

LEMMA Begins ==
  ASSUME PathInv, NEW p \in Caller, PathCall(p)
  PROVE  /\ call[p].stage = "idle" /\ call'[p].answer = "none"
         /\ \A q \in Caller \ {p} : call'[q] = call[q]
         /\ UNCHANGED <<dir, file, temp, killed, aborted>>
         /\ \/ call'[p].stage \in {"create", "size"} /\ UNCHANGED shared
            \/ /\ call'[p].stage = "open" /\ call'[p].data \in Data
               /\ call'[p].written = 0 /\ call'[p].found = file
               /\ shared' = (shared \/ \E q \in Caller \ {p} : In(q, WriteStages))
<1>1. call \in [Caller -> Locals]
  BY DEF PathInv, PathTypeOK
<1>2. CASE EnsureDirectoryExists(p)
  BY <1>1, <1>2 DEF EnsureDirectoryExists, Begin, Idle, In, disk
<1>3. CASE ReadFile(p)
  BY <1>1, <1>3 DEF ReadFile, Begin, Idle, In, disk
<1>4. ASSUME NEW d \in Data, WriteFile(p, d)
      PROVE  /\ call[p].stage = "idle" /\ call'[p].answer = "none"
             /\ \A q \in Caller \ {p} : call'[q] = call[q]
             /\ UNCHANGED <<dir, file, temp, killed, aborted>>
             /\ call'[p].stage = "open" /\ call'[p].data \in Data
             /\ call'[p].written = 0 /\ call'[p].found = file
             /\ shared' = (shared \/ \E q \in Caller \ {p} : In(q, WriteStages))
  <2>1. shared' = (shared \/ \E q \in Caller \ {p} : In(q, WriteStages))
    BY <1>4 DEF WriteFile
  <2>2. QED
    BY <1>1, <1>4, <2>1 DEF WriteFile, Begin, Idle, In, disk
<1>5. QED
  BY <1>2, <1>3, <1>4 DEF PathCall

(* A process that is killed, or ended by an exception.                     *)
LEMMA Dies ==
  ASSUME PathInv, NEW p \in Caller,
         call' = [call EXCEPT ![p] = [Idle EXCEPT !.stage = "dead"]]
  PROVE  /\ call'[p].stage = "dead" /\ call'[p].answer = "none"
         /\ \A q \in Caller \ {p} : call'[q] = call[q]
  BY DEF Idle, PathInv, PathTypeOK
---------------------------------------------------------------------------
(* Those who remove or replace the temporary file before they return.      *)
Holders == {"write", "replace", "clean", "handler"}

HolderInv ==
  temp # NoFile /\ killed = 0 /\ aborted = {} => \E p \in Caller : In(p, Holders)

(* A caller that leaves these stages takes the file away.                  *)
LEMMA HolderKept ==
  ASSUME HolderInv, NEW p \in Caller,
         \A q \in Caller \ {p} : call'[q] = call[q],
         UNCHANGED <<killed, aborted>>,
         \/ temp' = NoFile
         \/ call'[p].stage \in Holders
         \/ UNCHANGED temp /\ call[p].stage \notin Holders
  PROVE  HolderInv'
  BY DEF HolderInv, In

LEMMA HolderStep ==
  ASSUME PathInv, HolderInv, NEW p \in Caller, PathStep(p)
  PROVE  HolderInv'
<1>1. CASE CreateDirectory(p) \/ DirectoryBusy(p)
  <2>1. call[p].stage \notin Holders /\ UNCHANGED temp
    BY <1>1 DEF CreateDirectory, DirectoryBusy, In, Holders, disk
  <2>2. CASE \E r \in {"true", "false"} : Return(p, r)
    BY <2>1, <2>2, Returns, HolderKept
  <2>3. CASE DirectoryBusy(p) /\ call[p].tries + 1 < MaxAttempts
    <3>1. Become(p, [call[p] EXCEPT !.tries = @ + 1])
      BY <2>3 DEF DirectoryBusy
    <3>2. (\A q \in Caller \ {p} : call'[q] = call[q]) /\ UNCHANGED <<killed, aborted>>
      BY <3>1 DEF Become, pathBounds, pathSeen, PathInv, PathTypeOK
    <3>3. QED
      BY <2>1, <3>2, HolderKept
  <2>4. QED
    BY <1>1, <2>2, <2>3 DEF CreateDirectory, DirectoryBusy
<1>2. CASE OpenTemp(p)
  <2>1. CASE Go(p, "write")
    BY <2>1, GoesTo, HolderKept DEF Holders
  <2>2. CASE UNCHANGED temp /\ Return(p, "false")
    <3>1. call[p].stage \notin Holders
      BY <1>2 DEF OpenTemp, In, Holders
    <3>2. QED
      BY <2>2, <3>1, Returns, HolderKept
  <2>3. QED
    BY <1>2, <2>1, <2>2 DEF OpenTemp
<1>3. CASE WritePiece(p)
  <2>1. Become(p, [call[p] EXCEPT !.written = call[p].written + 1]) /\ call[p].stage = "write"
    BY <1>3 DEF WritePiece, Unwritten, In
  <2>2. /\ call'[p].stage = "write" /\ (\A q \in Caller \ {p} : call'[q] = call[q])
        /\ UNCHANGED <<killed, aborted>>
    BY <2>1 DEF Become, pathBounds, pathSeen, PathInv, PathTypeOK, Locals
  <2>3. QED
    BY <2>2, HolderKept DEF Holders
<1>4. CASE CloseTemp(p) \/ WriteThrows(p) \/ ReplaceFails(p) \/ ReplaceLoses(p)
  <2>1. \E to \in Holders : Go(p, to)
    BY <1>4 DEF CloseTemp, WriteThrows, ReplaceFails, ReplaceLoses, Holders
  <2>2. QED
    BY <2>1, GoesTo, HolderKept
<1>5. CASE Replace(p)
  <2>1. temp' = NoFile /\ Go(p, "protect")
    BY <1>5 DEF Replace
  <2>2. QED
    BY <2>1, GoesTo, HolderKept
<1>6. CASE Protect(p)
  <2>1. call[p].stage \notin Holders /\ UNCHANGED temp
    BY <1>6 DEF Protect, In, Holders, disk
  <2>2. QED
    BY <1>6, <2>1, GoesTo, Returns, HolderKept DEF Protect
<1>7. CASE (Clean(p) \/ Handler(p)) /\ ~InUse(p)
  <2>1. temp' = NoFile /\ Return(p, "false")
    BY <1>7 DEF Clean, Handler
  <2>2. QED
    BY <2>1, Returns, HolderKept
<1>8. CASE Clean(p) /\ InUse(p)
  <2>1. Go(p, "handler")
    BY <1>8 DEF Clean
  <2>2. QED
    BY <2>1, GoesTo, HolderKept DEF Holders
<1>9. CASE Handler(p) /\ InUse(p)
  <2>1. aborted' # {}
    BY <1>9 DEF Handler
  <2>2. QED
    BY <2>1 DEF HolderInv
<1>10. CASE TakeSize(p) \/ OpenRead(p) \/ Read(p)
  <2>1. call[p].stage \notin Holders /\ UNCHANGED temp
    BY <1>10 DEF TakeSize, OpenRead, Read, In, Holders, disk
  <2>2. (\A q \in Caller \ {p} : call'[q] = call[q]) /\ UNCHANGED <<killed, aborted>>
    BY <1>10 DEF TakeSize, OpenRead, Read, Go, Return, Become, pathBounds, pathSeen, PathInv, PathTypeOK
  <2>3. QED
    BY <2>1, <2>2, HolderKept
<1>11. QED
  BY <1>1, <1>2, <1>3, <1>4, <1>5, <1>6, <1>7, <1>8, <1>9, <1>10 DEF PathStep

LEMMA HolderNext == PathInv /\ HolderInv /\ [PathNext]_pathVars => HolderInv'
<1> SUFFICES ASSUME PathInv, HolderInv, [PathNext]_pathVars PROVE HolderInv'
  OBVIOUS
<1>1. CASE UNCHANGED pathVars
  BY <1>1 DEF HolderInv, In, pathVars, disk, pathBounds, pathSeen
<1>2. ASSUME NEW p \in Caller, PathCall(p) PROVE HolderInv'
  <2>1. call[p].stage \notin Holders
    BY <1>2, Begins DEF Holders
  <2>2. QED
    BY <1>2, <2>1, Begins, HolderKept
<1>3. ASSUME NEW p \in Caller, PathKill(p) PROVE HolderInv'
  <2>1. killed' # 0
    BY <1>3 DEF PathKill, PathInv, PathTypeOK
  <2>2. QED
    BY <2>1 DEF HolderInv
<1>4. ASSUME NEW p \in Caller, PathRestart(p) PROVE HolderInv'
  <2>1. call[p].stage \notin Holders /\ UNCHANGED temp /\ Go(p, "idle")
    BY <1>4 DEF PathRestart, In, Holders, disk
  <2>2. QED
    BY <2>1, GoesTo, HolderKept
<1>5. QED
  BY <1>1, <1>2, <1>3, <1>4, HolderStep DEF PathNext

(* Any number of writers, of which each removes or replaces the one        *)
(* temporary file when it can, leave none behind, unless one is killed or  *)
(* ended by an exception.                                                  *)
THEOREM TempGoneHolds == PathSpec => []TempGone
<1>1. PathInit => HolderInv
  BY DEF PathInit, HolderInv
<1>2. HolderInv => TempGone
  BY DEF HolderInv, TempGone, In, Holders, WriteStages
<1>3. QED
  BY PathTypeInit, PathTypeNext, HolderNext, <1>1, <1>2, PTL DEF PathSpec
---------------------------------------------------------------------------
(* With one writer at a time.                                              *)

(* A call has no answer before it is over.                                 *)
AnswerInv == \A p \in Caller : ~In(p, {"idle"}) => call[p].answer = "none"

Alone == \A p, q \in Caller : In(p, WriteStages) /\ In(q, WriteStages) => p = q

(* What the one writer has done: the file is as it found it until the      *)
(* text, whole in the temporary file, has replaced it, or the failure of   *)
(* the replacement has taken it away.                                      *)
Writing(p) ==
  /\ call[p].data \in Data
  /\ In(p, {"open"}) => call[p].written = 0
  /\ In(p, {"write"}) => /\ call[p].written <= Len(call[p].data)
                         /\ temp = SubSeq(call[p].data, 1, call[p].written)
  /\ In(p, {"replace"}) => temp = call[p].data
  /\ In(p, {"open", "write", "replace"}) => file = call[p].found
  /\ In(p, {"clean"}) => file \in {call[p].found, NoFile}
  /\ In(p, {"protect"}) => file = call[p].data /\ call[p].found # NoFile
  /\ In(p, {"handler"}) => file \in {call[p].found, call[p].data}

Sized(p) == \E e \in Versions : call[p].size = Len(e)

VersionInv ==
  ~shared => /\ Alone
             /\ file # NoFile => file \in Versions
             /\ \A p \in Caller : /\ In(p, WriteStages) => Writing(p)
                                  /\ In(p, {"open_read", "read"}) => Sized(p)

(* One piece more of the text.                                             *)
LEMMA PutNext ==
  ASSUME NEW text \in Seq(Nat), NEW n \in Nat, n + 1 \in 1..Len(text)
  PROVE  Put(SubSeq(text, 1, n), text, n + 1) = SubSeq(text, 1, n + 1)
<1> DEFINE f == SubSeq(text, 1, n)
           g == [i \in 1..(n + 1) |-> text[i]]
<1>1. f \in Seq(Nat) /\ Len(f) = n /\ \A i \in 1..n : f[i] = text[i]
  OBVIOUS
<1>2. Put(f, text, n + 1) = [i \in 1..(n + 1) |->
         IF i = n + 1 THEN text[i] ELSE IF i <= n THEN f[i] ELSE 0]
  BY <1>1 DEF Put
<1>3. \A i \in 1..(n + 1) :
        (IF i = n + 1 THEN text[i] ELSE IF i <= n THEN f[i] ELSE 0) = text[i]
  BY <1>1
<1>4. Put(f, text, n + 1) = g
  BY <1>2, <1>3
<1>5. SubSeq(text, 1, n + 1) = g
  OBVIOUS
<1>6. QED
  BY <1>4, <1>5

LEMMA WholeText ==
  ASSUME NEW text \in Seq(Nat)
  PROVE  /\ SubSeq(text, 1, Len(text)) = text
         /\ SubSeq(text, 1, 0) = <<>>
  OBVIOUS

LEMMA AnswerNext == PathInv /\ AnswerInv /\ [PathNext]_pathVars => AnswerInv'
<1> SUFFICES ASSUME PathInv, AnswerInv, [PathNext]_pathVars PROVE AnswerInv'
  OBVIOUS
<1>1. ASSUME NEW p \in Caller, \A q \in Caller \ {p} : call'[q] = call[q],
             call'[p].stage = "idle" \/ call'[p].answer = "none"
      PROVE  AnswerInv'
  BY <1>1 DEF AnswerInv, In
<1>2. CASE UNCHANGED pathVars
  BY <1>2 DEF AnswerInv, In, pathVars
<1>3. ASSUME NEW p \in Caller, PathCall(p) PROVE AnswerInv'
  BY <1>1, <1>3, Begins
<1>4. ASSUME NEW p \in Caller, NEW to, Go(p, to), call[p].stage # "idle" PROVE AnswerInv'
  BY <1>1, <1>4, GoesTo DEF AnswerInv, In
<1>5. ASSUME NEW p \in Caller, NEW r \in {"true", "false"}, Return(p, r) PROVE AnswerInv'
  BY <1>1, <1>5, Returns
<1>6. ASSUME NEW p \in Caller, call' = [call EXCEPT ![p] = [Idle EXCEPT !.stage = "dead"]]
      PROVE  AnswerInv'
  BY <1>1, <1>6, Dies
<1>7. ASSUME NEW p \in Caller, PathStep(p) PROVE AnswerInv'
  <2>1. CASE CreateDirectory(p)
    BY <2>1, <1>5 DEF CreateDirectory
  <2>2. CASE DirectoryBusy(p) /\ call[p].tries + 1 < MaxAttempts
    <3>1. call' = [call EXCEPT ![p] = [call[p] EXCEPT !.tries = @ + 1]] /\ call[p].stage = "create"
      BY <2>2 DEF DirectoryBusy, Become, In
    <3>2. call'[p].answer = "none" /\ \A q \in Caller \ {p} : call'[q] = call[q]
      BY <3>1 DEF PathInv, PathTypeOK, Locals, AnswerInv, In
    <3>3. QED
      BY <3>2, <1>1
  <2>3. CASE DirectoryBusy(p) /\ ~(call[p].tries + 1 < MaxAttempts)
    BY <2>3, <1>5 DEF DirectoryBusy
  <2>4. CASE OpenTemp(p)
    BY <2>4, <1>4, <1>5 DEF OpenTemp, In
  <2>5. CASE WritePiece(p)
    <3>1. /\ call' = [call EXCEPT ![p] = [call[p] EXCEPT !.written = call[p].written + 1]]
          /\ call[p].stage = "write"
      BY <2>5 DEF WritePiece, Become, Unwritten, In
    <3>2. call'[p].answer = "none" /\ \A q \in Caller \ {p} : call'[q] = call[q]
      BY <3>1 DEF PathInv, PathTypeOK, Locals, AnswerInv, In
    <3>3. QED
      BY <3>2, <1>1
  <2>6. CASE CloseTemp(p) \/ WriteThrows(p) \/ ReplaceFails(p) \/ ReplaceLoses(p) \/ Replace(p)
    BY <2>6, <1>4 DEF CloseTemp, WriteThrows, ReplaceFails, ReplaceLoses, Replace, In
  <2>7. CASE Protect(p) \/ Clean(p)
    BY <2>7, <1>4, <1>5 DEF Protect, Clean, In
  <2>8. CASE Handler(p)
    BY <2>8, <1>5, <1>6 DEF Handler
  <2>9. CASE TakeSize(p) /\ file # NoFile
    <3>1. /\ call' = [call EXCEPT ![p] = [call[p] EXCEPT !.size = Len(file), !.stage = "open_read"]]
          /\ call[p].stage = "size"
      BY <2>9 DEF TakeSize, Become, In
    <3>2. call'[p].answer = "none" /\ \A q \in Caller \ {p} : call'[q] = call[q]
      BY <3>1 DEF PathInv, PathTypeOK, Locals, AnswerInv, In
    <3>3. QED
      BY <3>2, <1>1
  <2>10. CASE TakeSize(p) /\ file = NoFile
    BY <2>10, <1>5 DEF TakeSize
  <2>11. CASE OpenRead(p)
    BY <2>11, <1>4, <1>5 DEF OpenRead, In
  <2>12. CASE Read(p) /\ ~(call[p].size > Len(file))
    <3>1. call' = [call EXCEPT ![p] =
             [Idle EXCEPT !.answer = "true", !.got = SubSeq(file, 1, call[p].size)]]
      BY <2>12 DEF Read, Become
    <3>2. call'[p].stage = "idle" /\ \A q \in Caller \ {p} : call'[q] = call[q]
      BY <3>1 DEF PathInv, PathTypeOK, Idle
    <3>3. QED
      BY <3>2, <1>1
  <2>13. CASE Read(p) /\ call[p].size > Len(file)
    BY <2>13, <1>5 DEF Read
  <2>14. QED
    BY <1>7, <2>1, <2>2, <2>3, <2>4, <2>5, <2>6, <2>7, <2>8, <2>9, <2>10, <2>11, <2>12, <2>13
       DEF PathStep
<1>8. ASSUME NEW p \in Caller, PathKill(p) PROVE AnswerInv'
  BY <1>6, <1>8 DEF PathKill
<1>9. ASSUME NEW p \in Caller, PathRestart(p) PROVE AnswerInv'
  BY <1>4, <1>9 DEF PathRestart, In
<1>10. QED
  BY <1>2, <1>3, <1>7, <1>8, <1>9 DEF PathNext

LEMMA OnlyWriter ==
  ASSUME VersionInv, ~shared, NEW p \in Caller, call[p].stage \in WriteStages
  PROVE  Writing(p) /\ \A q \in Caller \ {p} : ~In(q, WriteStages)
  BY DEF VersionInv, Alone, In

(* What a step must see to: the locals of its caller, and the files when   *)
(* another one is writing.                                                 *)
LEMMA VersionAfter ==
  ASSUME VersionInv, ~shared, NEW p \in Caller,
         \A q \in Caller \ {p} : call'[q] = call[q],
         call'[p].stage \in WriteStages =>
           Writing(p)' /\ \A q \in Caller \ {p} : ~In(q, WriteStages),
         UNCHANGED <<file, temp>> \/ \A q \in Caller \ {p} : ~In(q, WriteStages),
         file' # NoFile => file' \in Versions,
         call'[p].stage \in {"open_read", "read"} => Sized(p)'
  PROVE  VersionInv'
<1>1. Alone'
  BY DEF VersionInv, Alone, In
<1>2. ASSUME NEW q \in Caller, In(q, WriteStages)' PROVE Writing(q)'
  <2>1. CASE q = p
    BY <1>2, <2>1 DEF In
  <2>2. CASE q # p
    <3>1. In(q, WriteStages) /\ call'[q] = call[q]
      BY <1>2, <2>2 DEF In
    <3>2. Writing(q) /\ UNCHANGED <<file, temp>>
      BY <2>2, <3>1 DEF VersionInv
    <3>3. QED
      BY <3>1, <3>2 DEF Writing, In
  <2>3. QED
    BY <2>1, <2>2
<1>3. ASSUME NEW q \in Caller, In(q, {"open_read", "read"})' PROVE Sized(q)'
  <2>1. CASE q = p
    BY <1>3, <2>1 DEF In
  <2>2. CASE q # p
    <3>1. In(q, {"open_read", "read"}) /\ call'[q] = call[q]
      BY <1>3, <2>2 DEF In
    <3>2. Sized(q)
      BY <3>1 DEF VersionInv
    <3>3. QED
      BY <3>1, <3>2 DEF Sized
  <2>3. QED
    BY <2>1, <2>2
<1>4. QED
  BY <1>1, <1>2, <1>3 DEF VersionInv

(* A step that changes no file and ends outside WriteFile.                 *)
LEMMA VersionQuiet ==
  ASSUME VersionInv, ~shared, NEW p \in Caller,
         \A q \in Caller \ {p} : call'[q] = call[q],
         UNCHANGED <<file, temp>>,
         call'[p].stage \notin WriteStages,
         call'[p].stage \in {"open_read", "read"} => Sized(p)'
  PROVE  VersionInv'
<1>1. file' # NoFile => file' \in Versions
  BY DEF VersionInv
<1>2. QED
  BY <1>1, VersionAfter

LEMMA VersionCall ==
  ASSUME PathInv, VersionInv, ~shared, ~shared', NEW p \in Caller, PathCall(p)
  PROVE  VersionInv'
<1>1. /\ \A q \in Caller \ {p} : call'[q] = call[q]
      /\ UNCHANGED <<file, temp>>
  BY Begins
<1>2. CASE call'[p].stage \in {"create", "size"}
  BY <1>1, <1>2, VersionQuiet DEF WriteStages
<1>3. CASE call'[p].stage = "open"
  <2>1. /\ call'[p].data \in Data /\ call'[p].written = 0 /\ call'[p].found = file
        /\ shared' = (shared \/ \E q \in Caller \ {p} : In(q, WriteStages))
    BY <1>3, Begins
  <2>2. \A q \in Caller \ {p} : ~In(q, WriteStages)
    BY <2>1
  <2>3. Writing(p)'
    BY <1>1, <1>3, <2>1 DEF Writing, In
  <2>4. file' # NoFile => file' \in Versions
    BY <1>1 DEF VersionInv
  <2>5. QED
    BY <1>1, <1>3, <2>2, <2>3, <2>4, VersionAfter
<1>4. QED
  BY <1>2, <1>3, Begins

LEMMA VersionReturn ==
  ASSUME PathInv, VersionInv, ~shared, NEW p \in Caller, NEW r \in {"true", "false"},
         Return(p, r), UNCHANGED <<file, temp>>
  PROVE  VersionInv'
<1>1. call'[p].stage = "idle" /\ \A q \in Caller \ {p} : call'[q] = call[q]
  BY Returns
<1>2. QED
  BY <1>1, VersionQuiet DEF WriteStages

(* The writer goes on to another stage, with the files as they are.        *)
LEMMA VersionGo ==
  ASSUME PathInv, VersionInv, ~shared, NEW p \in Caller, NEW to \in {"replace", "clean", "handler"},
         Go(p, to), UNCHANGED <<file, temp>>, call[p].stage \in WriteStages,
         to = "replace" => temp = call[p].data,
         to \in {"replace", "clean"} => file = call[p].found,
         to = "handler" => file \in {call[p].found, call[p].data}
  PROVE  VersionInv'
<1>1. Writing(p) /\ \A q \in Caller \ {p} : ~In(q, WriteStages)
  BY OnlyWriter
<1>2. /\ call'[p].stage = to /\ call'[p].data = call[p].data /\ call'[p].found = call[p].found
      /\ \A q \in Caller \ {p} : call'[q] = call[q]
  BY GoesTo
<1>3. Writing(p)'
  <2>1. call[p].data \in Data
    BY <1>1 DEF Writing
  <2>2. CASE to = "replace"
    BY <1>2, <2>1, <2>2 DEF Writing, In
  <2>3. CASE to = "clean"
    BY <1>2, <2>1, <2>3 DEF Writing, In
  <2>4. CASE to = "handler"
    BY <1>2, <2>1, <2>4 DEF Writing, In
  <2>5. QED
    BY <2>2, <2>3, <2>4
<1>4. file' # NoFile => file' \in Versions
  BY DEF VersionInv
<1>5. call'[p].stage \notin {"open_read", "read"}
  BY <1>2
<1>6. QED
  BY <1>1, <1>2, <1>3, <1>4, <1>5, VersionAfter

LEMMA VersionStep ==
  ASSUME "flush" \notin PathFaults,
         PathInv, VersionInv, ~shared, NEW p \in Caller, PathStep(p)
  PROVE  VersionInv'
<1>1. CASE CreateDirectory(p)
  BY <1>1, VersionReturn DEF CreateDirectory
<1>2. CASE DirectoryBusy(p)
  <2>1. CASE call[p].tries + 1 < MaxAttempts
    <3>1. /\ call' = [call EXCEPT ![p] = [call[p] EXCEPT !.tries = @ + 1]] /\ call[p].stage = "create"
          /\ UNCHANGED <<file, temp>>
      BY <1>2, <2>1 DEF DirectoryBusy, Become, In, disk
    <3>2. call'[p].stage = "create" /\ \A q \in Caller \ {p} : call'[q] = call[q]
      BY <3>1 DEF PathInv, PathTypeOK, Locals
    <3>3. QED
      BY <3>1, <3>2, VersionQuiet DEF WriteStages
  <2>2. CASE ~(call[p].tries + 1 < MaxAttempts)
    BY <1>2, <2>2, VersionReturn DEF DirectoryBusy, disk
  <2>3. QED
    BY <2>1, <2>2
<1>3. CASE OpenTemp(p) /\ Go(p, "write")
  <2>1. call[p].stage = "open" /\ call[p].stage \in WriteStages /\ UNCHANGED file
    BY <1>3 DEF OpenTemp, In, WriteStages
  <2>2. Writing(p) /\ \A q \in Caller \ {p} : ~In(q, WriteStages)
    BY <2>1, OnlyWriter
  <2>3. /\ call'[p].stage = "write" /\ call'[p].data = call[p].data /\ call'[p].found = call[p].found
        /\ call'[p].written = call[p].written
        /\ \A q \in Caller \ {p} : call'[q] = call[q]
    BY <1>3, GoesTo
  <2>4. temp' = <<>>
    <3>1. call'[p].stage # "idle"
      BY <2>3
    <3>2. ~Return(p, "false")
      BY <3>1, Returns
    <3>3. QED
      BY <1>3, <3>2 DEF OpenTemp
  <2>5. call[p].data \in Seq(Nat) /\ call[p].data \in Data /\ call[p].written = 0
    BY <2>1, <2>2, TextMembers DEF Writing, In
  <2>6. temp' = SubSeq(call[p].data, 1, 0) /\ 0 <= Len(call[p].data)
    BY <2>4, <2>5, WholeText
  <2>7. Writing(p)'
    BY <2>1, <2>2, <2>3, <2>5, <2>6 DEF Writing, In
  <2>8. file' # NoFile => file' \in Versions
    BY <2>1 DEF VersionInv
  <2>9. call'[p].stage \notin {"open_read", "read"}
    BY <2>3
  <2>10. QED
    BY <2>2, <2>3, <2>7, <2>8, <2>9, VersionAfter
<1>4. CASE OpenTemp(p) /\ ~Go(p, "write")
  BY <1>4, VersionReturn DEF OpenTemp
<1>5. CASE WritePiece(p)
  <2> DEFINE n == call[p].written
  <2>1. /\ call' = [call EXCEPT ![p] = [call[p] EXCEPT !.written = n + 1]]
        /\ call[p].stage = "write" /\ UNCHANGED file /\ temp' = Put(temp, call[p].data, n + 1)
    BY <1>5 DEF WritePiece, Become, Unwritten, In
  <2>2. /\ call[p].data \in Seq(Nat) /\ n \in Nat /\ n + 1 \in 1..Len(call[p].data)
    BY <1>5, PieceType DEF WritePiece
  <2>3. Writing(p) /\ \A q \in Caller \ {p} : ~In(q, WriteStages)
    BY <2>1, OnlyWriter DEF WriteStages
  <2>4. temp = SubSeq(call[p].data, 1, n)
    BY <2>1, <2>3 DEF Writing, In
  <2>5. /\ call'[p].stage = "write" /\ call'[p].data = call[p].data /\ call'[p].found = call[p].found
        /\ call'[p].written = n + 1
        /\ \A q \in Caller \ {p} : call'[q] = call[q]
    BY <2>1 DEF PathInv, PathTypeOK, Locals
  <2> HIDE DEF n
  <2>6. temp' = SubSeq(call[p].data, 1, n + 1)
    BY <2>1, <2>2, <2>4, PutNext
  <2>7. n + 1 <= Len(call[p].data)
    BY <2>2
  <2>8. Writing(p)'
    BY <2>1, <2>3, <2>5, <2>6, <2>7 DEF Writing, In
  <2>9. file' # NoFile => file' \in Versions
    BY <2>1 DEF VersionInv
  <2>10. call'[p].stage \notin {"open_read", "read"}
    BY <2>5
  <2>11. QED
    BY <2>3, <2>5, <2>8, <2>9, <2>10, VersionAfter
<1>6. CASE CloseTemp(p)
  <2>1. /\ call[p].stage = "write" /\ call[p].stage \in WriteStages
        /\ ~(call[p].written < Len(call[p].data)) /\ Go(p, "replace") /\ UNCHANGED <<file, temp>>
    BY <1>6 DEF CloseTemp, Unwritten, In, disk, WriteStages
  <2>2. Writing(p)
    BY <2>1, OnlyWriter
  <2>3. call[p].data \in Seq(Nat) /\ call[p].written \in Nat
    BY TextMembers DEF PathInv, PathTypeOK, Locals
  <2>4. call[p].written <= Len(call[p].data) /\ temp = SubSeq(call[p].data, 1, call[p].written)
    BY <2>1, <2>2 DEF Writing, In
  <2>5. call[p].written = Len(call[p].data)
    BY <2>1, <2>3, <2>4
  <2>6. temp = call[p].data /\ file = call[p].found
    BY <2>1, <2>2, <2>3, <2>4, <2>5, WholeText DEF Writing, In
  <2>7. QED
    BY <2>1, <2>6, VersionGo
<1>7. CASE WriteThrows(p) \/ ReplaceFails(p)
  <2>1. PICK to \in {"clean", "handler"} : Go(p, to)
    BY <1>7 DEF WriteThrows, ReplaceFails
  <2>2. call[p].stage \in {"write", "replace"} /\ UNCHANGED <<file, temp>>
    BY <1>7 DEF WriteThrows, ReplaceFails, In, disk
  <2>3. call[p].stage \in WriteStages
    BY <2>2 DEF WriteStages
  <2>4. file = call[p].found
    BY <2>2, <2>3, OnlyWriter DEF Writing, In
  <2>5. QED
    BY <2>1, <2>2, <2>3, <2>4, VersionGo
<1>8. CASE Replace(p)
  <2>1. call[p].stage = "replace" /\ file # NoFile /\ file' = temp /\ temp' = NoFile /\ Go(p, "protect")
    BY <1>8 DEF Replace, Replaceable, In
  <2>2. Writing(p) /\ \A q \in Caller \ {p} : ~In(q, WriteStages)
    BY <2>1, OnlyWriter DEF WriteStages
  <2>3. call[p].data \in Data /\ temp = call[p].data /\ file = call[p].found
    BY <2>1, <2>2 DEF Writing, In
  <2>4. /\ call'[p].stage = "protect" /\ call'[p].data = call[p].data /\ call'[p].found = call[p].found
        /\ \A q \in Caller \ {p} : call'[q] = call[q]
    BY <2>1, GoesTo
  <2>5. Writing(p)'
    BY <2>1, <2>3, <2>4 DEF Writing, In
  <2>6. file' \in Versions
    BY <2>1, <2>3 DEF Versions
  <2>7. call'[p].stage \notin {"open_read", "read"}
    BY <2>4
  <2>8. QED
    BY <2>2, <2>4, <2>5, <2>6, <2>7, VersionAfter
<1>19. CASE ReplaceLoses(p)
  <2>1. call[p].stage = "replace" /\ file' = NoFile /\ UNCHANGED temp /\ Go(p, "clean")
    BY <1>19 DEF ReplaceLoses, In
  <2>2. Writing(p) /\ \A q \in Caller \ {p} : ~In(q, WriteStages)
    BY <2>1, OnlyWriter DEF WriteStages
  <2>3. call[p].data \in Data
    BY <2>2 DEF Writing
  <2>4. /\ call'[p].stage = "clean" /\ call'[p].data = call[p].data
        /\ \A q \in Caller \ {p} : call'[q] = call[q]
    BY <2>1, GoesTo
  <2>5. Writing(p)'
    BY <2>1, <2>3, <2>4 DEF Writing, In
  <2>6. call'[p].stage \notin {"open_read", "read"}
    BY <2>4
  <2>7. QED
    BY <2>1, <2>2, <2>4, <2>5, <2>6, VersionAfter
<1>9. CASE Protect(p)
  <2>1. call[p].stage = "protect" /\ call[p].stage \in WriteStages /\ UNCHANGED <<file, temp>>
    BY <1>9 DEF Protect, In, disk, WriteStages
  <2>2. file = call[p].data
    BY <2>1, OnlyWriter DEF Writing, In
  <2>3. QED
    BY <1>9, <2>1, <2>2, VersionGo, VersionReturn DEF Protect
<1>10. CASE (Clean(p) \/ Handler(p)) /\ ~InUse(p)
  <2>1. call[p].stage \in {"clean", "handler"} /\ UNCHANGED file /\ temp' = NoFile /\ Return(p, "false")
    BY <1>10 DEF Clean, Handler, In
  <2>2. \A q \in Caller \ {p} : ~In(q, WriteStages)
    BY <2>1, OnlyWriter DEF WriteStages
  <2>3. call'[p].stage = "idle" /\ \A q \in Caller \ {p} : call'[q] = call[q]
    BY <2>1, Returns
  <2>4. file' # NoFile => file' \in Versions
    BY <2>1 DEF VersionInv
  <2>5. call'[p].stage \notin WriteStages /\ call'[p].stage \notin {"open_read", "read"}
    BY <2>3 DEF WriteStages
  <2>6. QED
    BY <2>2, <2>3, <2>4, <2>5, VersionAfter
(* With one writer nobody else has the temporary file open.                *)
<1>11. CASE (Clean(p) \/ Handler(p)) /\ InUse(p)
  <2>1. call[p].stage \in WriteStages
    BY <1>11 DEF Clean, Handler, In, WriteStages
  <2>2. QED
    BY <1>11, <2>1, OnlyWriter DEF InUse, In, WriteStages
<1>12. CASE TakeSize(p) /\ file # NoFile
  <2>1. /\ call' = [call EXCEPT ![p] = [call[p] EXCEPT !.size = Len(file), !.stage = "open_read"]]
        /\ UNCHANGED <<file, temp>>
    BY <1>12 DEF TakeSize, Become, disk
  <2>2. /\ call'[p].stage = "open_read" /\ call'[p].size = Len(file)
        /\ \A q \in Caller \ {p} : call'[q] = call[q]
    BY <2>1 DEF PathInv, PathTypeOK, Locals
  <2>3. file \in Versions
    BY <1>12 DEF VersionInv
  <2>4. Sized(p)'
    BY <2>2, <2>3 DEF Sized
  <2>5. QED
    BY <2>1, <2>2, <2>4, VersionQuiet DEF WriteStages
<1>13. CASE TakeSize(p) /\ file = NoFile
  BY <1>13, VersionReturn DEF TakeSize, disk
<1>14. CASE OpenRead(p) /\ Go(p, "read")
  <2>1. /\ call'[p].stage = "read" /\ call'[p].size = call[p].size
        /\ \A q \in Caller \ {p} : call'[q] = call[q]
    BY <1>14, GoesTo
  <2>2. Sized(p) /\ UNCHANGED <<file, temp>>
    BY <1>14 DEF OpenRead, VersionInv, In, disk
  <2>3. Sized(p)'
    BY <2>1, <2>2 DEF Sized
  <2>4. QED
    BY <2>1, <2>2, <2>3, VersionQuiet DEF WriteStages
<1>15. CASE OpenRead(p) /\ ~Go(p, "read")
  BY <1>15, VersionReturn DEF OpenRead, disk
<1>16. CASE Read(p) /\ ~(call[p].size > Len(file))
  <2>1. /\ call' = [call EXCEPT ![p] =
             [Idle EXCEPT !.answer = "true", !.got = SubSeq(file, 1, call[p].size)]]
        /\ UNCHANGED <<file, temp>>
    BY <1>16 DEF Read, Become, disk
  <2>2. call'[p].stage = "idle" /\ \A q \in Caller \ {p} : call'[q] = call[q]
    BY <2>1 DEF PathInv, PathTypeOK, Idle
  <2>3. QED
    BY <2>1, <2>2, VersionQuiet DEF WriteStages
<1>17. CASE Read(p) /\ call[p].size > Len(file)
  BY <1>17, VersionReturn DEF Read, disk
<1>18. QED
  BY <1>1, <1>2, <1>3, <1>4, <1>5, <1>6, <1>7, <1>8, <1>9, <1>10, <1>11, <1>12, <1>13, <1>14,
     <1>15, <1>16, <1>17, <1>19 DEF PathStep

LEMMA VersionNext ==
  ASSUME "flush" \notin PathFaults
  PROVE  PathInv /\ VersionInv /\ [PathNext]_pathVars => VersionInv'
<1> SUFFICES ASSUME PathInv, VersionInv, [PathNext]_pathVars, ~shared' PROVE VersionInv'
  BY DEF VersionInv
<1>1. CASE UNCHANGED pathVars
  <2>1. UNCHANGED <<file, temp, call, shared>>
    BY <1>1 DEF pathVars, disk, pathSeen
  <2>2. Alone /\ Alone'
    BY <2>1 DEF VersionInv, Alone, In
  <2>3. \A p \in Caller : /\ In(p, WriteStages)' => Writing(p)'
                          /\ In(p, {"open_read", "read"})' => Sized(p)'
    BY <2>1 DEF VersionInv, In, Writing, Sized
  <2>4. QED
    BY <2>1, <2>2, <2>3 DEF VersionInv
<1>2. ASSUME NEW p \in Caller, PathCall(p) PROVE VersionInv'
  <2>1. ~shared
    BY <1>2, Begins
  <2>2. QED
    BY <1>2, <2>1, VersionCall
<1>3. ASSUME NEW p \in Caller, PathStep(p) PROVE VersionInv'
  <2>1. UNCHANGED shared
    BY <1>3 DEF PathStep, CreateDirectory, DirectoryBusy, OpenTemp, WritePiece, CloseTemp,
         WriteThrows, Replace, ReplaceFails, ReplaceLoses, Protect, Clean, Handler, TakeSize, OpenRead, Read,
         Go, Return, Become, pathSeen
  <2>2. QED
    BY <1>3, <2>1, VersionStep
<1>4. ASSUME NEW p \in Caller, PathKill(p) PROVE VersionInv'
  <2>1. ~shared /\ UNCHANGED <<file, temp>>
    BY <1>4 DEF PathKill, disk, pathSeen
  <2>2. call'[p].stage = "dead" /\ \A q \in Caller \ {p} : call'[q] = call[q]
    BY <1>4, Dies DEF PathKill
  <2>3. QED
    BY <2>1, <2>2, VersionQuiet DEF WriteStages
<1>5. ASSUME NEW p \in Caller, PathRestart(p) PROVE VersionInv'
  <2>1. Go(p, "idle") /\ UNCHANGED <<file, temp>>
    BY <1>5 DEF PathRestart, disk
  <2>2. /\ call'[p].stage = "idle" /\ (\A q \in Caller \ {p} : call'[q] = call[q])
        /\ ~shared
    BY <2>1, GoesTo
  <2>3. QED
    BY <2>1, <2>2, VersionQuiet DEF WriteStages
<1>6. QED
  BY <1>1, <1>2, <1>3, <1>4, <1>5 DEF PathNext

WriteInv == PathInv /\ AnswerInv /\ VersionInv

LEMMA WriteInvHolds == ASSUME "flush" \notin PathFaults PROVE PathSpec => []WriteInv
<1>1. PathInit => AnswerInv
  BY DEF PathInit, AnswerInv, In, Idle
<1>2. PathInit => VersionInv
  BY DEF PathInit, VersionInv, Alone, In, Idle, Versions, WriteStages
<1>3. PathInit => WriteInv
  BY PathTypeInit, <1>1, <1>2 DEF WriteInv
<1>4. WriteInv /\ [PathNext]_pathVars => WriteInv'
  BY PathTypeNext, AnswerNext, VersionNext DEF WriteInv
<1>5. QED
  BY <1>3, <1>4, PTL DEF PathSpec

(* What changes the stage of p: a step, a call, a kill or a restart of p.  *)
LEMMA OwnStep ==
  ASSUME PathInv, NEW p \in Caller, NEW q \in Caller, q # p,
         PathCall(q) \/ PathStep(q) \/ PathKill(q) \/ PathRestart(q)
  PROVE  call'[p] = call[p]
<1>1. CASE PathCall(q)
  BY <1>1, Begins
<1>2. CASE PathStep(q)
  <2>1. \E l : call' = [call EXCEPT ![q] = l]
    <3>1. CASE CreateDirectory(q) \/ DirectoryBusy(q) \/ OpenTemp(q) \/ WritePiece(q)
      BY <3>1 DEF CreateDirectory, DirectoryBusy, OpenTemp, WritePiece, Go, Return, Become
    <3>2. CASE CloseTemp(q) \/ WriteThrows(q) \/ Replace(q) \/ ReplaceFails(q) \/ ReplaceLoses(q)
      BY <3>2 DEF CloseTemp, WriteThrows, Replace, ReplaceFails, ReplaceLoses, Go, Become
    <3>3. CASE Protect(q) \/ Clean(q) \/ Handler(q)
      BY <3>3 DEF Protect, Clean, Handler, Go, Return, Become
    <3>4. CASE TakeSize(q) \/ OpenRead(q) \/ Read(q)
      BY <3>4 DEF TakeSize, OpenRead, Read, Go, Return, Become
    <3>5. QED
      BY <1>2, <3>1, <3>2, <3>3, <3>4 DEF PathStep
  <2>2. QED
    BY <2>1 DEF PathInv, PathTypeOK
<1>3. CASE PathKill(q)
  BY <1>3, Dies DEF PathKill
<1>4. CASE PathRestart(q)
  BY <1>4, GoesTo DEF PathRestart
<1>5. QED
  BY <1>1, <1>2, <1>3, <1>4

ReadsRight(p) ==
  (~shared /\ In(p, {"read"}) /\ call'[p].answer = "true")
    => \E d, e \in Versions : Len(e) <= Len(d) /\ call'[p].got = SubSeq(d, 1, Len(e))

LEMMA ReadsStep ==
  ASSUME WriteInv, PathNext, NEW p \in Caller
  PROVE  ReadsRight(p)
<1> SUFFICES ASSUME ~shared, In(p, {"read"}), call'[p].answer = "true"
             PROVE  \E d, e \in Versions : Len(e) <= Len(d) /\ call'[p].got = SubSeq(d, 1, Len(e))
  BY DEF ReadsRight
<1>1. call[p].stage = "read" /\ call[p].answer = "none"
  BY DEF WriteInv, AnswerInv, In
<1>2. PICK q \in Caller : PathCall(q) \/ PathStep(q) \/ PathKill(q) \/ PathRestart(q)
  BY DEF PathNext
<1>3. PathInv
  BY DEF WriteInv
<1>4. q = p
  BY <1>1, <1>2, <1>3, OwnStep
<1>5. ~PathCall(p)
  BY <1>1, <1>3, Begins
<1>6. ~PathKill(p) /\ ~PathRestart(p)
  BY <1>1, <1>3, Dies DEF PathKill, PathRestart, In
<1>7. Read(p)
  BY <1>1, <1>2, <1>4, <1>5, <1>6 DEF PathStep, CreateDirectory, DirectoryBusy, OpenTemp, WritePiece,
     Unwritten, CloseTemp, WriteThrows, Replace, ReplaceFails, ReplaceLoses, Protect, Clean, Handler, TakeSize,
     OpenRead, In
<1>8. ~(call[p].size > Len(file))
  <2>1. ~Return(p, "false")
    BY <1>3, Returns
  <2>2. QED
    BY <1>7, <2>1 DEF Read
<1>9. call'[p].got = SubSeq(file, 1, call[p].size)
  <2>1. call' = [call EXCEPT ![p] =
          [Idle EXCEPT !.answer = "true", !.got = SubSeq(file, 1, call[p].size)]]
    BY <1>7, <1>8 DEF Read, Become
  <2>2. QED
    BY <1>3, <2>1 DEF PathInv, PathTypeOK, Idle
<1>10. file \in Versions /\ file \in Seq(Nat)
  BY <1>1, <1>3, TextMembers DEF WriteInv, VersionInv, PathInv, PathTypeOK, OpenInv, In
<1>11. PICK e \in Versions : call[p].size = Len(e)
  BY <1>1 DEF WriteInv, VersionInv, Sized, In
<1>12. Len(e) <= Len(file)
  <2>1. call[p].size \in Nat /\ Len(file) \in Nat
    BY <1>3, <1>10 DEF PathInv, PathTypeOK, Locals
  <2>2. QED
    BY <1>8, <1>11, <2>1
<1>13. QED
  BY <1>9, <1>10, <1>11, <1>12

(* With one writer at a time, for any texts, readers and kills: a reader   *)
(* gets a text that was written, or was there at first, at most cut to the *)
(* length of another.                                                      *)
THEOREM ReadsHolds == ASSUME "flush" \notin PathFaults PROVE PathSpec => ReadsOneVersion
<1>1. WriteInv /\ [PathNext]_pathVars =>
        [\A p \in Caller :
           (~shared /\ In(p, {"read"}) /\ call'[p].answer = "true")
             => \E d, e \in Versions :
                  Len(e) <= Len(d) /\ call'[p].got = SubSeq(d, 1, Len(e))]_pathVars
  BY ReadsStep DEF ReadsRight
<1>2. QED
  BY WriteInvHolds, <1>1, PTL DEF PathSpec, ReadsOneVersion

AnswersRight(p) ==
  (~shared /\ In(p, WriteStages) /\ call'[p].stage = "idle")
    => IF call'[p].answer = "true"
         THEN file' = call[p].data /\ call[p].found # NoFile
         ELSE \/ file' = call[p].found
              \/ In(p, {"clean"}) /\ file' = NoFile
              \/ In(p, {"handler"}) /\ file' = call[p].data

LEMMA AnswersStep ==
  ASSUME WriteInv, PathNext, NEW p \in Caller
  PROVE  AnswersRight(p)
<1> SUFFICES ASSUME ~shared, call[p].stage \in WriteStages, call'[p].stage = "idle"
             PROVE  IF call'[p].answer = "true"
                      THEN file' = call[p].data /\ call[p].found # NoFile
                      ELSE \/ file' = call[p].found
                           \/ In(p, {"clean"}) /\ file' = NoFile
                           \/ In(p, {"handler"}) /\ file' = call[p].data
  BY DEF AnswersRight, In
<1>1. Writing(p) /\ PathInv /\ \A r \in Caller \ {p} : ~In(r, WriteStages)
  BY OnlyWriter DEF WriteInv
<1>2. PICK q \in Caller : PathCall(q) \/ PathStep(q) \/ PathKill(q) \/ PathRestart(q)
  BY DEF PathNext
<1>3. q = p
  BY <1>1, <1>2, OwnStep DEF WriteStages
<1>4. ~PathCall(p)
  BY <1>1, Begins DEF WriteStages
<1>5. ~PathKill(p) /\ ~PathRestart(p)
  BY <1>1, Dies DEF PathKill, PathRestart, In, WriteStages
<1>6. \A to : Go(p, to) => to = "idle"
  BY <1>1, GoesTo
<1>7. \A r \in {"true", "false"} : Return(p, r) => call'[p].answer = r
  BY <1>1, Returns
<1>8. ~InUse(p)
  BY <1>1 DEF InUse, In, WriteStages
<1>9. CASE OpenTemp(p)
  <2>1. call[p].stage = "open" /\ Return(p, "false") /\ UNCHANGED file
    BY <1>6, <1>9 DEF OpenTemp, In
  <2>2. QED
    BY <1>1, <1>7, <2>1 DEF Writing, In
<1>10. CASE Protect(p)
  <2>1. call[p].stage = "protect" /\ Return(p, "true") /\ UNCHANGED file
    BY <1>6, <1>10 DEF Protect, In, disk
  <2>2. QED
    BY <1>1, <1>7, <2>1 DEF Writing, In
<1>11. CASE Clean(p)
  <2>1. call[p].stage = "clean" /\ Return(p, "false") /\ UNCHANGED file
    BY <1>8, <1>11 DEF Clean, In
  <2>2. QED
    BY <1>1, <1>7, <2>1 DEF Writing, In
<1>12. CASE Handler(p)
  <2>1. call[p].stage = "handler" /\ Return(p, "false") /\ UNCHANGED file
    BY <1>8, <1>12 DEF Handler, In
  <2>2. QED
    BY <1>1, <1>7, <2>1 DEF Writing, In
<1>13. CASE WritePiece(p)
  <2>1. /\ call' = [call EXCEPT ![p] = [call[p] EXCEPT !.written = call[p].written + 1]]
        /\ call[p].stage = "write"
    BY <1>13 DEF WritePiece, Become, Unwritten, In
  <2>2. call'[p].stage = "write"
    BY <1>1, <2>1 DEF PathInv, PathTypeOK, Locals
  <2>3. QED
    BY <2>2
<1>14. CASE CloseTemp(p) \/ WriteThrows(p) \/ Replace(p) \/ ReplaceFails(p) \/ ReplaceLoses(p)
  BY <1>6, <1>14 DEF CloseTemp, WriteThrows, Replace, ReplaceFails, ReplaceLoses
<1>15. ~CreateDirectory(p) /\ ~DirectoryBusy(p) /\ ~TakeSize(p) /\ ~OpenRead(p) /\ ~Read(p)
  BY DEF CreateDirectory, DirectoryBusy, TakeSize, OpenRead, Read, In, WriteStages
<1>16. QED
  BY <1>2, <1>3, <1>4, <1>5, <1>9, <1>10, <1>11, <1>12, <1>13, <1>14, <1>15 DEF PathStep

(* With one writer at a time: true means that the file is the text, false  *)
(* that it is untouched, but for a replacement that failed with the file   *)
(* gone, and an exception after the replacement.                           *)
THEOREM AnswersHolds == ASSUME "flush" \notin PathFaults PROVE PathSpec => AnswersTruly
<1>1. WriteInv /\ [PathNext]_pathVars =>
        [\A p \in Caller :
           (~shared /\ In(p, WriteStages) /\ call'[p].stage = "idle")
             => IF call'[p].answer = "true"
                  THEN file' = call[p].data /\ call[p].found # NoFile
                  ELSE \/ file' = call[p].found
                       \/ In(p, {"clean"}) /\ file' = NoFile
                       \/ In(p, {"handler"}) /\ file' = call[p].data]_pathVars
  BY AnswersStep DEF AnswersRight
<1>2. QED
  BY WriteInvHolds, <1>1, PTL DEF PathSpec, AnswersTruly
==========================================================================
