--------------------------- MODULE Enforcement ---------------------------
(***************************************************************************)
(* What the program promises to one caller of applyBlock or reapplyBlock,  *)
(* without files, markers, backups or a helper process: at most one list   *)
(* is enforced; a call may stop enforcing it, later enforces the list of   *)
(* its caller, and reports success only after it did.                      *)
(***************************************************************************)
EXTENDS Naturals, Sequences

CONSTANTS
  Process,      \* callers
  DomainLists   \* the lists they hand over

VARIABLES
  enforced,   \* the list whose block stands, <<>> if none does
  goal,       \* the list each caller has loaded
  busy,       \* a call of the caller, or what it left behind, is at work
  met,        \* the call has enforced its list
  result,     \* what the last call of the caller returned
  edits,      \* how often the user edited the file
  crashes     \* how often a caller was killed

outside == <<edits, crashes>>
vars == <<enforced, goal, busy, met, result, outside>>

Init ==
  /\ enforced \in DomainLists \cup {<<>>}
  /\ goal = [p \in Process |-> <<>>]
  /\ busy = [p \in Process |-> FALSE]
  /\ met = [p \in Process |-> FALSE]
  /\ result = [p \in Process |-> "none"]
  /\ edits = 0 /\ crashes = 0

Load(p, ds) ==
  /\ ~busy[p]
  /\ goal' = [goal EXCEPT ![p] = ds]
  /\ UNCHANGED <<enforced, busy, met, result, outside>>

Begin(p) ==
  /\ ~busy[p]
  /\ busy' = [busy EXCEPT ![p] = TRUE]
  /\ result' = [result EXCEPT ![p] = "none"]
  /\ UNCHANGED <<enforced, goal, met, outside>>

(* Between the old block and the new one there may be none.                *)
Drop(p) ==
  /\ busy[p] /\ ~met[p]
  /\ enforced' = <<>>
  /\ UNCHANGED <<goal, busy, met, result, outside>>

Enforce(p) ==
  /\ busy[p] /\ ~met[p]
  /\ goal[p] # <<>>
  /\ enforced' = goal[p]
  /\ met' = [met EXCEPT ![p] = TRUE]
  /\ UNCHANGED <<goal, busy, result, outside>>

(* A failure reported after all, or a caller killed before it could hear   *)
(* of the success: the call may no longer claim it.                        *)
Doubt(p) ==
  /\ busy[p] /\ met[p]
  /\ met' = [met EXCEPT ![p] = FALSE]
  /\ \E left \in BOOLEAN : busy' = [busy EXCEPT ![p] = left]
  /\ UNCHANGED <<enforced, goal, result, outside>>

Succeed(p) ==
  /\ busy[p] /\ met[p]
  /\ busy' = [busy EXCEPT ![p] = FALSE]
  /\ met' = [met EXCEPT ![p] = FALSE]
  /\ result' = [result EXCEPT ![p] = "applied"]
  /\ UNCHANGED <<enforced, goal, outside>>

(* Also a call that is refused at once, or that finds a block in place,    *)
(* and ("none") what a killed caller left behind, when it ends.            *)
ReturnOther(p, r) ==
  /\ r # "applied"
  /\ ~met[p]
  /\ busy' = [busy EXCEPT ![p] = FALSE]
  /\ result' = [result EXCEPT ![p] = r]
  /\ UNCHANGED <<enforced, goal, met, outside>>

(* The caller is killed; what its call started may go on, or may be over.  *)
Crash(p) ==
  /\ crashes' = crashes + 1
  /\ result' = [result EXCEPT ![p] = "none"]
  /\ \E left \in BOOLEAN : busy' = [busy EXCEPT ![p] = left]
  /\ met' \in {met, [met EXCEPT ![p] = FALSE]}
  /\ UNCHANGED <<enforced, goal, edits>>

(* The user edits the file.                                                *)
Tamper ==
  /\ edits' = edits + 1
  /\ enforced' \in DomainLists \cup {<<>>}
  /\ UNCHANGED <<goal, busy, met, result, crashes>>

Next ==
  \/ \E p \in Process :
       \/ \E ds \in DomainLists \cup {<<>>} : Load(p, ds)
       \/ Begin(p) \/ Drop(p) \/ Enforce(p) \/ Doubt(p) \/ Succeed(p)
       \/ \E r \in {"none", "failed", "intact", "saved"} : ReturnOther(p, r)
       \/ Crash(p)
  \/ Tamper

Spec == Init /\ [][Next]_vars
==========================================================================
