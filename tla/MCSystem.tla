---------------------------- MODULE MCSystem ----------------------------
(***************************************************************************)
(* Values of System's constants for TLC.                                   *)
(***************************************************************************)
EXTENDS System, TLC

CONSTANTS p1, p2, d1, d2, d3, u1, u2, local, n1, n2

Clean == <<<<"user", u1>>>>
(* Left by a copy that was cut short.                                      *)
Torn == <<<<"user", u1>>, Managed, Start, Entry(d1)>>

MCLists == {<<d1>>, <<d2>>}
MCNames == {<<d1>>, <<d2>>, <<d2, d3>>}
MCDebugList == <<d1>>
MCClean == {Clean}
MCFiles == {Clean, Torn}
MCDefault == <<<<"user", u2>>>>

(* A list as one is published, in a file whose lines end with "lf", with   *)
(* d1 in its comments only; a text that lists nothing; and texts of one    *)
(* name.                                                                   *)
Published == <<local, "blank", d2, "blank", "#", d1, "lf", "#", d1, "lf", "lf", d3>>
MCFile == {Published}
MCComment == {<<"#", "blank", d1>>}
MCTyped == {<<d1>>, <<d2>>}
MCNone == {}

(* Every line of up to four tokens that is well formed is read as meant.   *)
ASSUME LinesReadAsMeant ==
  ReadAsMeant(UNION {[1..n -> Token \ {"lf"}] : n \in 0..4})

(* ListedIsBlocked is about files and texts of this kind.                  *)
ASSUME ListsAndFilesOfTheProgram == FilesManaged /\ TextsMeant

(* One option at a time, as the help text shows them.                      *)
MCModes == {{"gui"}, {"debug"}, {"test"}, {"stop"}, {"reset"}}
MCWindow == {{"gui"}}
MCWindowReset == {{"gui"}, {"reset"}}

(* Bound: a crash or an edit.  Two instances at work together make one     *)
(* call: what is checked of several calls is about instances that were     *)
(* never together.  Crypto tests, two of them or one beside a window, a    *)
(* stop or a reset, stand beside one call that has not come to the hosts   *)
(* file, and no edit: no call looks at passwords, nor a test at a file of  *)
(* the calls'.                                                             *)
Testing ==
  \/ \E p \in Process : stage[p] \in {"gate_test"} \cup Test!Phases
  \/ \E n \in DOMAIN store : store[n] # NoText
Bounded ==
  /\ crashes + edits <= 1
  /\ overlap => calls <= 1
  /\ Testing => original = Clean /\ hosts \in {Clean, MCDefault} /\ calls <= 1 /\ edits = 0

Symmetric ==
  {f @@ g : f \in Permutations({p1, p2}), g \in Permutations({n1, n2})}
==========================================================================
