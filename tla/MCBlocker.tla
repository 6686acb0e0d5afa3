---------------------------- MODULE MCBlocker ----------------------------
(***************************************************************************)
(* Values of Blocker's constants for TLC.                                  *)
(***************************************************************************)
EXTENDS Blocker, TLC

CONSTANTS p1, p2, d1, d2, u1, u2

User(u) == <<"user", u>>

(* A short list and a longer one, so that one does not cover the other;    *)
(* the empty list is what a caller has before it loads any.                *)
MCLists == {<<d1>>, <<d2, d1>>}
MCOneList == {<<d1>>}

Clean == <<User(u1)>>
(* Left by an earlier session, with a line of the user's behind the block. *)
BlockedFile == <<User(u1), Managed, Start, Entry(d1), End, User(u2)>>
(* Left by an interrupted copy, a line of the user's added since.          *)
TornFile == <<Managed, Start, Entry(d1), User(u2)>>
(* The entries between the markers were taken out.                         *)
Hollow == <<User(u1), Start, End>>

MCFewFiles == {Clean}
MCTwoFiles == {Clean, BlockedFile}
MCManyFiles == {Clean, BlockedFile, TornFile, NoFile}
MCEdits == {Hollow, NoFile}
MCHollow == {Hollow}

Symmetric == Permutations({p1, p2})
==========================================================================
