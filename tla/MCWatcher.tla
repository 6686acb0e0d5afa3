---------------------------- MODULE MCWatcher ----------------------------
(***************************************************************************)
(* Values of Watcher's constants for TLC.                                  *)
(***************************************************************************)
EXTENDS Watcher

CONSTANTS p1, w1, d1, u1

Clean == <<<<"user", u1>>>>
BlockedFile == <<Managed, Start, Entry(d1), End>>

MCList == {<<d1>>}
MCFiles == {Clean, BlockedFile}
MCBlocked == {BlockedFile}
MCClean == {Clean}
MCEdits == {Clean, NoFile}
==========================================================================
