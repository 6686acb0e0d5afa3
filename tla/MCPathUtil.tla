--------------------------- MODULE MCPathUtil ---------------------------
(***************************************************************************)
(* Values of PathUtil's constants for TLC.                                 *)
(***************************************************************************)
EXTENDS PathUtil, TLC
CONSTANTS c1, c2
MCData == {<<1, 1, 1>>, <<2>>}
MCInitial == {<<3>>, NoFile}
Symmetric == Permutations({c1, c2})
==========================================================================
