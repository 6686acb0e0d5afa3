---------------------------- MODULE HostsText ----------------------------
(***************************************************************************)
(* The hosts file as the program sees it: a sequence of lines.  Both loops *)
(* of Blocker that read it (applyBlock, isBlocked) work line by line and   *)
(* look at nothing but whether a line contains one of the two markers, so  *)
(* a line is a pair <<kind, text>> and its characters are left out.        *)
(***************************************************************************)
EXTENDS Integers, Sequences, Picking

CONSTANTS
  Domain,     \* the host names a block list can hold
  UserLine,   \* the other lines a user keeps in the file
  NoFile      \* what stands for a file that does not exist

Start   == <<"marker", "start">>      \* BLOCK_START_MARKER
End     == <<"marker", "end">>        \* BLOCK_END_MARKER
Managed == <<"comment", "managed">>   \* "# Managed by ChickenJockey"
Gap     == <<"comment", "gap">>       \* zeros, where nobody wrote
Marker  == {Start, End}

Entry(d) == <<"entry", d>>            \* "127.0.0.1 " << domain

Line == Marker \cup {Managed, Gap} \cup {Entry(d) : d \in Domain}
               \cup {<<"user", u>> : u \in UserLine}

File == Seq(Line) \cup {NoFile}

Has(f, line) == \E i \in 1..Len(f) : f[i] = line

(* isBlocked: both markers occur, in any order and whatever is between.    *)
Blocked(f) == f # NoFile /\ Has(f, Start) /\ Has(f, End)

(* The lines applyBlock appends to what it kept of the old file.           *)
BlockLines(ds) ==
  <<Start>> \o [i \in 1..Len(ds) |-> Entry(ds[i])] \o <<End>>

Composed(kept, ds) == kept \o <<Managed>> \o BlockLines(ds)

(* The lines outside every block, and outside a block that never ends:     *)
(* what applyBlock has to keep, said without its loop.                     *)
Outside(f, i) ==
  /\ f[i] \notin Marker
  /\ \A m \in 1..(i - 1) : f[m] = Start => \E n \in (m + 1)..(i - 1) : f[n] = End

Kept(f) == Picked(f, {i \in 1..Len(f) : Outside(f, i)})

UserLines(f) ==
  IF f = NoFile THEN <<>> ELSE SelectSeq(f, LAMBDA line : line[1] = "user")

(* Writing text in its place in a file, behind the first n lines, of which *)
(* another may have taken some away meanwhile; what is behind it stays.    *)
Before(f, n) == [i \in 1..n |-> IF i <= Len(f) THEN f[i] ELSE Gap]

Overlay(f, n, text) == Before(f, n) \o text \o SubSeq(f, n + Len(text) + 1, Len(f))

(* The block of list ds stands in f, whole, at line i.                     *)
BlockAt(f, i, ds) ==
  /\ i \in 1..Len(f)
  /\ i + Len(ds) + 1 <= Len(f)
  /\ f[i] = Start
  /\ \A k \in 1..Len(ds) : f[i + k] = Entry(ds[k])
  /\ f[i + Len(ds) + 1] = End
==========================================================================
