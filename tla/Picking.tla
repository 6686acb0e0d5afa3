----------------------------- MODULE Picking -----------------------------
(***************************************************************************)
(* The elements of a sequence at some of its places, in their order.       *)
(***************************************************************************)
EXTENDS Naturals, FiniteSets

(* How many of the places are not behind i.                                *)
Rank(places, i) == Cardinality({j \in places : j <= i})

Picked(f, places) ==
  [k \in 1..Cardinality(places) |-> f[CHOOSE i \in places : Rank(places, i) = k]]
==========================================================================
