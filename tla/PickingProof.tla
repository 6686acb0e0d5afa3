--------------------------- MODULE PickingProof ---------------------------
(***************************************************************************)
(* What Picked returns, and with it what Kept of HostsText does with one   *)
(* more line: the step of the reading loop.                                *)
(***************************************************************************)
EXTENDS HostsText, FiniteSetTheorems, TLAPS

(* Later places have higher ranks.                                         *)
LEMMA RankRises ==
  ASSUME NEW S \in SUBSET Nat, IsFiniteSet(S), NEW i \in S, NEW j \in S, i < j
  PROVE  /\ Rank(S, i) \in 1..Cardinality(S)
         /\ Rank(S, j) \in 1..Cardinality(S)
         /\ Rank(S, i) < Rank(S, j)
<1> DEFINE low(x) == {y \in S : y <= x}
<1>1. ASSUME NEW x \in S
      PROVE  /\ IsFiniteSet(low(x)) /\ Cardinality(low(x)) \in Nat
             /\ Cardinality(low(x)) <= Cardinality(S) /\ Cardinality(low(x)) # 0
  <2>1. IsFiniteSet(low(x)) /\ Cardinality(low(x)) <= Cardinality(S)
    BY FS_Subset
  <2>2. x \in low(x)
    OBVIOUS
  <2>3. QED
    BY <2>1, <2>2, FS_CardinalityType, FS_EmptySet
<1>2. low(i) \in SUBSET low(j) /\ j \in low(j) /\ j \notin low(i)
  <2>1. i \in Nat /\ j \in Nat /\ S \subseteq Nat
    OBVIOUS
  <2>2. \A y \in Nat : y <= i => y <= j
    BY <2>1
  <2>3. j <= j /\ ~(j <= i)
    BY <2>1
  <2>4. QED
    BY <2>1, <2>2, <2>3
<1>3. Cardinality(low(i)) <= Cardinality(low(j)) /\ Cardinality(low(i)) # Cardinality(low(j))
  BY <1>1, <1>2, FS_Subset
<1>4. Cardinality(S) \in Nat
  BY FS_CardinalityType
<1> HIDE DEF low
<1>5. Rank(S, i) = Cardinality(low(i)) /\ Rank(S, j) = Cardinality(low(j))
  BY DEF Rank, low
<1>6. QED
  BY <1>1, <1>3, <1>4, <1>5

(* Every rank up to the number of places is that of one place.             *)
LEMMA RankOnto ==
  ASSUME NEW S \in SUBSET Nat, IsFiniteSet(S)
  PROVE  /\ \A i \in S : Rank(S, i) \in 1..Cardinality(S)
         /\ \A i, j \in S : Rank(S, i) = Rank(S, j) => i = j
         /\ \A k \in 1..Cardinality(S) : \E i \in S : Rank(S, i) = k
<1> DEFINE n == Cardinality(S)
           r == [i \in S |-> Rank(S, i)]
<1>1. n \in Nat /\ IsFiniteSet(1..n) /\ Cardinality(1..n) = n
  BY FS_CardinalityType, FS_Interval
<1>2. ASSUME NEW i \in S PROVE Rank(S, i) \in 1..n
  <2> DEFINE low == {y \in S : y <= i}
  <2>1. IsFiniteSet(low) /\ Cardinality(low) <= n
    BY FS_Subset
  <2>2. i \in low
    OBVIOUS
  <2>3. Cardinality(low) \in Nat /\ Cardinality(low) # 0
    BY <2>1, <2>2, FS_CardinalityType, FS_EmptySet
  <2> HIDE DEF low, n
  <2>4. Rank(S, i) = Cardinality(low)
    BY DEF Rank, low
  <2>5. QED
    BY <1>1, <2>1, <2>3, <2>4
<1>3. \A i, j \in S : Rank(S, i) = Rank(S, j) => i = j
  <2> SUFFICES ASSUME NEW i \in S, NEW j \in S, i # j PROVE Rank(S, i) # Rank(S, j)
    OBVIOUS
  <2>1. i < j \/ j < i
    OBVIOUS
  <2>2. Rank(S, i) < Rank(S, j) \/ Rank(S, j) < Rank(S, i)
    BY <2>1, RankRises
  <2>3. QED
    BY <1>1, <1>2, <2>2
<1>4. r \in Injection(S, 1..n)
  BY <1>2, <1>3 DEF Injection, IsInjective
<1>5. r \in Surjection(S, 1..n)
  <2> HIDE DEF r
  <2>1. QED
    BY <1>1, <1>4, FS_Injection
<1>6. QED
  BY <1>2, <1>3, <1>5 DEF Surjection

(* The k-th element picked is the one at the place of rank k.              *)
LEMMA PickedElements ==
  ASSUME NEW S \in SUBSET Nat, IsFiniteSet(S), NEW f
  PROVE  /\ DOMAIN Picked(f, S) = 1..Cardinality(S)
         /\ \A i \in S : Picked(f, S)[Rank(S, i)] = f[i]
         /\ \A k \in 1..Cardinality(S) : \E i \in S : Rank(S, i) = k /\ Picked(f, S)[k] = f[i]
<1>1. ASSUME NEW k \in 1..Cardinality(S)
      PROVE  \E i \in S : Rank(S, i) = k /\ Picked(f, S)[k] = f[i]
  <2>1. \E i \in S : Rank(S, i) = k
    BY RankOnto
  <2> DEFINE c == CHOOSE i \in S : Rank(S, i) = k
  <2>2. c \in S /\ Rank(S, c) = k
    BY <2>1
  <2>3. Picked(f, S)[k] = f[c]
    BY DEF Picked
  <2>4. QED
    BY <2>2, <2>3
<1>2. DOMAIN Picked(f, S) = 1..Cardinality(S)
  BY DEF Picked
<1>3. ASSUME NEW i \in S PROVE Picked(f, S)[Rank(S, i)] = f[i]
  BY <1>1, RankOnto
<1>4. QED
  BY <1>1, <1>2, <1>3

LEMMA PickedSeq ==
  ASSUME NEW D, NEW f, NEW S \in SUBSET Nat, IsFiniteSet(S), \A i \in S : f[i] \in D
  PROVE  /\ Picked(f, S) \in Seq(D)
         /\ Len(Picked(f, S)) = Cardinality(S) /\ Cardinality(S) \in Nat
<1>1. Cardinality(S) \in Nat
  BY FS_CardinalityType
<1>2. \A k \in 1..Cardinality(S) : Picked(f, S)[k] \in D
  BY PickedElements
<1>3. Picked(f, S) = [k \in 1..Cardinality(S) |-> Picked(f, S)[k]]
  BY DEF Picked
<1> DEFINE n == Cardinality(S)
           g == Picked(f, S)
<1> HIDE DEF n, g
<1>4. g \in Seq(D) /\ Len(g) = n
  BY <1>1, <1>2, <1>3 DEF g, n
<1>5. QED
  BY <1>1, <1>4 DEF g, n

(* Elements are picked from the elements.                                  *)
LEMMA PickedType ==
  ASSUME NEW D, NEW f \in Seq(D), NEW S \in SUBSET (1..Len(f))
  PROVE  /\ Picked(f, S) \in Seq(D)
         /\ Len(Picked(f, S)) = Cardinality(S)
         /\ IsFiniteSet(S) /\ Cardinality(S) \in Nat
<1>1. IsFiniteSet(S)
  <2>1. IsFiniteSet(1..Len(f))
    BY FS_Interval
  <2>2. QED
    BY <2>1, FS_Subset
<1>2. S \in SUBSET Nat /\ \A i \in S : f[i] \in D
  OBVIOUS
<1>3. QED
  BY <1>1, <1>2, PickedSeq

(* The first two of the places.                                            *)
LEMMA FirstPlace ==
  ASSUME NEW S \in SUBSET (Nat \ {0}), IsFiniteSet(S), 1 \in S
  PROVE  Rank(S, 1) = 1 /\ Cardinality(S) \in Nat /\ Cardinality(S) >= 1
<1>1. {x \in S : x <= 1} = {1}
  <2>1. \A x \in S : x <= 1 <=> x = 1
    OBVIOUS
  <2>2. QED
    BY <2>1
<1>2. Rank(S, 1) = 1
  <2>1. Rank(S, 1) = Cardinality({x \in S : x <= 1})
    BY DEF Rank
  <2>2. QED
    BY <1>1, <2>1, FS_Singleton
<1>3. Rank(S, 1) \in 1..Cardinality(S) /\ Cardinality(S) \in Nat
  BY RankOnto, FS_CardinalityType
<1>4. QED
  BY <1>2, <1>3

LEMMA SecondPlace ==
  ASSUME NEW S \in SUBSET (Nat \ {0}), IsFiniteSet(S), 1 \in S,
         NEW j \in S, j # 1
  PROVE  (\A x \in S : x <= j => x \in {1, j}) <=> Rank(S, j) = 2
<1>1. ASSUME \A x \in S : x <= j => x \in {1, j} PROVE Rank(S, j) = 2
  <2>1. {x \in S : x <= j} = {1} \cup {j}
    <3>1. 1 <= j /\ j <= j
      OBVIOUS
    <3>2. \A x \in S : x <= j <=> x \in {1} \cup {j}
      BY <1>1, <3>1
    <3>3. {1} \cup {j} \subseteq S
      OBVIOUS
    <3>4. QED
      BY <3>2, <3>3
  <2>2. IsFiniteSet({1}) /\ Cardinality({1}) = 1
    BY FS_Singleton
  <2>3. Cardinality({1} \cup {j}) = 2
    BY <2>2, FS_AddElement
  <2>4. Rank(S, j) = Cardinality({x \in S : x <= j})
    BY DEF Rank
  <2>5. QED
    BY <2>1, <2>3, <2>4
<1>2. ASSUME Rank(S, j) = 2, NEW x \in S, x <= j, x # 1, x # j PROVE FALSE
  <2>1. 1 < x /\ x < j
    BY <1>2
  <2>2. Rank(S, 1) = 1 /\ Rank(S, 1) < Rank(S, x) /\ Rank(S, x) < Rank(S, j)
    BY <2>1, RankRises, FirstPlace
  <2>3. Rank(S, x) \in Nat
    BY RankOnto, FS_CardinalityType
  <2>4. QED
    BY <1>2, <2>2, <2>3
<1>3. QED
  BY <1>1, <1>2

(* Where the first place is 1, the second one gives the second element.    *)
LEMMA PickedFirst ==
  ASSUME NEW f, NEW S \in SUBSET (Nat \ {0}), IsFiniteSet(S), 1 \in S
  PROVE  /\ Len(Picked(f, S)) >= 1 /\ Picked(f, S)[1] = f[1]
         /\ \A j \in S \ {1} : (\A x \in S : x <= j => x \in {1, j}) =>
              Len(Picked(f, S)) >= 2 /\ Picked(f, S)[2] = f[j]
         /\ Len(Picked(f, S)) >= 2 => \E j \in S \ {1} : \A x \in S : x <= j => x \in {1, j}
<1> DEFINE g == Picked(f, S)
           n == Cardinality(S)
           D == {f[i] : i \in S}
<1>1. S \in SUBSET Nat
  OBVIOUS
<1>2. Len(g) = n /\ n \in Nat
  <2>1. \A i \in S : f[i] \in D
    OBVIOUS
  <2> HIDE DEF D
  <2>2. QED
    BY <1>1, <2>1, PickedSeq
<1>3. \A i \in S : Rank(S, i) \in 1..n /\ g[Rank(S, i)] = f[i]
  <2>1. \A i \in S : Rank(S, i) \in 1..n
    BY <1>1, RankOnto
  <2>2. \A i \in S : g[Rank(S, i)] = f[i]
    BY <1>1, PickedElements
  <2>3. QED
    BY <2>1, <2>2
<1>4. \A k \in 1..n : \E i \in S : Rank(S, i) = k /\ g[k] = f[i]
  BY <1>1, PickedElements
<1> HIDE DEF g, n
<1>5. Rank(S, 1) = 1
  BY FirstPlace
<1>6. n >= 1 /\ g[1] = f[1]
  BY <1>2, <1>3, <1>5
<1>7. ASSUME NEW j \in S \ {1}, \A x \in S : x <= j => x \in {1, j}
      PROVE  n >= 2 /\ g[2] = f[j]
  <2>1. Rank(S, j) = 2
    BY <1>7, SecondPlace
  <2>2. QED
    BY <1>2, <1>3, <2>1
<1>8. ASSUME n >= 2 PROVE \E j \in S \ {1} : \A x \in S : x <= j => x \in {1, j}
  <2>1. PICK j \in S : Rank(S, j) = 2
    <3>1. 2 \in 1..n
      BY <1>2, <1>8
    <3>2. QED
      BY <1>4, <3>1
  <2>2. j # 1
    BY <1>5, <2>1
  <2>3. \A x \in S : x <= j => x \in {1, j}
    BY <2>1, <2>2, SecondPlace
  <2>4. QED
    BY <2>2, <2>3
<1>9. QED
  BY <1>2, <1>6, <1>7, <1>8 DEF g

---------------------------------------------------------------------------
(* insideBlock after the lines of f: a start marker without an end marker  *)
(* behind it.                                                              *)
Unended(f) ==
  \E m \in 1..Len(f) : f[m] = Start /\ \A n \in (m + 1)..Len(f) : f[n] # End

Places(f) == {i \in 1..Len(f) : Outside(f, i)}

LEMMA MarkersDiffer == Start # End /\ Marker = {Start, End}
  BY DEF Start, End, Marker

LEMMA KeptType ==
  ASSUME NEW f \in Seq(Line)
  PROVE  Kept(f) \in Seq(Line) /\ Len(Kept(f)) = Cardinality(Places(f))
  BY PickedType DEF Kept, Places

LEMMA NothingYet == Kept(<<>>) = <<>> /\ ~Unended(<<>>)
<1>1. Places(<<>>) = {}
  BY DEF Places
<1>2. Len(Kept(<<>>)) = 0 /\ Kept(<<>>) \in Seq(Line)
  <2>1. <<>> \in Seq(Line) /\ Cardinality({}) = 0
    BY FS_EmptySet
  <2>2. QED
    BY <1>1, <2>1, KeptType
<1>3. QED
  BY <1>2 DEF Unended

(* One turn of the loop: a marker is dropped and sets insideBlock, any     *)
(* other line is dropped inside of a block and kept outside.               *)
LEMMA OneMoreLine ==
  ASSUME NEW f \in Seq(Line), NEW line \in Line
  PROVE  /\ Unended(Append(f, line)) <=> IF line \in Marker THEN line = Start ELSE Unended(f)
         /\ Kept(Append(f, line)) = IF line \in Marker \/ Unended(f) THEN Kept(f)
                                    ELSE Append(Kept(f), line)
<1> DEFINE g == Append(f, line)
           n == Len(f)
           S == Places(f)
           T == Places(g)
<1>1. /\ n \in Nat /\ g \in Seq(Line) /\ Len(g) = n + 1
      /\ g[n + 1] = line /\ \A i \in 1..n : g[i] = f[i]
  OBVIOUS
<1> HIDE DEF g, n
<1>2. Unended(g) <=> IF line \in Marker THEN line = Start ELSE Unended(f)
  <2>1. CASE line = Start
    <3>1. n + 1 \in 1..Len(g) /\ g[n + 1] = Start /\ \A k \in (n + 1 + 1)..Len(g) : g[k] # End
      BY <1>1, <2>1
    <3>2. QED
      BY <2>1, <3>1, MarkersDiffer DEF Unended
  <2>2. CASE line = End
    <3>1. ASSUME NEW m \in 1..Len(g), g[m] = Start PROVE \E k \in (m + 1)..Len(g) : g[k] = End
      <4>1. m # n + 1
        BY <1>1, <2>2, <3>1, MarkersDiffer
      <4>2. n + 1 \in (m + 1)..Len(g)
        BY <1>1, <4>1
      <4>3. QED
        BY <1>1, <2>2, <4>2
    <3>2. QED
      BY <2>2, <3>1, MarkersDiffer DEF Unended
  <2>3. CASE line \notin Marker
    <3>1. Unended(f) => Unended(g)
      <4> SUFFICES ASSUME NEW m \in 1..n, f[m] = Start, \A k \in (m + 1)..n : f[k] # End
                   PROVE  Unended(g)
        BY DEF Unended, n
      <4>1. m \in 1..Len(g) /\ g[m] = Start
        BY <1>1
      <4>2. \A k \in (m + 1)..Len(g) : g[k] # End
        BY <1>1, <2>3, MarkersDiffer
      <4>3. QED
        BY <4>1, <4>2 DEF Unended
    <3>2. Unended(g) => Unended(f)
      <4> SUFFICES ASSUME NEW m \in 1..Len(g), g[m] = Start, \A k \in (m + 1)..Len(g) : g[k] # End
                   PROVE  Unended(f)
        BY DEF Unended
      <4>1. m \in 1..n /\ f[m] = Start
        BY <1>1, <2>3, MarkersDiffer
      <4>2. \A k \in (m + 1)..n : f[k] # End
        BY <1>1
      <4>3. QED
        BY <4>1, <4>2 DEF Unended, n
    <3>3. QED
      BY <2>3, <3>1, <3>2
  <2>4. QED
    BY <2>1, <2>2, <2>3, MarkersDiffer
<1>3. \A i \in 1..n : Outside(g, i) <=> Outside(f, i)
  BY <1>1 DEF Outside
<1>4. Outside(g, n + 1) <=> line \notin Marker /\ ~Unended(f)
  BY <1>1 DEF Outside, Unended, n
<1>5. /\ T = IF line \in Marker \/ Unended(f) THEN S ELSE S \cup {n + 1}
      /\ n + 1 \notin S
  <2>1. S = {i \in 1..n : Outside(f, i)} /\ T = {i \in 1..(n + 1) : Outside(g, i)}
    BY <1>1 DEF Places, n
  <2>2. 1..(n + 1) = (1..n) \cup {n + 1} /\ n + 1 \notin 1..n
    BY <1>1
  <2> HIDE DEF S, T
  <2>3. QED
    BY <2>1, <2>2, <1>3, <1>4
<1>6. S \in SUBSET (1..n) /\ IsFiniteSet(S) /\ Cardinality(S) \in Nat /\ S \in SUBSET Nat
  <2>1. S \in SUBSET (1..Len(f))
    BY DEF Places
  <2>2. QED
    BY <2>1, <1>1, PickedType DEF n
<1>7. Kept(f) = Picked(f, S) /\ Kept(g) = Picked(g, T)
  BY DEF Kept, Places
<1>8. Kept(f) \in Seq(Line) /\ Kept(g) \in Seq(Line)
      /\ Len(Kept(f)) = Cardinality(S) /\ Len(Kept(g)) = Cardinality(T)
  BY <1>1, KeptType
<1> HIDE DEF S, T
<1>9. CASE line \in Marker \/ Unended(f)
  <2>1. T = S
    BY <1>5, <1>9
  <2>2. \A k \in 1..Cardinality(S) : Picked(g, S)[k] = Picked(f, S)[k]
    <3> SUFFICES ASSUME NEW k \in 1..Cardinality(S) PROVE Picked(g, S)[k] = Picked(f, S)[k]
      OBVIOUS
    <3>1. PICK i \in S : Rank(S, i) = k /\ Picked(f, S)[k] = f[i]
      BY <1>6, PickedElements
    <3>2. Picked(g, S)[k] = g[i]
      BY <1>6, <3>1, PickedElements
    <3>3. QED
      BY <1>1, <1>6, <3>1, <3>2
  <2>3. Kept(g) = Kept(f)
    BY <1>7, <1>8, <2>1, <2>2
  <2>4. QED
    BY <1>2, <1>9, <2>3 DEF g
<1>10. CASE ~(line \in Marker \/ Unended(f))
  <2>1. T = S \cup {n + 1} /\ Cardinality(T) = Cardinality(S) + 1 /\ IsFiniteSet(T)
    BY <1>5, <1>6, <1>10, FS_AddElement
  <2>2. T \in SUBSET Nat
    BY <1>1, <1>6, <2>1
  <2>3. \A i \in S : Rank(T, i) = Rank(S, i)
    <3> SUFFICES ASSUME NEW i \in S PROVE {j \in T : j <= i} = {j \in S : j <= i}
      BY DEF Rank
    <3>1. i <= n /\ i \in Nat
      BY <1>1, <1>6
    <3>2. QED
      BY <1>1, <2>1, <3>1
  <2>4. Rank(T, n + 1) = Cardinality(T)
    <3>1. {j \in T : j <= n + 1} = T
      BY <1>1, <1>6, <2>1
    <3>2. QED
      BY <3>1 DEF Rank
  <2>5. Kept(g)[Cardinality(S) + 1] = line
    BY <1>1, <1>7, <2>1, <2>2, <2>4, PickedElements
  <2>6. ASSUME NEW k \in 1..Cardinality(S) PROVE Kept(g)[k] = Kept(f)[k]
    <3>1. PICK i \in S : Rank(S, i) = k /\ Picked(f, S)[k] = f[i]
      BY <1>6, PickedElements
    <3>2. i \in T /\ Rank(T, i) = k
      BY <2>1, <2>3, <3>1
    <3>3. Picked(g, T)[k] = g[i]
      BY <2>1, <2>2, <3>2, PickedElements
    <3>4. QED
      BY <1>1, <1>6, <1>7, <3>1, <3>3
  <2>7. Kept(g) = Append(Kept(f), line)
    <3> DEFINE a == Kept(g)
               b == Kept(f)
               c == Cardinality(S)
    <3>1. a \in Seq(Line) /\ b \in Seq(Line) /\ Len(b) = c /\ Len(a) = c + 1
          /\ a[c + 1] = line /\ \A k \in 1..c : a[k] = b[k]
      BY <1>8, <2>1, <2>5, <2>6
    <3> HIDE DEF a, b, c
    <3>2. a = Append(b, line)
      BY <3>1
    <3>3. QED
      BY <3>2 DEF a, b
  <2>8. QED
    BY <1>2, <1>10, <2>7 DEF g
<1>11. QED
  BY <1>9, <1>10
==========================================================================
