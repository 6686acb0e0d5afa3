------------------------------- MODULE Names -------------------------------
(***************************************************************************)
(* One character of GenerateRandomFilename, in src/src/utils/crypto.cpp    *)
(* and src/src/utils/path.cpp alike: bytes are drawn until one is below    *)
(* max_acceptable, and its remainder is an index into charset.             *)
(***************************************************************************)
EXTENDS Integers, FiniteSets, FiniteSetTheorems, TLAPS

charset_size == 62
max_acceptable == 256 - (256 % charset_size)

Drawn == 0..255
Accepted == {byte \in Drawn : byte < max_acceptable}
Index(byte) == byte % charset_size

(* The bytes that give the character at place c.                           *)
Giving(c) == {byte \in Accepted : Index(byte) = c}
---------------------------------------------------------------------------
LEMMA Bound == max_acceptable = 248
  BY DEF max_acceptable, charset_size

LEMMA FourBytes ==
  ASSUME NEW c \in 0..(charset_size - 1)
  PROVE  Giving(c) = {c, c + 62, c + 124, c + 186}
<1>1. c \in Int /\ 0 <= c /\ c <= 61
  BY DEF charset_size
<1>2. ASSUME NEW byte \in Giving(c) PROVE byte \in {c, c + 62, c + 124, c + 186}
  <2>1. byte \in Int /\ 0 <= byte /\ byte < 248 /\ byte % 62 = c
    BY Bound, <1>2 DEF Giving, Accepted, Drawn, Index, charset_size
  <2> QED BY <1>1, <2>1
<1>3. ASSUME NEW byte \in {c, c + 62, c + 124, c + 186} PROVE byte \in Giving(c)
  <2>1. byte \in 0..255 /\ byte < 248
    BY <1>1, <1>3
  <2>2. byte % 62 = c
    BY <1>1, <1>3
  <2> QED BY Bound, <2>1, <2>2 DEF Giving, Accepted, Drawn, Index, charset_size
<1> QED BY <1>2, <1>3

(* Every character of a name is as likely as any other: each of the 62 is  *)
(* given by four of the 248 bytes that are not thrown away.  One less in   *)
(* max_acceptable, or no bound at all, and it is not so.                   *)
THEOREM Unbiased ==
  \A c \in 0..(charset_size - 1) : Cardinality(Giving(c)) = 4
<1> SUFFICES ASSUME NEW c \in 0..(charset_size - 1) PROVE Cardinality(Giving(c)) = 4
  OBVIOUS
<1> DEFINE one == {} \cup {c}
           two == one \cup {c + 62}
           three == two \cup {c + 124}
           four == three \cup {c + 186}
<1>1. c \in Int
  BY DEF charset_size
<1>2. IsFiniteSet(one) /\ Cardinality(one) = 1
  BY FS_EmptySet, FS_AddElement
<1>3. IsFiniteSet(two) /\ Cardinality(two) = 2
  <2>1. c + 62 \notin one BY <1>1
  <2> QED BY <1>2, <2>1, FS_AddElement
<1>4. IsFiniteSet(three) /\ Cardinality(three) = 3
  <2>1. c + 124 \notin two BY <1>1
  <2> HIDE DEF two
  <2> QED BY <1>3, <2>1, FS_AddElement
<1>5. IsFiniteSet(four) /\ Cardinality(four) = 4
  <2>1. c + 186 \notin three BY <1>1
  <2> HIDE DEF three
  <2> QED BY <1>4, <2>1, FS_AddElement
<1>6. Giving(c) = four
  BY FourBytes
<1> QED BY <1>5, <1>6
==========================================================================
