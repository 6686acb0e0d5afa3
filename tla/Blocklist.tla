----------------------------- MODULE Blocklist ----------------------------
(***************************************************************************)
(* How the window (src/src/gui.cpp) makes a list of domains of the text in *)
(* its edit control, and how a file gets into that control.  A text is a   *)
(* sequence of tokens: words (runs of the characters a-z, A-Z, 0-9, dot,   *)
(* hyphen and underscore, so no two of them touch), "#", "blank" (a space  *)
(* or tab), "cr", "lf", and "odd" for any other character.  Left out is a  *)
(* word that begins with one of the two addresses and goes on.             *)
(***************************************************************************)
EXTENDS Integers, Sequences, Picking

LOCAL INSTANCE SequencesExt
LOCAL INSTANCE FiniteSetsExt

CONSTANTS
  Word,      \* the words of a text
  Address    \* those that are "0.0.0.0" or "127.0.0.1"

ASSUME WordAssumption == Word \cap {"#", "blank", "cr", "lf", "odd"} = {}
ASSUME AddressAssumption == Address \subseteq Word

Token == Word \cup {"#", "blank", "cr", "lf", "odd"}
IsSpace(token) == token \in {"blank", "cr"}

(* The line that ends before place e.                                      *)
LineTo(text, e) == Picked(text, {i \in 1..(e - 1) : \A k \in i..(e - 1) : text[k] # "lf"})

(* The lines std::getline reads.  The text ends with the 0 that stood      *)
(* behind it in the buffer, so no text is empty.                           *)
Lines(text) ==
  LET all == Append(text, "odd")
      ends == {i \in 1..Len(all) : all[i] = "lf"} \cup {Len(all) + 1}
  IN  Picked([e \in ends |-> LineTo(all, e)], ends)

(* The word that \s* and the name of hostPattern match from place i on.    *)
Follows(line, i) ==
  {j \in i..Len(line) : line[j] \in Word /\ \A k \in i..(j - 1) : IsSpace(line[k])}

(* What a line adds to the list: nothing, or the name in the leftmost      *)
(* match, which takes an address before it only where the match begins     *)
(* with one.                                                               *)
Captured(line) ==
  LET starts == {i \in 1..Len(line) : Follows(line, i) # {}}
  IN  IF line = <<>> \/ starts = {} \/ line[1] = "#" THEN {}
      ELSE LET i == CHOOSE i \in starts : \A k \in starts : i <= k
               named == IF line[i] \in Address THEN Follows(line, i + 1) ELSE {}
           IN  {line[j] : j \in IF named # {} THEN named ELSE Follows(line, i)}

(* Faulty: the loop ends at a line that adds nothing.                      *)
ParsedUntilComment(text) ==
  LET lines == Lines(text)
      last == Min({k \in 1..Len(lines) : Captured(lines[k]) = {}} \cup {Len(lines) + 1}) - 1
  IN  [k \in 1..last |-> CHOOSE d \in Captured(lines[k]) : TRUE]

Parsed(text) ==
  LET lines == Lines(text)
      found == Picked(lines, {k \in 1..Len(lines) : Captured(lines[k]) # {}})
  IN  [k \in 1..Len(found) |-> CHOOSE d \in Captured(found[k]) : TRUE]

(* LoadFileToEditControl: a "cr" before every "lf" that has none.          *)
Normalized(text) ==
  FlattenSeq([i \in 1..Len(text) |->
    IF text[i] = "lf" /\ (i = 1 \/ text[i - 1] # "cr") THEN <<"cr", "lf">> ELSE <<text[i]>>])

---------------------------------------------------------------------------
(* What a list is meant to say: on each line, before a "#", an address     *)
(* that may be left out, and a name.                                       *)
Words(line) ==
  Picked(line, {i \in 1..Len(line) : line[i] \in Word /\ \A k \in 1..i : line[k] # "#"})

Meant(line) ==
  LET words == Words(line)
  IN  IF words = <<>> THEN {}
      ELSE IF Len(words) > 1 /\ words[1] \in Address THEN {words[2]}
      ELSE {words[1]}

Listed(text) == LET lines == Lines(text) IN UNION {Meant(lines[k]) : k \in 1..Len(lines)}

(* The lines that are read as they are meant begin with a word or a "#",   *)
(* or hold no word, and an odd character is at most their last: the 0      *)
(* behind the text.                                                        *)
WellFormed(line) ==
  /\ \A i \in 1..(Len(line) - 1) : line[i] # "odd"
  /\ \A i \in 2..Len(line) : line[i] \in Word => line[i - 1] \notin Word
  /\ line # <<>> /\ line[1] \notin Word \cup {"#"} => \A i \in 1..Len(line) : line[i] \notin Word

ReadAsMeant(lines) == \A line \in lines : WellFormed(line) => Captured(line) = Meant(line)
==========================================================================
