---------------------------- MODULE CallProof ----------------------------
(***************************************************************************)
(* Theorems about a call of Blocker that no other instance disturbs, for   *)
(* any lists, files and edits and any bounds, and every fault but those    *)
(* that the theorems name.                                                 *)
(***************************************************************************)
EXTENDS BlockerProof, PickingProof

Active(p) == pc[p] # "dead" \/ Writing(p)
Alone(p) == \A q \in Process \ {p} : ~Active(q)

(* What applyBlock composes for ds: lines that are no markers, and a block *)
(* of ds behind them.                                                      *)
IsText(f, ds) ==
  \E n \in 0..Len(f) : /\ Len(f) = n + Len(ds) + 2
                       /\ BlockAt(f, n + 1, ds)
                       /\ \A k \in 1..n : f[k] \notin Marker

(* What a call knows of the file it read, until somebody else writes it.   *)
BaseInv(p) ==
  base[p] # NoFile =>
    /\ pc[p] = "read" \/ Composing(p)
    /\ pc[p] = "read" =>
         /\ base[p] = hosts
         /\ pos[p] \in 1..(Len(hosts) + 1)
         /\ content[p] = Kept(SubSeq(hosts, 1, pos[p] - 1))
         /\ inside[p] = Unended(SubSeq(hosts, 1, pos[p] - 1))
    /\ Composing(p) => content[p] = Composed(Kept(base[p]), domains[p])
    /\ hw[p] = "ok" => hosts = content[p]

(* The way of the text from the call to the hosts file.                    *)
CallInv(p) ==
  /\ pc[p] \notin {"idle", "dead", "save_copy"} => domains[p] # <<>>
  /\ pc[p] # "read" /\ ~Composing(p) => ~inside[p] /\ (HoldsBackup(p) \/ content[p] = <<>>)
  /\ pc[p] = "read" => NoMarkers(content[p])
  /\ Composing(p) => IsText(content[p], domains[p])
  /\ pc[p] = "write" => tmp = <<>>
  /\ pc[p] = "close" => tmp = SubSeq(content[p], 1, pos[p])
  /\ pc[p] = "launch" => tmp = content[p]
  /\ hw[p] # "none" => pc[p] \in {"wait", "dead"}
  /\ Writing(p) => domains[p] # <<>>
  /\ hw[p] = "start" =>
       /\ tmp # NoFile => IsText(tmp, domains[p])
       /\ pc[p] = "wait" => tmp = content[p]
  /\ Copying(p) =>
       /\ IsText(src[p], domains[p])
       /\ pc[p] = "wait" => src[p] = content[p]
       /\ Len(hosts) <= Len(src[p])
       /\ \A k \in 1..Len(hosts) : hosts[k] = src[p][k]
  /\ BaseInv(p)

(* The first lines of g, or all of them.                                   *)
CopiedFrom(f, g) == g # NoFile /\ \E n \in 0..Len(g) : f = SubSeq(g, 1, n)

(* The backup of a first run.                                              *)
OriginalInv(p) ==
  edits = 0 =>
    /\ backup = NoFile => hosts = original
    /\ backup # NoFile => CopiedFrom(backup, original)
    /\ pc[p] = "backup_begin" => backup = NoFile
    /\ pc[p] = "backup_copy" => backup # NoFile /\ hosts = original /\ content[p] = original
    /\ crashes = 0 /\ backup # NoFile => backup = original \/ pc[p] = "backup_copy"
    /\ pc[p] = "open" /\ backup = NoFile => hosts = NoFile
    /\ pc[p] = "read" \/ Composing(p) \/ Writing(p) => backup # NoFile
    /\ pc[p] # "save_copy"
    /\ Writing(p) => pc[p] \in {"wait", "dead"}
---------------------------------------------------------------------------
LEMMA ComposedText ==
  ASSUME NEW kept \in Seq(Line), NoMarkers(kept), NEW ds \in Seq(Domain)
  PROVE  IsText(Composed(kept, ds), ds)
<1> DEFINE all == Composed(kept, ds)
           n == Len(kept)
           m == Len(ds)
<1>0. n \in Nat /\ m \in Nat
  OBVIOUS
<1>1. /\ all \in Seq(Line)
      /\ Len(all) = n + m + 3
      /\ \A k \in 1..n : all[k] = kept[k]
      /\ all[n + 1] = Managed
      /\ all[n + 2] = Start
      /\ \A k \in 1..m : all[n + 2 + k] = Entry(ds[k])
      /\ all[n + m + 3] = End
  BY ComposedType
<1> HIDE DEF all, n, m
<1>2. n + 1 \in 0..Len(all) /\ Len(all) = n + 1 + m + 2
  BY <1>0, <1>1
<1>3. BlockAt(all, n + 2, ds)
  BY <1>0, <1>1 DEF BlockAt, m
<1>4. \A k \in 1..(n + 1) : all[k] \notin Marker
  <2>1. \A k \in 1..n : kept[k] \notin Marker
    BY DEF NoMarkers, n
  <2>2. QED
    BY <1>0, <1>1, <2>1, LinesDiffer
<1>5. QED
  BY <1>0, <1>2, <1>3, <1>4 DEF IsText, all, m

(* In a text the markers of its block are the only ones.                   *)
LEMMA TextMarkers ==
  ASSUME NEW ds \in Seq(Domain), NEW f \in Seq(Line), IsText(f, ds)
  PROVE  \E n \in Nat :
           /\ Len(f) = n + Len(ds) + 2 /\ n + 1 \in 1..Len(f)
           /\ BlockAt(f, n + 1, ds)
           /\ \A i \in 1..Len(f) : (f[i] = Start => i = n + 1) /\ (f[i] = End => i = Len(f))
<1>1. PICK n \in 0..Len(f) : /\ Len(f) = n + Len(ds) + 2
                             /\ BlockAt(f, n + 1, ds)
                             /\ \A k \in 1..n : f[k] \notin Marker
  BY DEF IsText
<1> DEFINE m == Len(ds)
<1>2. m \in Nat /\ Len(f) \in Nat /\ n \in Nat
  OBVIOUS
<1>3. /\ f[n + 1] = Start /\ f[n + m + 2] = End
      /\ \A k \in 1..m : f[n + 1 + k] = Entry(ds[k])
  <2>1. n + 1 + m + 1 = n + m + 2
    BY <1>2
  <2>2. QED
    BY <1>1, <2>1 DEF BlockAt
<1> HIDE DEF m
<1>4. Len(f) = n + m + 2
  BY <1>1 DEF m
<1>5. ASSUME NEW i \in 1..Len(f), i # n + 1, i # Len(f) PROVE f[i] \notin Marker
  <2>1. CASE i \in 1..n
    BY <1>1, <2>1
  <2>2. CASE i \notin 1..n
    <3>1. i - (n + 1) \in 1..m /\ n + 1 + (i - (n + 1)) = i
      BY <1>2, <1>4, <1>5, <2>2
    <3>2. f[i] = Entry(ds[i - (n + 1)])
      BY <1>3, <3>1
    <3>3. \A d : Entry(d) \notin Marker
      BY DEF Entry, Marker, Start, End
    <3>4. QED
      BY <3>2, <3>3
  <2>3. QED
    BY <2>1, <2>2
<1>6. \A i \in 1..Len(f) : (f[i] = Start => i = n + 1) /\ (f[i] = End => i = Len(f))
  BY <1>2, <1>3, <1>4, <1>5, LinesDiffer DEF Marker
<1>7. QED
  BY <1>1, <1>2, <1>6

(* No other block stands in a text.                                        *)
LEMMA OnlyBlock ==
  ASSUME NEW ds \in Seq(Domain), NEW f \in Seq(Line), IsText(f, ds),
         NEW es \in Seq(Domain), NEW i \in 1..Len(f), BlockAt(f, i, es)
  PROVE  es = ds
<1>1. PICK n \in Nat : /\ Len(f) = n + Len(ds) + 2
                       /\ BlockAt(f, n + 1, ds)
                       /\ \A k \in 1..Len(f) : (f[k] = Start => k = n + 1)
                                                /\ (f[k] = End => k = Len(f))
  BY TextMarkers
<1>2. Len(ds) \in Nat /\ Len(es) \in Nat /\ Len(f) \in Nat
  OBVIOUS
<1>3. i = n + 1
  <2>1. f[i] = Start
    BY DEF BlockAt
  <2>2. QED
    BY <1>1, <2>1
<1>4. i + Len(es) + 1 = Len(f)
  BY <1>1, <1>2 DEF BlockAt
<1>5. Len(es) = Len(ds)
  BY <1>1, <1>2, <1>3, <1>4
<1>6. \A k \in 1..Len(ds) : Entry(es[k]) = Entry(ds[k])
  BY <1>1, <1>3, <1>5 DEF BlockAt
<1>7. \A k \in 1..Len(ds) : es[k] = ds[k]
  BY <1>6 DEF Entry
<1>8. QED
  BY <1>5, <1>7

(* Before its last line a copy of a text has no end marker, and no block.  *)
LEMMA NoEndYet ==
  ASSUME NEW ds \in Seq(Domain), NEW f \in Seq(Line), IsText(f, ds),
         NEW g \in Seq(Line), Len(g) < Len(f), \A k \in 1..Len(g) : g[k] = f[k]
  PROVE  ~Has(g, End) /\ ~WholeBlock(g)
<1>1. \A k \in 1..Len(f) : f[k] = End => k = Len(f)
  <2>1. PICK n \in Nat : \A k \in 1..Len(f) : (f[k] = Start => k = n + 1)
                                            /\ (f[k] = End => k = Len(f))
    BY TextMarkers
  <2>2. QED
    BY <2>1
<1>2. \A k \in 1..Len(g) : g[k] # End
  BY <1>1
<1>3. ASSUME NEW es \in DomainLists \ {<<>>}, NEW i \in 1..Len(g), BlockAt(g, i, es)
      PROVE  FALSE
  <2>1. Len(es) \in Nat
    BY ListsAssumption
  <2>2. i + Len(es) + 1 \in 1..Len(g) /\ g[i + Len(es) + 1] = End
    BY <1>3, <2>1 DEF BlockAt
  <2>3. QED
    BY <1>2, <2>2
<1>4. QED
  BY <1>2, <1>3 DEF Has, WholeBlock

(* A stream that nobody disturbs puts its text together piece by piece.    *)
LEMMA WritesOn ==
  ASSUME NEW text \in Seq(Line), NEW k \in Nat, NEW n \in k..Len(text)
  PROVE  Overlay(SubSeq(text, 1, k), k, SubSeq(text, k + 1, n)) = SubSeq(text, 1, n)
<1> DEFINE f == SubSeq(text, 1, k)
           piece == SubSeq(text, k + 1, n)
           all == Overlay(f, k, piece)
           whole == SubSeq(text, 1, n)
<1>1. /\ f \in Seq(Line) /\ Len(f) = k /\ \A i \in 1..k : f[i] = text[i]
      /\ n \in Nat /\ k <= n /\ Len(text) \in Nat
  OBVIOUS
<1>2. piece \in Seq(Line) /\ Len(piece) = n - k /\ \A i \in 1..(n - k) : piece[i] = text[k + i]
  BY <1>1
<1>3. whole \in Seq(Line) /\ Len(whole) = n /\ \A i \in 1..n : whole[i] = text[i]
  BY <1>1
<1> HIDE DEF f, piece, whole
<1>4. /\ all \in Seq(Line)
      /\ Len(f) <= k + Len(piece) => Len(all) = k + Len(piece)
      /\ \A i \in 1..k : i <= Len(f) => all[i] = f[i]
      /\ \A i \in 1..Len(piece) : all[k + i] = piece[i]
  BY <1>1, <1>2, OverlayType
<1> HIDE DEF all
<1>5. Len(all) = n /\ k + (n - k) = n
  BY <1>1, <1>2, <1>4
<1>6. ASSUME NEW i \in 1..n PROVE all[i] = whole[i]
  <2>1. CASE i <= k
    BY <1>1, <1>3, <1>4, <2>1
  <2>2. CASE i > k
    <3>1. i - k \in 1..(n - k) /\ k + (i - k) = i
      BY <1>1, <2>2
    <3>2. all[k + (i - k)] = piece[i - k] /\ piece[i - k] = text[k + (i - k)]
      BY <3>1, <1>2, <1>4
    <3>3. QED
      BY <3>1, <3>2, <1>3
  <2>3. QED
    BY <1>1, <2>1, <2>2
<1>7. all = whole
  BY <1>3, <1>4, <1>5, <1>6
<1>8. QED
  BY <1>7 DEF all, f, piece, whole

LEMMA NextLine ==
  ASSUME NEW g \in Seq(Line), NEW f \in Seq(Line), CopiedFrom(f, g), Len(f) < Len(g)
  PROVE  CopiedFrom(Append(f, g[Len(f) + 1]), g)
<1>1. PICK n \in 0..Len(g) : f = SubSeq(g, 1, n)
  BY DEF CopiedFrom
<1>2. Len(f) = n /\ n + 1 \in 0..Len(g)
  BY <1>1
<1>3. Append(f, g[n + 1]) = SubSeq(g, 1, n + 1)
  BY <1>1, <1>2
<1>4. QED
  BY <1>2, <1>3 DEF CopiedFrom

(* A copy that has as many lines as the file is the file.                  *)
LEMMA CopiedAll ==
  ASSUME NEW g \in Seq(Line), NEW f \in Seq(Line), CopiedFrom(f, g), Len(f) = Len(g)
  PROVE  f = g
  BY DEF CopiedFrom

---------------------------------------------------------------------------
(* How CallInv comes through a step.                                       *)

LEMMA CallInit == Init => \A p \in Process : CallInv(p)
  BY EmptyFile DEF Init, CallInv, BaseInv, Composing, HoldsBackup, Writing, Copying

(* Nothing of what CallInv speaks of changes.                              *)
LEMMA CallSame ==
  ASSUME NEW p \in Process, CallInv(p), Untouched(p), base'[p] = base[p],
         hosts' = hosts, tmp' = tmp
  PROVE  CallInv(p)'
  BY DEF CallInv, BaseInv, Untouched, Composing, HoldsBackup, Writing, Copying

(* A process without a call or a hostswriter has nothing to lose.          *)
LEMMA CallOff ==
  ASSUME NEW p \in Process, pc'[p] \in {"idle", "dead"}, base'[p] = NoFile,
         content'[p] = <<>>, ~inside'[p],
         hw'[p] = "none" \/ (pc'[p] = "dead" /\ ~Writing(p)')
  PROVE  CallInv(p)'
  BY DEF CallInv, BaseInv, Composing, HoldsBackup, Writing, Copying

LEMMA CallInactive ==
  ASSUME NEW p \in Process, CallInv(p), ~Active(p), Untouched(p),
         base'[p] \in {base[p], NoFile}
  PROVE  CallInv(p)' /\ ~Active(p)'
<1>1. pc[p] = "dead" /\ hw[p] \notin {"start", "copy"} /\ base[p] = NoFile
      /\ content[p] = <<>> /\ ~inside[p]
  BY DEF Active, Writing, CallInv, BaseInv, Composing, HoldsBackup
<1>2. QED
  BY <1>1, CallOff DEF Untouched, Active, Writing

(* The process of p ends, whatever it was doing; its hostswriter goes on   *)
(* or ends with it.                                                        *)
LEMMA CallEnded ==
  ASSUME TypeOK, NEW p \in Process, CallInv(p), pc'[p] = "dead", base'[p] = NoFile,
         content'[p] = <<>>, ~inside'[p], domains' = domains,
         UNCHANGED <<hosts, tmp>>,
         hw'[p] = "none" \/ UNCHANGED <<hw, src>>
  PROVE  CallInv(p)'
  BY DEF TypeOK, CallInv, BaseInv, Composing, HoldsBackup, Writing, Copying

(* Somebody else writes the hosts file, which no hostswriter has open.     *)
LEMMA CallEdited ==
  ASSUME NEW p \in Process, CallInv(p), ~Copying(p), Untouched(p), base'[p] = NoFile,
         tmp' = tmp
  PROVE  CallInv(p)'
  BY DEF CallInv, BaseInv, Untouched, Composing, HoldsBackup, Writing, Copying

(* The call of p returns.                                                  *)
LEMMA CallReturned ==
  ASSUME TypeOK, NEW p \in Process, NEW r, Finished(p, r), hw'[p] = "none"
  PROVE  CallInv(p)'
<1>1. pc'[p] = "idle" /\ base'[p] = NoFile /\ content'[p] = <<>> /\ ~inside'[p]
  BY DEF Finished, TypeOK
<1>2. QED
  BY <1>1, CallOff

(* Entering a call or refusing it.                                         *)
LEMMA CallEntered ==
  ASSUME TypeOK, NEW p \in Process, CallInv(p), CallStep(p)
  PROVE  CallInv(p)'
<1> USE DEF files, locals, writer, bounds, history, Call
<1>0. pc[p] = "idle" /\ hw' = hw
  BY DEF CallStep, LoadDomains, ApplyBlock, ReapplyBlock, BackupHosts
<1>1. hw'[p] = "none" /\ base[p] = NoFile /\ content[p] = <<>> /\ ~inside[p]
  BY <1>0 DEF CallInv, BaseInv, Composing, HoldsBackup
<1>n. ASSUME NEW to \in {"backup", "save_copy"}, pc' = [pc EXCEPT ![p] = to],
             to = "backup" => domains[p] # <<>> /\ content' = content, UNCHANGED <<inside, domains, base>>
      PROVE  CallInv(p)'
  BY <1>n, <1>0, <1>1 DEF TypeOK, CallInv, BaseInv, Composing, HoldsBackup, Writing, Copying
<1>e. ASSUME EnterApply(p) PROVE CallInv(p)'
  BY <1>e, <1>n, <1>1, CallReturned DEF EnterApply
<1>2. ASSUME NEW ds \in DomainLists, LoadDomains(p, ds) PROVE CallInv(p)'
  <2>1. UNCHANGED <<pc, inside, content, base>>
    BY <1>2 DEF LoadDomains
  <2>2. QED
    BY <2>1, <1>0, <1>1, CallOff
<1>3. CASE ApplyBlock(p)
  BY <1>3, <1>e DEF ApplyBlock
<1>4. CASE ReapplyBlock(p)
  BY <1>4, <1>e, <1>1, CallReturned DEF ReapplyBlock
<1>5. CASE BackupHosts(p)
  BY <1>5, <1>n, <1>1, CallReturned DEF BackupHosts, StartCopy
<1>6. QED
  BY <1>2, <1>3, <1>4, <1>5 DEF CallStep

(* A write of the stream goes on with the text of its call.                *)
LEMMA WriteGoesOn ==
  ASSUME TypeInv, NEW p \in Process, CallInv(p), HoldsTmp(p),
         NEW n \in pos[p]..Len(content[p]), WriteUpTo(p, n)
  PROVE  /\ tmp' = SubSeq(content[p], 1, n) /\ pos'[p] = n
         /\ UNCHANGED <<hosts, domains, inside, content, hw, src, base>>
         /\ hw[p] = "none" /\ Composing(p)
<1>t. TypeOK /\ content[p] \in Seq(Line)
  BY DEF TypeInv, TypeOK
<1>1. tmp = SubSeq(content[p], 1, pos[p]) /\ pos[p] \in Nat
  <2>1. SubSeq(content[p], 1, 0) = <<>>
    BY <1>t
  <2>2. QED
    BY <2>1, <1>t DEF HoldsTmp, CallInv, TypeOK, TypeInv, Held
<1>2. tmp' = Overlay(tmp, pos[p], SubSeq(content[p], pos[p] + 1, n))
  BY DEF WriteUpTo
<1>3. tmp' = SubSeq(content[p], 1, n)
  BY <1>1, <1>2, <1>t, WritesOn
<1>4. /\ pos'[p] = n /\ UNCHANGED <<hosts, domains, inside, content, hw, src, base>>
  BY <1>t DEF WriteUpTo, TypeOK, writer
<1>5. hw[p] = "none" /\ Composing(p)
  BY <1>t DEF HoldsTmp, Composing, CallInv, TypeOK
<1>6. QED
  BY <1>3, <1>4, <1>5

(* One turn of the reading loop.                                           *)
LEMMA LineRead ==
  ASSUME TypeInv, NEW p \in Process, CallInv(p), ReadLine(p)
  PROVE  CallInv(p)'
<1> USE DEF TypeInv, TypeOK, Held, HoldsHosts
<1>1. hosts \in Seq(Line) /\ pos[p] \in 1..Len(hosts) /\ pc[p] = "read"
  BY FileMembers DEF ReadLine
<1> DEFINE line == hosts[pos[p]]
           before == SubSeq(hosts, 1, pos[p] - 1)
<1>2. line \in Line /\ before \in Seq(Line)
  BY <1>1
<1>3. SubSeq(hosts, 1, pos[p]) = Append(before, line)
  BY <1>1
<1>4. /\ inside'[p] = IF line \in Marker THEN line = Start ELSE inside[p]
      /\ content'[p] = IF line \in Marker \/ inside[p] THEN content[p]
                       ELSE Append(content[p], line)
      /\ pos'[p] = pos[p] + 1
      /\ UNCHANGED <<hosts, tmp, pc, domains, hw, base>>
  BY <1>1 DEF ReadLine, files, writer, history
<1> HIDE DEF line, before
<1>5. content[p] \in Seq(Line) /\ NoMarkers(content[p])
  BY <1>1 DEF CallInv
<1>6. NoMarkers(content'[p])
  <2>1. CASE content'[p] = content[p]
    BY <2>1, <1>5
  <2>2. CASE line \notin Marker /\ content'[p] = Append(content[p], line)
    BY <2>2, <1>2, <1>5 DEF NoMarkers
  <2>3. QED
    BY <2>1, <2>2, <1>4
<1>7. BaseInv(p)'
  <2> SUFFICES ASSUME base[p] # NoFile PROVE BaseInv(p)'
    BY <1>4 DEF BaseInv
  <2>1. base[p] = hosts /\ content[p] = Kept(before) /\ inside[p] = Unended(before)
    BY <1>1 DEF CallInv, BaseInv, before
  <2>2. /\ Unended(Append(before, line)) <=> IF line \in Marker THEN line = Start
                                             ELSE Unended(before)
        /\ Kept(Append(before, line)) = IF line \in Marker \/ Unended(before) THEN Kept(before)
                                       ELSE Append(Kept(before), line)
    BY <1>2, OneMoreLine
  <2>3. content'[p] = Kept(SubSeq(hosts, 1, pos[p]))
    BY <1>3, <1>4, <2>1, <2>2
  <2>4. inside'[p] = Unended(SubSeq(hosts, 1, pos[p]))
    <3>1. inside[p] \in BOOLEAN /\ inside'[p] \in BOOLEAN
      BY <1>4
    <3>2. Unended(SubSeq(hosts, 1, pos[p])) \in BOOLEAN
      BY DEF Unended
    <3>3. inside'[p] <=> Unended(SubSeq(hosts, 1, pos[p]))
      BY <1>3, <1>4, <2>1, <2>2
    <3>4. QED
      BY <3>1, <3>2, <3>3
  <2>5. pos'[p] - 1 = pos[p] /\ pos'[p] \in 1..(Len(hosts) + 1)
    <3>1. Len(hosts) \in Nat /\ pos'[p] = pos[p] + 1
      BY <1>1, <1>4
    <3>2. QED
      BY <1>1, <3>1
  <2>6. hw[p] # "ok"
    BY <1>1 DEF CallInv
  <2>7. QED
    BY <1>1, <1>4, <2>1, <2>3, <2>4, <2>5, <2>6 DEF BaseInv, Composing
<1>8. QED
  BY <1>1, <1>4, <1>6, <1>7 DEF CallInv, Composing, HoldsBackup, Writing, Copying

(* The steps of p and of its hostswriter, whoever else is there.           *)
LEMMA CallNext ==
  ASSUME "flush" \notin Faults, TypeInv, NEW p \in Process, CallInv(p),
         CallStep(p) \/ ProgramStep(p) \/ WriterStep(p)
  PROVE  CallInv(p)'
<1>t. /\ TypeOK
      /\ hosts \in File /\ tmp \in File /\ domains[p] \in Seq(Domain)
      /\ content[p] \in Seq(Line) /\ src[p] \in Seq(Line) /\ base[p] \in File
  <2>1. <<>> \in Seq(Domain)
    OBVIOUS
  <2>2. domains[p] \in Seq(Domain)
    BY <2>1, ListsAssumption DEF TypeInv, TypeOK
  <2>3. QED
    BY <2>2 DEF TypeInv, TypeOK
<1>h. HoldsHosts(p) \/ Copying(p) => hosts \in Seq(Line)
  BY <1>t, FileMembers DEF TypeInv, Held
<1>c. /\ pc[p] \notin {"wait", "dead"} => hw[p] = "none"
      /\ pc[p] # "read" /\ ~Composing(p) => ~inside[p] /\ base[p] = NoFile
                                           /\ (HoldsBackup(p) \/ content[p] = <<>>)
  BY DEF CallInv, BaseInv
<1> USE DEF files, locals, writer, bounds, history, Goto
<1>r. ASSUME NEW r, Finished(p, r), hw' = hw, pc[p] # "wait", pc[p] # "dead"
      PROVE  CallInv(p)'
  BY <1>r, <1>t, <1>c, CallReturned
<1>m. ASSUME pc[p] \in {"backup", "backup_begin", "backup_copy"},
             NEW to \in {"backup_begin", "backup_copy", "open"},
             pc' = [pc EXCEPT ![p] = to], UNCHANGED <<inside, domains, writer, base, result>>,
             to = "backup_copy" \/ content'[p] = <<>>
      PROVE  CallInv(p)'
  BY <1>m, <1>t, <1>c DEF TypeOK, CallInv, BaseInv, Composing, HoldsBackup, Writing, Copying
<1>1. CASE CallStep(p)
  BY <1>1, <1>t, CallEntered
<1>2. CASE CheckBackup(p)
  BY <1>2, <1>m, <1>c DEF CheckBackup, Composing, HoldsBackup
<1>3. CASE BeginBackup(p)
  BY <1>3, <1>m DEF BeginBackup, StartCopy
<1>3l. CASE CopyBackupLine(p)
  BY <1>3l, CallSame DEF CopyBackupLine, Untouched
<1>3b. CASE CopyBackup(p) \/ BackupFails(p)
  <2>1. LeaveBackup(p) /\ pc[p] \in {"backup", "backup_begin", "backup_copy"}
    BY <1>3b DEF CopyBackup, BackupFails
  <2>2. content'[p] = <<>>
    BY <2>1, <1>t DEF LeaveBackup, TypeOK
  <2>3. QED
    BY <2>1, <2>2, <1>m DEF LeaveBackup
<1>4. CASE SaveCopied(p)
  <2>1. \E r : Finished(p, r)
    BY <1>4 DEF SaveCopied
  <2>2. QED
    BY <1>4, <2>1, <1>r DEF SaveCopied
<1>5. CASE OpenHosts(p)
  <2>1. /\ pc[p] = "open" /\ pc'[p] = "read" /\ pos'[p] = 1 /\ base'[p] = hosts
        /\ UNCHANGED <<files, domains, inside, content, hw>>
    BY <1>5, <1>t DEF OpenHosts, TypeOK
  <2>2. content[p] = <<>> /\ ~inside[p] /\ hw[p] = "none"
    BY <2>1, <1>c DEF Composing, HoldsBackup
  <2>3. hosts \in Seq(Line) /\ SubSeq(hosts, 1, 1 - 1) = <<>> /\ 1 \in 1..(Len(hosts) + 1)
    <3>1. hosts \in Seq(Line)
      BY <1>5, <1>t, FileMembers DEF OpenHosts
    <3>2. QED
      BY <3>1
  <2>4. inside[p] = Unended(<<>>)
    <3>1. inside[p] \in BOOLEAN /\ Unended(<<>>) \in BOOLEAN
      BY <1>t DEF TypeOK, Unended
    <3>2. QED
      BY <3>1, <2>2, NothingYet
  <2>5. BaseInv(p)'
    BY <2>1, <2>2, <2>3, <2>4, NothingYet DEF BaseInv, Composing
  <2>6. NoMarkers(<<>>)
    BY DEF NoMarkers
  <2>7. domains[p] # <<>>
    BY <2>1 DEF CallInv
  <2>8. QED
    BY <2>1, <2>2, <2>5, <2>6, <2>7 DEF CallInv, Composing, HoldsBackup, Writing, Copying
<1>6. CASE OpenHostsFails(p)
  BY <1>6, <1>r DEF OpenHostsFails
<1>7. CASE ReadLine(p)
  BY <1>7, LineRead
<1>8. CASE BuildContent(p)
  <2>1. /\ pc[p] = "read" /\ pc'[p] = "tmp"
        /\ content'[p] = Composed(content[p], domains[p])
        /\ UNCHANGED <<files, domains, inside, pos, hw, base>>
    BY <1>8, <1>t DEF BuildContent, TypeOK
  <2>2. domains[p] # <<>> /\ NoMarkers(content[p]) /\ hw[p] = "none"
    BY <2>1, <1>c DEF CallInv
  <2>3. IsText(content'[p], domains[p])
    BY <2>1, <2>2, <1>t, ComposedText
  <2>4. BaseInv(p)'
    <3> SUFFICES ASSUME base[p] # NoFile PROVE BaseInv(p)'
      BY <2>1 DEF BaseInv
    <3>1. hosts \in Seq(Line)
      BY <2>1, <1>h DEF HoldsHosts
    <3>2. base[p] = hosts /\ pos[p] \in 1..(Len(hosts) + 1)
          /\ content[p] = Kept(SubSeq(hosts, 1, pos[p] - 1))
      BY <2>1 DEF CallInv, BaseInv
    <3>3. pos[p] - 1 = Len(hosts)
      BY <1>8, <3>1, <3>2 DEF BuildContent
    <3>4. SubSeq(hosts, 1, Len(hosts)) = hosts
      BY <3>1
    <3>5. QED
      BY <2>1, <2>2, <3>2, <3>3, <3>4 DEF BaseInv, Composing
  <2>5. QED
    BY <2>1, <2>2, <2>3, <2>4 DEF CallInv, Composing, HoldsBackup, Writing, Copying
<1>9. CASE OpenTmp(p)
  <2>1. /\ pc[p] = "tmp" /\ pc'[p] = "write" /\ tmp' = <<>>
        /\ UNCHANGED <<hosts, domains, inside, content, hw, src, base>>
    BY <1>9, <1>t DEF OpenTmp, TypeOK
  <2>2. QED
    BY <2>1, <1>c DEF CallInv, BaseInv, Composing, HoldsBackup, Writing, Copying
<1>10. CASE OpenTmpFails(p)
  BY <1>10, <1>r DEF OpenTmpFails
<1>11. CASE WriteTmp(p)
  <2>1. PICK n \in 0..Len(content[p]) : WriteUpTo(p, n)
    BY <1>11 DEF WriteTmp
  <2>2. HoldsTmp(p) /\ n \in pos[p]..Len(content[p]) /\ pc'[p] = "close"
    BY <1>11, <1>t DEF WriteTmp, HoldsTmp, TypeOK, TypeInv, Held
  <2>3. QED
    BY <2>1, <2>2, <1>t, WriteGoesOn DEF CallInv, BaseInv, Composing, HoldsBackup, Writing, Copying
<1>11c. CASE CloseTmp(p)
  <2>1. WriteUpTo(p, Len(content[p])) /\ HoldsTmp(p) /\ pc'[p] = "launch"
    BY <1>11c, <1>t DEF CloseTmp, HoldsTmp, TypeOK
  <2>2. Len(content[p]) \in pos[p]..Len(content[p])
    BY <2>1, <1>t DEF TypeOK, TypeInv, Held
  <2>3. tmp' = SubSeq(content[p], 1, Len(content[p])) /\ SubSeq(content[p], 1, Len(content[p])) = content[p]
    BY <2>1, <2>2, <1>t, WriteGoesOn
  <2>4. QED
    BY <2>1, <2>2, <2>3, <1>t, WriteGoesOn DEF CallInv, BaseInv, Composing, HoldsBackup, Writing, Copying
<1>12. CASE WriteTmpFails(p)
  BY <1>12, <1>r DEF WriteTmpFails, HoldsTmp
<1>13. CASE LaunchWriter(p)
  <2>1. /\ pc[p] = "launch" /\ pc'[p] = "wait" /\ hw'[p] = "start"
        /\ UNCHANGED <<files, locals, src, base>>
    BY <1>13, <1>t DEF LaunchWriter, TypeOK
  <2>2. QED
    BY <2>1, <1>c DEF CallInv, BaseInv, Composing, HoldsBackup, Writing, Copying
<1>14. CASE LaunchFails(p)
  BY <1>14, <1>r DEF LaunchFails
<1>15. CASE Finish(p)
  <2>1. hw'[p] = "none"
    BY <1>15, <1>t DEF Finish, TypeOK
  <2>2. \E r : Finished(p, r)
    BY <1>15 DEF Finish
  <2>3. QED
    BY <2>1, <2>2, <1>t, CallReturned
<1>w. ASSUME WriterStep(p)
      PROVE  /\ pc[p] \in {"wait", "dead"} /\ domains[p] # <<>>
             /\ UNCHANGED <<tmp, pc, locals>> /\ base'[p] = base[p]
  BY <1>w, <1>t DEF WriterStep, HwOpen, HwOpenFails, HwCopyLine, HwDone, HwCopyFails, HwEnds,
     Touched, CallInv, Writing, Copying, TypeOK
<1>16. CASE HwOpen(p)
  <2>1. /\ hw[p] = "start" /\ tmp # NoFile /\ hw'[p] = "copy" /\ src'[p] = tmp /\ hosts' = <<>>
    BY <1>16, <1>t DEF HwOpen, TypeOK
  <2>2. tmp \in Seq(Line) /\ Len(<<>>) = 0
    BY <2>1, <1>t, FileMembers
  <2>3. Len(hosts') <= Len(src'[p]) /\ \A k \in 1..Len(hosts') : hosts'[k] = src'[p][k]
    BY <2>1, <2>2
  <2>4. QED
    BY <2>1, <2>3, <1>w, <1>16 DEF WriterStep, CallInv, BaseInv, Composing, HoldsBackup, Writing, Copying
<1>17. CASE HwOpenFails(p)
  <2>1. hw[p] = "start" /\ hw'[p] = "failed" /\ UNCHANGED <<hosts, src>>
    BY <1>17, <1>t DEF HwOpenFails, TypeOK
  <2>2. QED
    BY <2>1, <1>w, <1>17 DEF WriterStep, CallInv, BaseInv, Composing, HoldsBackup, Writing, Copying
<1>18. CASE HwCopyLine(p)
  <2>1. /\ Copying(p) /\ UNCHANGED <<hw, src>> /\ Len(hosts) < Len(src[p])
        /\ hosts' = Append(hosts, src[p][Len(hosts) + 1]) /\ hosts \in Seq(Line)
    BY <1>18, <1>h DEF HwCopyLine
  <2>2. \A k \in 1..Len(hosts) : hosts[k] = src[p][k]
    BY <2>1 DEF CallInv
  <2>3. Len(hosts') <= Len(src[p]) /\ \A k \in 1..Len(hosts') : hosts'[k] = src[p][k]
    BY <2>1, <2>2, <1>t
  <2>4. QED
    BY <2>1, <2>3, <1>w, <1>18 DEF WriterStep, CallInv, BaseInv, Composing, HoldsBackup, Writing, Copying
<1>19. CASE HwDone(p)
  <2>1. /\ Copying(p) /\ Len(hosts) = Len(src[p]) /\ hw'[p] = "ok" /\ hosts' = hosts
        /\ hosts \in Seq(Line)
    BY <1>19, <1>h, <1>t DEF HwDone, HwEnds, TypeOK
  <2>2. \A k \in 1..Len(hosts) : hosts[k] = src[p][k]
    BY <2>1 DEF CallInv
  <2>3. hosts = src[p]
    BY <2>1, <2>2, <1>t
  <2>4. pc[p] = "wait" => hosts' = content[p]
    BY <2>1, <2>3 DEF CallInv
  <2>5. QED
    BY <2>1, <2>4, <1>w, <1>19 DEF WriterStep, CallInv, BaseInv, Composing, HoldsBackup, Writing, Copying
<1>20. CASE HwCopyFails(p)
  <2>1. hw'[p] = "failed" /\ hosts' = hosts
    BY <1>20, <1>t DEF HwCopyFails, HwEnds, TypeOK
  <2>2. QED
    BY <2>1, <1>w, <1>20 DEF WriterStep, CallInv, BaseInv, Composing, HoldsBackup, Writing, Copying
<1>21. ~WriteTmpShort(p)
  BY DEF WriteTmpShort
<1>22. QED
  BY <1>1, <1>2, <1>3, <1>3l, <1>3b, <1>4, <1>5, <1>6, <1>7, <1>8, <1>9, <1>10, <1>11, <1>11c, <1>12, <1>13, <1>14,
     <1>15, <1>16, <1>17, <1>18, <1>19, <1>20, <1>21 DEF ProgramStep, WriterStep

(* Processes that end take no call but their own with them.                *)
LEMMA CallTerminated ==
  ASSUME TypeOK, NEW p \in Process, CallInv(p), NEW victims, Terminated(victims),
         UNCHANGED <<hosts, tmp>>,
         UNCHANGED <<hw, src>> \/ (p \in victims /\ hw'[p] = "none")
  PROVE  CallInv(p)'
<1>1. CASE p \in victims
  <2>1. pc'[p] = "dead" /\ base'[p] = NoFile /\ content'[p] = <<>> /\ ~inside'[p]
        /\ domains' = domains
    BY <1>1 DEF Terminated
  <2>2. QED
    BY <2>1, CallEnded
<1>2. CASE p \notin victims
  <2>1. Untouched(p) /\ base'[p] = base[p]
    BY <1>2 DEF Terminated, Untouched
  <2>2. QED
    BY <2>1, CallSame
<1>3. QED
  BY <1>1, <1>2

LEMMA CallStarted ==
  ASSUME TypeOK, NEW p \in Process, CallInv(p), NEW q \in Process, StartInstance(q)
  PROVE  CallInv(p)'
<1> USE DEF StartInstance, Goto, files, bounds, history
<1>1. CASE q = p
  <2>1. pc[p] = "dead" /\ pc'[p] = "idle" /\ hw'[p] = "none"
        /\ UNCHANGED <<inside, content, base>>
    BY <1>1 DEF TypeOK
  <2>2. base[p] = NoFile /\ content[p] = <<>> /\ ~inside[p]
    BY <2>1 DEF CallInv, BaseInv, Composing, HoldsBackup
  <2>3. QED
    BY <2>1, <2>2, CallOff
<1>2. CASE q # p
  <2>1. Untouched(p) /\ base'[p] = base[p] /\ UNCHANGED <<hosts, tmp>>
    BY <1>2 DEF TypeOK, Untouched
  <2>2. QED
    BY <2>1, CallSame
<1>3. QED
  BY <1>1, <1>2

LEMMA CallEnvironment ==
  ASSUME TypeOK, NEW p \in Process, CallInv(p), Environment
  PROVE  CallInv(p)'
<1> USE DEF files, writer
<1>1. ASSUME NEW q \in Process, Exit(q) \/ Kill(q) PROVE CallInv(p)'
  <2>1. Terminated({q}) /\ UNCHANGED <<files, writer>>
    BY <1>1 DEF Exit, Kill
  <2>2. QED
    BY <2>1, CallTerminated
<1>2. CASE Reboot
  <2>1. Terminated(Process) /\ UNCHANGED files /\ hw'[p] = "none"
    BY <1>2 DEF Reboot
  <2>2. QED
    BY <2>1, CallTerminated
<1>3. ASSUME NEW f \in EditFiles, UserEdit(f) PROVE CallInv(p)'
  <2>1. Untouched(p) /\ base'[p] = NoFile /\ ~Copying(p) /\ tmp' = tmp
    BY <1>3 DEF UserEdit, Untouched, locals
  <2>2. QED
    BY <2>1, CallEdited
<1>4. QED
  BY <1>1, <1>2, <1>3, CallStarted DEF Environment

(* Only the end of a call whose hostswriter.exe succeeded is a success.    *)
LEMMA OnlyFinishApplies ==
  ASSUME TypeOK, NEW p \in Process, CallStep(p) \/ ProgramStep(p) \/ WriterStep(p),
         result[p] # "applied", result'[p] = "applied"
  PROVE  /\ pc[p] = "wait" /\ hw[p] = "ok" /\ hosts # NoFile /\ hosts' = hosts
         /\ Finish(p)
<1> USE DEF files, locals, writer, bounds, history, Goto, Finished, TypeOK
<1>1. CASE CallStep(p)
  BY <1>1 DEF CallStep, LoadDomains, ApplyBlock, ReapplyBlock, BackupHosts, EnterApply
<1>2. CASE ProgramStep(p)
  <2>1. ~(CheckBackup(p) \/ BeginBackup(p) \/ CopyBackupLine(p) \/ CopyBackup(p) \/ BackupFails(p)
            \/ SaveCopied(p))
    BY DEF CheckBackup, BeginBackup, CopyBackupLine, CopyBackup, BackupFails, LeaveBackup, SaveCopied
  <2>2. ~(OpenHosts(p) \/ OpenHostsFails(p) \/ ReadLine(p) \/ BuildContent(p))
    BY DEF OpenHosts, OpenHostsFails, ReadLine, BuildContent
  <2>3. ~(OpenTmp(p) \/ OpenTmpFails(p) \/ WriteTmp(p) \/ CloseTmp(p) \/ WriteTmpShort(p)
            \/ WriteTmpFails(p))
    BY DEF OpenTmp, OpenTmpFails, WriteTmp, CloseTmp, WriteTmpShort, WriteUpTo, WriteTmpFails
  <2>4. ~(LaunchWriter(p) \/ LaunchFails(p))
    BY DEF LaunchWriter, LaunchFails
  <2>5. Finish(p)
    BY <1>2, <2>1, <2>2, <2>3, <2>4 DEF ProgramStep
  <2>6. QED
    BY <2>5 DEF Finish
<1>3. CASE WriterStep(p)
  BY <1>3 DEF WriterStep, HwOpen, HwOpenFails, HwCopyLine, HwDone, HwCopyFails, HwEnds
<1>4. QED
  BY <1>1, <1>2, <1>3

LEMMA NoEnvironmentApplies ==
  ASSUME TypeOK, NEW p \in Process, Environment, result'[p] = "applied"
  PROVE  result[p] = "applied"
<1> USE DEF history
<1>1. ASSUME NEW q \in Process, StartInstance(q) PROVE result' = result
  BY <1>1 DEF StartInstance
<1>2. ASSUME NEW q \in Process, Exit(q) \/ Kill(q) PROVE result'[p] \in {result[p], "none"}
  BY <1>2 DEF Exit, Kill, Terminated
<1>3. ASSUME Reboot PROVE result'[p] \in {result[p], "none"}
  BY <1>3 DEF Reboot, Terminated
<1>4. ASSUME NEW f \in EditFiles, UserEdit(f) PROVE result' = result
  BY <1>4 DEF UserEdit
<1>5. QED
  BY <1>1, <1>2, <1>3, <1>4 DEF Environment

---------------------------------------------------------------------------
(* One instance.                                                           *)

OneInv == TypeInv /\ \A p \in Process : CallInv(p)

LEMMA OneCallNext ==
  ASSUME "flush" \notin Faults, NEW p, Process = {p}, TypeInv, CallInv(p), [Next]_vars
  PROVE  CallInv(p)'
<1>t. TypeOK /\ p \in Process
  BY DEF TypeInv
<1>1. CASE CallStep(p) \/ ProgramStep(p) \/ WriterStep(p)
  BY <1>1, <1>t, CallNext
<1>2. CASE Environment
  BY <1>2, <1>t, CallEnvironment
<1>3. CASE UNCHANGED vars
  <2>1. Untouched(p) /\ base'[p] = base[p] /\ UNCHANGED <<hosts, tmp>>
    BY <1>3 DEF vars, files, locals, writer, history, Untouched
  <2>2. QED
    BY <2>1, <1>t, CallSame
<1>4. QED
  BY <1>1, <1>2, <1>3 DEF Next

LEMMA OneInit == Init => OneInv
  BY TypeInit, CallInit DEF OneInv

LEMMA OneNext ==
  ASSUME "flush" \notin Faults, NEW i, Process = {i}
  PROVE  OneInv /\ [Next]_vars => OneInv'
  BY TypeNext, OneCallNext DEF OneInv

(* For any list, any file, any edits and crashes, and any faults but the   *)
(* loss of buffered text: a call of applyBlock that succeeds has replaced  *)
(* the hosts file by exactly the lines outside the blocks it read, ended   *)
(* or not, and one block of its list behind them.                          *)
THEOREM RewrittenHolds ==
  ASSUME "flush" \notin Faults, NEW i, Process = {i}
  PROVE  Spec => AppliedMeansRewritten
<1>1. ASSUME OneInv, [Next]_vars,
             NEW p \in Process, result[p] # "applied", result'[p] = "applied", base[p] # NoFile
      PROVE  hosts' = Composed(Kept(base[p]), domains[p])
  <2>1. p = i /\ TypeOK /\ CallInv(p)
    BY <1>1 DEF OneInv, TypeInv
  <2>2. CallStep(p) \/ ProgramStep(p) \/ WriterStep(p)
    BY <1>1, <2>1, NoEnvironmentApplies DEF Next, vars
  <2>3. pc[p] = "wait" /\ hw[p] = "ok" /\ hosts' = hosts
    BY <1>1, <2>1, <2>2, OnlyFinishApplies
  <2>4. QED
    BY <1>1, <2>1, <2>3 DEF CallInv, BaseInv, Composing
<1>2. OneInv /\ [Next]_vars =>
        [\A p \in Process :
           (result[p] # "applied" /\ result'[p] = "applied" /\ base[p] # NoFile)
             => hosts' = Composed(Kept(base[p]), domains[p])]_vars
  BY <1>1
<1>3. OneInv /\ [Next]_vars => OneInv'
  BY OneNext
<1>4. QED
  BY OneInit, <1>2, <1>3, PTL DEF Spec, AppliedMeansRewritten

---------------------------------------------------------------------------
LEMMA OriginalInit == Init => \A p \in Process : OriginalInv(p)
  BY DEF Init, OriginalInv, Composing, Writing

LEMMA OriginalNext ==
  ASSUME "backup" \notin Faults \cup Operations, NEW p, Process = {p},
         TypeInv, OriginalInv(p), [Next]_vars
  PROVE  OriginalInv(p)'
<1> SUFFICES ASSUME edits' = 0 PROVE OriginalInv(p)'
  BY DEF OriginalInv
<1>p. p \in Process /\ TypeOK
  BY DEF TypeInv
<1> USE DEF files, locals, writer, bounds, history, Goto
<1>s. CASE CallStep(p) \/ ProgramStep(p)
  <2>0. edits = 0 /\ UNCHANGED <<hosts, original, crashes>>
    BY <1>s, <1>p, CallLocal
  <2>f. ASSUME NEW r, Finished(p, r), backup' = backup,
               ~Writing(p)' \/ (hw' = hw /\ pc[p] \notin {"wait", "dead"}),
               pc[p] # "backup_copy"
        PROVE  OriginalInv(p)'
    <3>1. pc'[p] = "idle"
      BY <2>f, <1>p DEF Finished, TypeOK
    <3>2. QED
      BY <3>1, <2>0, <2>f DEF OriginalInv, Composing, Writing
  <2>m. ASSUME NEW from, NEW to, pc[p] = from, pc' = [pc EXCEPT ![p] = to], backup' = backup,
               from \in {"open", "read", "tmp", "write", "close", "launch"},
               to \in {"read", "tmp", "write", "close", "launch", "wait"},
               from = "open" => hosts # NoFile, hw' = hw \/ to = "wait", crashes' = crashes
        PROVE  OriginalInv(p)'
    <3>1. pc'[p] = to
      BY <2>m, <1>p DEF TypeOK
    <3>2. QED
      BY <3>1, <2>0, <2>m DEF OriginalInv, Composing, Writing
  <2>1. CASE CallStep(p)
    <3>1. ~BackupHosts(p)
      BY DEF BackupHosts, Call
    <3>2. UNCHANGED <<backup, hw>> /\ (pc' = pc \/ pc'[p] \in {"idle", "backup"}) /\ pc[p] = "idle"
      BY <2>1, <1>p, <3>1 DEF CallStep, LoadDomains, ApplyBlock, ReapplyBlock, EnterApply, Call, Finished, TypeOK
    <3>3. QED
      BY <2>0, <3>2 DEF OriginalInv, Composing, Writing
  <2>2. CASE CheckBackup(p)
    <3>1. /\ pc'[p] = IF backup = NoFile THEN "backup_begin" ELSE "open"
          /\ UNCHANGED <<backup, hw>> /\ pc[p] = "backup"
      BY <2>2, <1>p DEF CheckBackup, TypeOK
    <3>2. QED
      BY <2>0, <3>1 DEF OriginalInv, Composing, Writing
  <2>3. CASE BeginBackup(p)
    <3>1. /\ pc[p] = "backup_begin" /\ pc'[p] = "backup_copy" /\ backup' = <<>> /\ hw' = hw
          /\ hosts # NoFile /\ content'[p] = hosts
      BY <2>3, <1>p DEF BeginBackup, StartCopy, CannotCopy, TypeOK
    <3>2. hosts = original /\ original \in Seq(Line)
      BY <2>0, <3>1, <1>p, FileMembers DEF OriginalInv, TypeOK
    <3>3. CopiedFrom(<<>>, original)
      <4>1. SubSeq(original, 1, 0) = <<>> /\ 0 \in 0..Len(original)
        BY <3>2
      <4>2. QED
        BY <3>1, <3>2, <4>1 DEF CopiedFrom
    <3>4. QED
      BY <2>0, <3>1, <3>2, <3>3, FileMembers DEF OriginalInv, Composing, Writing
  <2>3l. CASE CopyBackupLine(p)
    <3>1. /\ pc[p] = "backup_copy" /\ UNCHANGED <<pc, hw, content, crashes>>
          /\ Len(backup) < Len(content[p]) /\ backup' = Append(backup, content[p][Len(backup) + 1])
      BY <2>3l, <2>0 DEF CopyBackupLine, HoldsBackup, OriginalInv
    <3>2. /\ backup \in Seq(Line) /\ original \in Seq(Line) /\ content[p] = original
          /\ CopiedFrom(backup, original) /\ hosts = original
      BY <2>0, <3>1, <1>p, FileMembers DEF OriginalInv, TypeOK
    <3>3. CopiedFrom(backup', original) /\ backup' # NoFile
      <4>1. CopiedFrom(backup', original)
        BY <3>1, <3>2, NextLine
      <4>2. backup' \in Seq(Line)
        BY <4>1, <3>2 DEF CopiedFrom
      <4>3. QED
        BY <4>1, <4>2, FileMembers
    <3>4. QED
      BY <2>0, <3>1, <3>2, <3>3 DEF OriginalInv, Composing, Writing
  <2>4. CASE CopyBackup(p)
    <3>1. /\ pc[p] = "backup_copy" /\ pc'[p] = "open" /\ UNCHANGED <<backup, hw, crashes>>
          /\ Len(backup) = Len(content[p])
      BY <2>4, <1>p DEF CopyBackup, LeaveBackup, TypeOK
    <3>2. /\ backup \in Seq(Line) /\ original \in Seq(Line) /\ content[p] = original
          /\ CopiedFrom(backup, original) /\ hosts = original
      BY <2>0, <3>1, <1>p, FileMembers DEF OriginalInv, TypeOK
    <3>3. backup = original /\ backup # NoFile
      BY <3>1, <3>2, CopiedAll, FileMembers
    <3>4. QED
      BY <2>0, <3>1, <3>2, <3>3 DEF OriginalInv, Composing, Writing
  <2>5. CASE BackupFails(p)
    <3>1. CannotCopy => hosts = NoFile \/ HoldsBackup(p)
      BY DEF CannotCopy
    <3>2. /\ pc[p] = "backup_begin" /\ hosts = NoFile /\ pc'[p] = "open"
          /\ UNCHANGED <<backup, hw, crashes>>
      BY <2>5, <3>1, <1>p DEF BackupFails, LeaveBackup, HoldsBackup, TypeOK
    <3>3. QED
      BY <2>0, <3>2 DEF OriginalInv, Composing, Writing
  <2>6. ~SaveCopied(p)
    BY <2>0 DEF SaveCopied, OriginalInv
  <2>7. CASE OpenHosts(p) \/ BuildContent(p) \/ OpenTmp(p) \/ LaunchWriter(p)
    BY <2>7, <2>m DEF OpenHosts, BuildContent, OpenTmp, LaunchWriter
  <2>7w. CASE WriteTmp(p) \/ CloseTmp(p) \/ WriteTmpShort(p)
    BY <2>7w, <2>m DEF WriteTmp, CloseTmp, WriteTmpShort, WriteUpTo
  <2>8. CASE ReadLine(p)
    BY <2>8, <2>0 DEF ReadLine, OriginalInv, Composing, Writing
  <2>9. CASE OpenHostsFails(p) \/ OpenTmpFails(p) \/ WriteTmpFails(p) \/ LaunchFails(p)
    BY <2>9, <2>f DEF OpenHostsFails, OpenTmpFails, WriteTmpFails, LaunchFails, HoldsTmp
  <2>10. CASE Finish(p)
    <3>1. ~Writing(p)' /\ backup' = backup
      BY <2>10, <1>p DEF Finish, Writing, TypeOK
    <3>2. QED
      BY <2>10, <3>1, <2>f DEF Finish
  <2>11. QED
    BY <1>s, <2>1, <2>2, <2>3, <2>3l, <2>4, <2>5, <2>6, <2>7, <2>7w, <2>8, <2>9, <2>10 DEF ProgramStep
<1>w. CASE WriterStep(p)
  <2>1. Writing(p) /\ UNCHANGED <<pc, backup, content, original, edits, crashes>>
        /\ pc[p] \in {"wait", "dead"} /\ backup # NoFile
    BY <1>w DEF WriterStep, HwOpen, HwOpenFails, HwCopyLine, HwDone, HwCopyFails, HwEnds,
       Copying, Writing, OriginalInv
  <2>2. QED
    BY <2>1 DEF OriginalInv, Composing, Writing
<1>v. CASE Environment
  <2>0. ASSUME UNCHANGED <<files, original, edits>>,
               crashes' # 0 \/ (crashes' = crashes /\ pc[p] # "backup_copy"),
               (pc'[p] = "dead" /\ hw' = hw) \/ (pc'[p] \in {"idle", "dead"} /\ hw'[p] = "none")
        PROVE  OriginalInv(p)'
    BY <2>0 DEF OriginalInv, Composing, Writing
  <2>1. CASE Exit(p)
    <3>1. /\ UNCHANGED <<files, original, edits, hw, crashes>> /\ pc'[p] = "dead"
          /\ pc[p] # "backup_copy"
      BY <2>1, <1>p DEF Exit, Terminated, TypeOK
    <3>2. QED
      BY <3>1, <2>0
  <2>1k. CASE Kill(p)
    <3>1. UNCHANGED <<files, original, edits, hw>> /\ pc'[p] = "dead"
      BY <2>1k, <1>p DEF Kill, Terminated, TypeOK
    <3>2. crashes' # 0
      BY <2>1k, <1>p DEF Kill, Crash, TypeOK
    <3>3. QED
      BY <3>1, <3>2, <2>0
  <2>3. CASE Reboot
    <3>1. UNCHANGED <<files, original, edits>> /\ pc'[p] = "dead" /\ hw'[p] = "none" /\ crashes' # 0
      BY <2>3, <1>p DEF Reboot, Crash, Terminated, TypeOK
    <3>2. QED
      BY <3>1, <2>0
  <2>4. CASE StartInstance(p)
    <3>1. /\ UNCHANGED <<files, original, edits, crashes>> /\ pc'[p] = "idle" /\ hw'[p] = "none"
          /\ pc[p] # "backup_copy"
      BY <2>4, <1>p DEF StartInstance, TypeOK
    <3>2. QED
      BY <3>1, <2>0
  <2>2. ASSUME NEW f \in EditFiles, UserEdit(f) PROVE FALSE
    BY <2>2, <1>p DEF UserEdit, TypeOK
  <2>5. QED
    BY <1>v, <1>p, <2>1, <2>1k, <2>2, <2>3, <2>4 DEF Environment
<1>u. CASE UNCHANGED vars
  BY <1>u DEF vars, OriginalInv, Composing, Writing
<1>q. QED
  BY <1>s, <1>w, <1>v, <1>u DEF Next

(* For one instance, any lists, files and crashes, and any faults but that *)
(* of the copy itself: until the user edits it, the hosts file or the      *)
(* backup is the file as it was before the program ran, at every moment of *)
(* every call, unless a crash left a backup of only its first lines.       *)
THEOREM OriginalHolds ==
  ASSUME "backup" \notin Faults \cup Operations, NEW i, Process = {i}
  PROVE  Spec => []OriginalRecoverable
<1> DEFINE Inv == TypeInv /\ \A p \in Process : OriginalInv(p)
<1>1. Init => Inv
  BY TypeInit, OriginalInit
<1>2. Inv /\ [Next]_vars => Inv'
  BY TypeNext, OriginalNext DEF TypeInv
<1>3. Inv => OriginalRecoverable
  <2> SUFFICES ASSUME Inv, edits = 0, hosts # original, backup # original
               PROVE  crashes > 0 /\ CutShort
    BY DEF OriginalRecoverable
  <2>1. OriginalInv(i) /\ backup # NoFile /\ CopiedFrom(backup, original)
    BY DEF OriginalInv
  <2>2. crashes > 0
    <3>1. crashes # 0 /\ crashes \in Nat
      BY <2>1 DEF OriginalInv, TypeInv, TypeOK
    <3>2. QED
      BY <3>1
  <2>3. original \in Seq(Line)
    BY <2>1, FileMembers DEF CopiedFrom, TypeInv, TypeOK
  <2>4. PICK n \in 0..Len(original) : backup = SubSeq(original, 1, n)
    BY <2>1 DEF CopiedFrom
  <2>5. n # Len(original)
    BY <2>3, <2>4
  <2>6. QED
    BY <2>1, <2>2, <2>3, <2>4, <2>5 DEF CutShort
<1>4. QED
  BY <1>1, <1>2, <1>3, PTL DEF Spec
==========================================================================
