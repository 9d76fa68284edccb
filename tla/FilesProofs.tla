----------------------------- MODULE FilesProofs -----------------------------
(***************************************************************************)
(* The files that scripts leave, for any names, traits, closures and       *)
(* contents: the inventory of packages, however often it is killed, and    *)
(* the relocatable prefix, whatever is laid over what.                     *)
(***************************************************************************)
EXTENDS Inventory, Prefix, FiniteSetTheorems, SequenceTheorems, WellFoundedInduction, TLAPS

\* A set of numbers has a least one.
LEMMA LeastNat ==
  ASSUME NEW T \in SUBSET Nat, T # {}
  PROVE  \E n \in T : \A m \in T : n <= m
<1> DEFINE R == {ss \in Nat \X Nat : ss[1] < ss[2]}
<1>1. IsWellFoundedOn(R, Nat)
  BY NatLessThanWellFounded DEF OpToRel
<1> HIDE DEF R
<1>2. PICK n \in T : \A m \in T : ~(<<m, n>> \in R)
  BY <1>1, WFMin
<1>3. ASSUME NEW m \in T PROVE n <= m
  <2>1. <<m, n>> \notin R
    BY <1>2
  <2>2. ~(m < n)
    BY <2>1 DEF R
  <2> QED BY <2>2
<1> QED BY <1>3

-----------------------------------------------------------------------------
(* The inventory of packages.                                              *)

\* What may be in the file.
NameSet == {Names[i] : i \in DOMAIN Names}
Records == [name : NameSet, ok : BOOLEAN, pin : Pins]

\* Records of the first names, in order, at the pin of the run; what was given
\* up failed alone.
FileOK(ls) ==
  /\ ls \in Seq(Records) /\ Len(ls) <= Len(Names)
  /\ \A i \in 1..Len(ls) :
       ls[i].name = Names[i] /\ ls[i].pin = runFile /\ (ls[i].ok \/ ls[i].name \in alone)

\* Behind the records: nothing, a torn record, or one more without its newline.
TailOK(ls, t) ==
  t = <<>> \/ t = Torn \/ (t \in Seq(Records) /\ Len(t) = 1 /\ FileOK(ls \o t))

\* The records that the file has: a torn one is none.
Solid == IF tail = Torn THEN lines ELSE lines \o tail

\* The batches and what is left are the names that are not recorded, in pieces.
PiecesOK(from, bs, rest) ==
  \E cut \in [1..(Len(bs) + 1) -> 0..Len(Names)] :
    /\ cut[1] = from /\ rest = SubSeq(Names, cut[Len(bs) + 1] + 1, Len(Names))
    /\ \A b \in 1..Len(bs) : cut[b] < cut[b + 1] /\ bs[b] = SubSeq(Names, cut[b] + 1, cut[b + 1])

\* Each step of a run goes by its pin and works on what is not recorded.
RunsOn ==
  /\ pc = "created" => runFile = NoRunFile
  /\ pc \in {"batch", "evaluate"} => runFile = pin
  /\ pc = "batch" => left = SubSeq(Names, Len(lines) + 1, Len(Names))
  /\ pc = "evaluate" =>
       /\ buffer \in Seq(Records) /\ FileOK(lines \o buffer)
       /\ batches \in Seq(Seq(NameSet)) /\ PiecesOK(Len(lines) + Len(buffer), batches, left)

\* A complete manifest has decided on every name.
ManifestOK ==
  manifest.complete => Len(Solid) = Len(Names) /\ manifest.selected = SelectedRows(Solid)

InventoryInv ==
  /\ pin \in Pins /\ runFile \in Pins \cup {NoDirectory, NoRunFile}
  /\ pc \in {"off", "created", "batch", "evaluate"}
  /\ FileOK(lines) /\ TailOK(lines, tail) /\ (pc # "off" => tail = <<>>)
  /\ runFile \notin Pins => lines = <<>> /\ tail = <<>>
  /\ RunsOn /\ ManifestOK

-----------------------------------------------------------------------------
\* A record is never one that cannot be read.
LEMMA RecordsReadable == Broken \notin Records /\ Torn # <<>> /\ Torn \notin Seq(Records)
<1>1. Broken \notin Records
  BY InventoryAssumption DEF Broken, Records, NameSet
<1> HIDE DEF Broken
<1>2. Torn \notin Seq(Records)
  <2> SUFFICES ASSUME Torn \in Seq(Records) PROVE FALSE
    OBVIOUS
  <2>1. PICK t \in Seq(Records) : t = <<Broken>>
    BY DEF Torn
  <2>2. Len(t) = 1 /\ t[1] = Broken
    BY <2>1
  <2>3. 1 \in 1..Len(t)
    BY <2>2
  <2>4. t[1] \in Records
    BY <2>3, ElementOfSeq
  <2> QED BY <1>1, <2>2, <2>4
<1> QED BY <1>1, <1>2 DEF Torn

\* Fewer of the records of a file.
LEMMA FewerRecords ==
  ASSUME NEW all, FileOK(all), NEW z \in Seq(Records), Len(z) <= Len(all), \A i \in 1..Len(z) : z[i] = all[i]
  PROVE  FileOK(z)
<1>1. Len(z) \in Nat /\ Len(all) \in Nat /\ Len(Names) \in Nat
  BY InventoryAssumption, LenProperties DEF FileOK
<1>2. Len(z) <= Len(Names) /\ \A i \in 1..Len(z) : i \in 1..Len(all)
  BY <1>1 DEF FileOK
<1>3. \A i \in 1..Len(z) : z[i].name = Names[i] /\ z[i].pin = runFile /\ (z[i].ok \/ z[i].name \in alone)
  <2> SUFFICES ASSUME NEW i \in 1..Len(z)
               PROVE  z[i].name = Names[i] /\ z[i].pin = runFile /\ (z[i].ok \/ z[i].name \in alone)
    OBVIOUS
  <2>1. PICK r : r = all[i] /\ r = z[i]
    OBVIOUS
  <2>2. r.name = Names[i] /\ r.pin = runFile /\ (r.ok \/ r.name \in alone)
    BY <1>2, <2>1 DEF FileOK
  <2> QED BY <2>1, <2>2
<1> QED BY <1>2, <1>3 DEF FileOK

\* Records in a file: all of them, or the first ones.
LEMMA FirstRecords ==
  ASSUME NEW ls \in Seq(Records), NEW bs \in Seq(Records), FileOK(ls \o bs), NEW n \in 0..Len(bs)
  PROVE  /\ FileOK(ls \o SubSeq(bs, 1, n))
         /\ n < Len(bs) => /\ FileOK((ls \o SubSeq(bs, 1, n)) \o <<bs[n + 1]>>)
                           /\ <<bs[n + 1]>> \in Seq(Records)
<1>0. /\ n \in Nat /\ n <= Len(bs) /\ Len(ls) \in Nat /\ Len(bs) \in Nat /\ Len(Names) \in Nat
      /\ \A i \in 1..Len(bs) : bs[i] \in Records
  BY InventoryAssumption, LenProperties, ElementOfSeq
<1>1. PICK all : all = ls \o bs
  OBVIOUS
<1>2. /\ Len(all) = Len(ls) + Len(bs)
      /\ \A i \in 1..(Len(ls) + Len(bs)) : all[i] = IF i <= Len(ls) THEN ls[i] ELSE bs[i - Len(ls)]
  BY <1>1, ConcatProperties
<1>3. PICK c : c = SubSeq(bs, 1, n)
  OBVIOUS
<1>4. c \in Seq(Records) /\ Len(c) = n /\ \A i \in 1..n : c[i] = bs[i]
  <2>1. /\ c \in Seq(Records) /\ Len(c) = IF 1 <= n THEN n - 1 + 1 ELSE 0
        /\ \A i \in 1..(n - 1 + 1) : c[i] = bs[1 + i - 1]
    BY <1>0, <1>3, SubSeqProperties
  <2> QED BY <1>0, <2>1
<1>5. PICK z : z = ls \o c
  OBVIOUS
<1>6. /\ z \in Seq(Records) /\ Len(z) = Len(ls) + n
      /\ \A i \in 1..(Len(ls) + n) : z[i] = IF i <= Len(ls) THEN ls[i] ELSE c[i - Len(ls)]
  <2>1. /\ z \in Seq(Records) /\ Len(z) = Len(ls) + Len(c)
        /\ \A i \in 1..(Len(ls) + Len(c)) : z[i] = IF i <= Len(ls) THEN ls[i] ELSE c[i - Len(ls)]
    BY <1>4, <1>5, ConcatProperties
  <2> QED BY <1>4, <2>1
<1>7. \A i \in 1..(Len(ls) + n) : z[i] = all[i]
  <2> SUFFICES ASSUME NEW i \in 1..(Len(ls) + n) PROVE z[i] = all[i]
    OBVIOUS
  <2>1. i \in 1..(Len(ls) + Len(bs))
    BY <1>0
  <2>2. CASE i <= Len(ls)
    BY <1>2, <1>6, <2>1, <2>2
  <2>3. CASE ~(i <= Len(ls))
    <3>1. i - Len(ls) \in 1..n
      BY <1>0, <2>3
    <3> QED BY <1>2, <1>4, <1>6, <2>1, <2>3, <3>1
  <2> QED BY <2>2, <2>3
<1>8. FileOK(z)
  <2>1. FileOK(all)
    BY <1>1
  <2>2. Len(z) = Len(ls) + n /\ Len(all) = Len(ls) + Len(bs)
    BY <1>2, <1>6
  <2>3. \A i \in 1..Len(z) : z[i] = all[i]
    BY <1>7, <2>2
  <2>4. Len(z) <= Len(all)
    BY <1>0, <2>2
  <2> QED BY <1>6, <2>1, <2>3, <2>4, FewerRecords
<1>9. ASSUME n < Len(bs)
      PROVE  FileOK(z \o <<bs[n + 1]>>) /\ <<bs[n + 1]>> \in Seq(Records)
  <2>1. PICK r : r = bs[n + 1]
    OBVIOUS
  <2>2. r \in Records /\ n + 1 \in 1..Len(bs)
    BY <1>0, <1>9, <2>1
  <2>3. PICK t : t = <<r>>
    OBVIOUS
  <2>4. t \in Seq(Records) /\ Len(t) = 1 /\ t[1] = r
    BY <2>2, <2>3
  <2>5. PICK y : y = z \o t
    OBVIOUS
  <2>6. /\ y \in Seq(Records) /\ Len(y) = Len(ls) + n + 1
        /\ \A i \in 1..(Len(ls) + n + 1) : y[i] = IF i <= Len(ls) + n THEN z[i] ELSE t[i - (Len(ls) + n)]
    <3>1. /\ y \in Seq(Records) /\ Len(y) = Len(z) + Len(t)
          /\ \A i \in 1..(Len(z) + Len(t)) : y[i] = IF i <= Len(z) THEN z[i] ELSE t[i - Len(z)]
      BY <1>6, <2>4, <2>5, ConcatProperties
    <3> QED BY <1>6, <2>4, <3>1
  <2>7. all[Len(ls) + n + 1] = r
    BY <1>0, <1>2, <2>1, <2>2
  <2>8. \A i \in 1..(Len(ls) + n + 1) : y[i] = all[i]
    <3> SUFFICES ASSUME NEW i \in 1..(Len(ls) + n + 1) PROVE y[i] = all[i]
      OBVIOUS
    <3>1. CASE i <= Len(ls) + n
      BY <1>0, <1>7, <2>6, <3>1
    <3>2. CASE i = Len(ls) + n + 1
      <4>1. i - (Len(ls) + n) = 1 /\ ~(i <= Len(ls) + n)
        BY <1>0, <3>2
      <4> QED BY <2>4, <2>6, <2>7, <3>2, <4>1
    <3> QED BY <1>0, <3>1, <3>2
  <2>9. FileOK(y)
    <3>1. FileOK(all)
      BY <1>1
    <3>2. Len(y) <= Len(all) /\ \A i \in 1..Len(y) : y[i] = all[i]
      BY <1>0, <1>2, <1>9, <2>6, <2>8
    <3> QED BY <2>6, <3>1, <3>2, FewerRecords
  <2> QED BY <2>1, <2>3, <2>4, <2>5, <2>9
<1> QED BY <1>3, <1>5, <1>8, <1>9

\* Names can only fail alone in addition.
LEMMA GivenUpStays ==
  ASSUME NEW ls, FileOK(ls), runFile' = runFile, alone \subseteq alone' PROVE FileOK(ls)'
  BY DEF FileOK

\* An empty file is well formed at any pin.
LEMMA NoRecords == FileOK(<<>>) /\ FileOK(<<>>)'
  BY InventoryAssumption DEF FileOK

\* The names that are not recorded, when the first ones are.
LEMMA UnrecordedIs ==
  ASSUME NEW m \in 0..Len(Names), NEW recorded, recorded = {Names[i] : i \in 1..m}
  PROVE  Unrecorded(recorded) = SubSeq(Names, m + 1, Len(Names))
<1> DEFINE is == {i \in DOMAIN Names : Names[i] \notin recorded}
           nth(k) == CHOOSE i \in is : Cardinality({j \in is : j <= i}) = k
<1>0. Len(Names) \in Nat /\ DOMAIN Names = 1..Len(Names)
  BY InventoryAssumption
<1>1. is = (m + 1)..Len(Names)
  <2>1. ASSUME NEW i \in is PROVE i \in (m + 1)..Len(Names)
    BY <1>0
  <2>2. ASSUME NEW i \in (m + 1)..Len(Names) PROVE i \in is
    <3>1. i \in DOMAIN Names /\ \A j \in 1..m : j \in DOMAIN Names /\ j # i
      BY <1>0
    <3>2. \A j \in 1..m : Names[j] # Names[i]
      BY <3>1, InventoryAssumption
    <3> QED BY <3>1, <3>2
  <2> QED BY <2>1, <2>2
<1> HIDE DEF is
<1>2. Cardinality(is) = Len(Names) - m
  <2>1. PICK a, n \in Int : a = m + 1 /\ n = Len(Names) /\ a <= n + 1 /\ n - a + 1 = n - m
    BY <1>0
  <2>2. Cardinality(a..n) = IF a > n THEN 0 ELSE n - a + 1
    BY ONLY <2>1, FS_Interval
  <2>3. Cardinality(a..n) = n - m
    BY ONLY <1>0, <2>1, <2>2, m \in 0..Len(Names)
  <2> QED BY <1>1, <2>1, <2>3
<1>3. ASSUME NEW i \in is PROVE Cardinality({j \in is : j <= i}) = i - m
  <2>0. m \in Int /\ i \in Int /\ m + 1 <= i
    BY <1>0, <1>1
  <2>1. {j \in is : j <= i} = (m + 1)..i
    BY <1>0, <1>1
  <2>2. Cardinality((m + 1)..i) = IF m + 1 > i THEN 0 ELSE i - (m + 1) + 1
    BY <2>0, FS_Interval
  <2>3. Cardinality((m + 1)..i) = i - m
    BY <2>0, <2>2
  <2> QED BY <2>1, <2>3
<1>4. ASSUME NEW k \in 1..(Len(Names) - m) PROVE nth(k) = m + k
  <2>1. m + k \in is
    BY <1>0, <1>1
  <2>2. Cardinality({j \in is : j <= m + k}) = k
    BY <1>0, <1>3, <2>1
  <2>3. \A i \in is : Cardinality({j \in is : j <= i}) = k => i = m + k
    BY <1>0, <1>1, <1>3
  <2> QED BY <2>1, <2>2, <2>3
<1>5. Unrecorded(recorded) = [k \in 1..Cardinality(is) |-> Names[nth(k)]]
  BY DEF Unrecorded, is
<1>6. Unrecorded(recorded) = [k \in 1..(Len(Names) - m) |-> Names[m + k]]
  BY <1>2, <1>4, <1>5
<1>7. SubSeq(Names, m + 1, Len(Names)) = [k \in 1..(Len(Names) - m) |-> Names[m + k]]
  <2>1. PICK S : Names \in Seq(S)
    BY InventoryAssumption
  <2>2. PICK q : q = SubSeq(Names, m + 1, Len(Names))
    OBVIOUS
  <2>3. \A i \in (m + 1)..Len(Names) : Names[i] \in S
    BY <1>0, <2>1, ElementOfSeq
  <2>4. /\ q \in Seq(S) /\ Len(q) = IF m + 1 <= Len(Names) THEN Len(Names) - (m + 1) + 1 ELSE 0
        /\ \A k \in 1..(Len(Names) - (m + 1) + 1) : q[k] = Names[m + 1 + k - 1]
    <3>1. m + 1 \in Int /\ Len(Names) \in Int
      BY <1>0
    <3> QED BY <2>2, <2>3, <3>1, SubSeqProperties
  <2>5. Len(q) = Len(Names) - m /\ \A k \in 1..(Len(Names) - m) : q[k] = Names[m + k]
    <3>1. Len(Names) - (m + 1) + 1 = Len(Names) - m
      BY <1>0
    <3>2. \A k \in 1..(Len(Names) - m) : m + 1 + k - 1 = m + k
      BY <1>0
    <3>3. m \in Nat /\ m <= Len(Names) /\ (m + 1 <= Len(Names) \/ Len(Names) - m = 0)
      <4> HIDE DEF is
      <4>1. PICK L : L = Len(Names)
        OBVIOUS
      <4>2. L \in Nat /\ m \in 0..L
        BY ONLY <1>0, <4>1, m \in 0..Len(Names)
      <4>3. m \in Nat /\ m <= L /\ (m + 1 <= L \/ L - m = 0)
        BY ONLY <4>2
      <4> QED BY <4>1, <4>3
    <3>4. Len(q) = Len(Names) - m
      BY <1>0, <2>4, <3>1, <3>3
    <3>5. \A k \in 1..(Len(Names) - m) : q[k] = Names[m + k]
      BY <2>4, <3>1, <3>2
    <3> QED BY <3>4, <3>5
  <2>6. q = [k \in 1..Len(q) |-> q[k]]
    BY <2>4, LenProperties
  <2> QED BY <2>2, <2>5, <2>6
<1> QED BY <1>6, <1>7

-----------------------------------------------------------------------------
\* A piece of a piece of the names.
LEMMA PieceOfPiece ==
  ASSUME NEW a \in 0..Len(Names), NEW b \in a..Len(Names),
         NEW c \in 0..(b - a), NEW d \in c..(b - a)
  PROVE  SubSeq(SubSeq(Names, a + 1, b), c + 1, d) = SubSeq(Names, a + c + 1, a + d)
<1>0. Len(Names) \in Nat /\ a \in Nat /\ b \in Nat /\ c \in Nat /\ d \in Nat
      /\ a <= b /\ b <= Len(Names) /\ c <= d /\ d <= b - a
  BY InventoryAssumption
<1>1. PICK S : S = NameSet
  OBVIOUS
<1>2. Names \in Seq(S) /\ \A i \in 1..Len(Names) : Names[i] \in S
  BY <1>1, InventoryAssumption, ElementOfSeq DEF NameSet
<1>3. PICK p : p = SubSeq(Names, a + 1, b)
  OBVIOUS
<1>4. p \in Seq(S) /\ Len(p) = b - a /\ \A i \in 1..(b - a) : p[i] = Names[a + i]
  <2>1. a + 1 \in Int /\ b \in Int /\ \A i \in (a + 1)..b : Names[i] \in S
    BY <1>0, <1>2
  <2>2. /\ p \in Seq(S) /\ Len(p) = IF a + 1 <= b THEN b - (a + 1) + 1 ELSE 0
        /\ \A i \in 1..(b - (a + 1) + 1) : p[i] = Names[a + 1 + i - 1]
    BY <1>2, <1>3, <2>1, SubSeqProperties
  <2>3. b - (a + 1) + 1 = b - a /\ (a + 1 <= b \/ b - a = 0) /\ \A i \in 1..(b - a) : a + 1 + i - 1 = a + i
    BY ONLY <1>0
  <2> QED BY <2>2, <2>3
<1>5. PICK q : q = SubSeq(p, c + 1, d)
  OBVIOUS
<1>6. q \in Seq(S) /\ Len(q) = d - c /\ \A i \in 1..(d - c) : q[i] = p[c + i]
  <2>1. c + 1 \in Int /\ d \in Int /\ \A i \in (c + 1)..d : p[i] \in S
    BY <1>0, <1>4, ElementOfSeq
  <2>2. /\ q \in Seq(S) /\ Len(q) = IF c + 1 <= d THEN d - (c + 1) + 1 ELSE 0
        /\ \A i \in 1..(d - (c + 1) + 1) : q[i] = p[c + 1 + i - 1]
    <3>1. PICK e \in Int : e = c + 1
      BY <2>1
    <3>2. q = SubSeq(p, e, d) /\ \A i \in e..d : p[i] \in S
      BY <1>5, <2>1, <3>1
    <3>3. /\ SubSeq(p, e, d) \in Seq(S) /\ Len(SubSeq(p, e, d)) = IF e <= d THEN d - e + 1 ELSE 0
          /\ \A i \in 1..(d - e + 1) : SubSeq(p, e, d)[i] = p[e + i - 1]
      BY ONLY <2>1, <3>1, <3>2, SubSeqProperties, SMTT(30)
    <3> QED BY ONLY <3>1, <3>2, <3>3
  <2>3. d - (c + 1) + 1 = d - c /\ (c + 1 <= d \/ d - c = 0) /\ \A i \in 1..(d - c) : c + 1 + i - 1 = c + i
    BY ONLY <1>0
  <2> QED BY <2>2, <2>3
<1>7. PICK r : r = SubSeq(Names, a + c + 1, a + d)
  OBVIOUS
<1>8. r \in Seq(S) /\ Len(r) = d - c /\ \A i \in 1..(d - c) : r[i] = Names[a + c + i]
  <2>1. a + c + 1 \in Int /\ a + d \in Int /\ \A i \in (a + c + 1)..(a + d) : i \in 1..Len(Names)
    BY ONLY <1>0
  <2>4. \A i \in (a + c + 1)..(a + d) : Names[i] \in S
    BY <1>2, <2>1
  <2>2. /\ r \in Seq(S) /\ Len(r) = IF a + c + 1 <= a + d THEN a + d - (a + c + 1) + 1 ELSE 0
        /\ \A i \in 1..(a + d - (a + c + 1) + 1) : r[i] = Names[a + c + 1 + i - 1]
    BY <1>2, <1>7, <2>1, <2>4, SubSeqProperties
  <2>3. /\ a + d - (a + c + 1) + 1 = d - c /\ (a + c + 1 <= a + d \/ d - c = 0)
        /\ \A i \in 1..(d - c) : a + c + 1 + i - 1 = a + c + i
    BY ONLY <1>0
  <2> QED BY <2>2, <2>3
<1>9. \A i \in 1..(d - c) : q[i] = r[i]
  <2> SUFFICES ASSUME NEW i \in 1..(d - c) PROVE q[i] = r[i]
    OBVIOUS
  <2>1. c + i \in 1..(b - a) /\ a + (c + i) = a + c + i
    BY <1>0
  <2> QED BY <1>4, <1>6, <1>8, <2>1
<1> QED BY <1>3, <1>5, <1>6, <1>7, <1>8, <1>9, SeqEqual

\* What the file says stays as it is.
LEMMA SameFile ==
  ASSUME InventoryInv, UNCHANGED <<runFile, lines, tail, manifest>>, alone \subseteq alone'
  PROVE  /\ FileOK(lines)' /\ TailOK(lines, tail)' /\ ManifestOK'
         /\ runFile' \in Pins \cup {NoDirectory, NoRunFile}
         /\ runFile' \notin Pins => lines' = <<>> /\ tail' = <<>>
<1>1. PICK l, t : l = lines /\ t = tail
  OBVIOUS
<1>2. FileOK(l) /\ TailOK(l, t)
  BY <1>1 DEF InventoryInv
<1>3. FileOK(l)' /\ TailOK(l, t)'
  BY <1>2, GivenUpStays DEF TailOK
<1>4. ManifestOK'
  BY DEF InventoryInv, ManifestOK, Solid, SelectedRows
<1> QED BY <1>1, <1>3, <1>4 DEF InventoryInv

\* A new directory has no record yet.
LEMMA InventoryCreate == ASSUME InventoryInv, Create PROVE InventoryInv'
<1>1. FileOK(<<>>)' /\ lines' = <<>> /\ tail' = <<>>
  BY NoRecords, InventoryAssumption DEF InventoryInv, Create
<1>2. ManifestOK'
  BY <1>1 DEF InventoryInv, Create, ManifestOK, Solid, SelectedRows
<1> QED BY <1>1, <1>2 DEF InventoryInv, Create, TailOK, RunsOn

\* The run is recorded before any name, and every name is left.
LEMMA InventoryWriteRun == ASSUME InventoryInv, WriteRun PROVE InventoryInv'
<1>1. FileOK(<<>>)' /\ lines' = <<>> /\ tail' = <<>>
  BY NoRecords, InventoryAssumption DEF InventoryInv, WriteRun, RunsOn
<1>2. ManifestOK'
  BY <1>1 DEF InventoryInv, WriteRun, ManifestOK, Solid, SelectedRows
<1>3. left' = SubSeq(Names, Len(lines') + 1, Len(Names))
  <2>1. Len(lines') + 1 = 1
    BY <1>1
  <2>2. Names = SubSeq(Names, 1, Len(Names))
    BY InventoryAssumption
  <2> QED BY <2>1, <2>2 DEF WriteRun
<1> QED BY <1>1, <1>2, <1>3 DEF InventoryInv, WriteRun, TailOK, RunsOn

\* A checkout that moves on does not touch the file.
LEMMA InventoryRepin == ASSUME InventoryInv, Repin PROVE InventoryInv'
<1>1. pin' \in Pins
  BY DEF Repin
<1> QED BY <1>1, SameFile DEF InventoryInv, Repin, RunsOn

\* What a run goes on with: the records that can be read.
LEMMA RecoveredIs ==
  ASSUME InventoryInv
  PROVE  Recovered.lines = Solid /\ Recovered.tail = <<>> /\ FileOK(Solid)
<1>1. CASE tail = Torn
  BY <1>1 DEF InventoryInv, Recovered, Solid
<1>2. CASE tail = <<>>
  <2>1. lines \in Seq(Records) /\ <<>> \in Seq(Records) /\ tail # Torn
    BY <1>2, RecordsReadable DEF InventoryInv, FileOK
  <2>2. lines \o <<>> = lines
    BY <2>1
  <2> QED BY <1>2, <2>1, <2>2 DEF InventoryInv, Recovered, Solid
<1>3. CASE tail # Torn /\ tail # <<>>
  BY <1>3 DEF InventoryInv, Recovered, Solid, TailOK
<1> QED BY <1>1, <1>2, <1>3

\* A resumed run goes on behind the records that it can read.
LEMMA InventoryResume == ASSUME InventoryInv, ResumeRun PROVE InventoryInv'
<1>1. PICK z : z = Solid
  OBVIOUS
<1>2. lines' = z /\ tail' = <<>> /\ FileOK(z) /\ Recovered.lines = z
  BY <1>1, RecoveredIs DEF ResumeRun
<1>3. Len(z) \in 0..Len(Names) /\ DOMAIN z = 1..Len(z) /\ z \in Seq(Records)
  BY <1>2, InventoryAssumption, LenProperties DEF FileOK
<1>4. {z[i].name : i \in DOMAIN z} = {Names[i] : i \in 1..Len(z)}
  BY <1>2, <1>3 DEF FileOK
<1>5. left' = SubSeq(Names, Len(z) + 1, Len(Names))
  <2>1. PICK recorded : recorded = {z[i].name : i \in DOMAIN z}
    OBVIOUS
  <2>2. PICK m \in 0..Len(Names) : m = Len(z)
    BY <1>3
  <2>3. left' = Unrecorded(recorded)
    BY <1>2, <2>1 DEF ResumeRun
  <2>4. recorded = {Names[i] : i \in 1..m}
    BY <1>4, <2>1, <2>2
  <2> QED BY <2>2, <2>3, <2>4, UnrecordedIs
<1>6. FileOK(z)' /\ TailOK(z, <<>>)'
  BY <1>2, GivenUpStays DEF ResumeRun, TailOK
<1>7. Solid' = z
  <2>1. z \o <<>> = z /\ Torn # <<>>
    BY <1>3, RecordsReadable
  <2> QED BY <1>2, <2>1 DEF Solid
<1>8. ManifestOK'
  BY <1>1, <1>7 DEF InventoryInv, ManifestOK, ResumeRun, SelectedRows
<1>9. runFile \in Pins
  BY DEF InventoryInv, ResumeRun, SameIdentity
<1> QED BY <1>2, <1>5, <1>6, <1>8, <1>9 DEF InventoryInv, ResumeRun, SameIdentity, RunsOn

\* The next batch is the first piece of what is left.
LEMMA InventoryStart == ASSUME InventoryInv, StartBatch PROVE InventoryInv'
<1>1. PICK a, n, k : a = Len(lines) /\ n = Len(Names) /\ k = (IF Len(left) < BatchSize THEN Len(left) ELSE BatchSize)
  OBVIOUS
<1>2. a \in Nat /\ n \in Nat /\ a <= n /\ left = SubSeq(Names, a + 1, n) /\ BatchSize \in Nat \ {0}
  BY <1>1, InventoryAssumption, LenProperties DEF InventoryInv, FileOK, RunsOn, StartBatch
<1>3. Len(left) = n - a
  <2>1. PICK S : S = NameSet
    OBVIOUS
  <2>2. Names \in Seq(S) /\ \A i \in (a + 1)..n : Names[i] \in S
    BY <1>1, <1>2, <2>1, InventoryAssumption, ElementOfSeq DEF NameSet
  <2>3. Len(left) = IF a + 1 <= n THEN n - (a + 1) + 1 ELSE 0
    BY <1>2, <2>2, SubSeqProperties
  <2> QED BY <1>2, <2>3
<1>4. left # <<>> /\ n - a # 0
  <2>1. left # <<>> /\ \E S : left \in Seq(S)
    <3>1. PICK S : S = NameSet
      OBVIOUS
    <3>2. Names \in Seq(S) /\ \A i \in (a + 1)..n : Names[i] \in S
      BY <1>1, <1>2, <3>1, InventoryAssumption, ElementOfSeq DEF NameSet
    <3>3. left \in Seq(S)
      BY <1>2, <3>2, SubSeqProperties
    <3> QED BY <3>3 DEF StartBatch
  <2> QED BY <1>3, <2>1, EmptySeq
<1>5. k \in 1..(n - a)
  BY ONLY <1>1, <1>2, <1>3, <1>4
<1>6. SubSeq(left, 1, k) = SubSeq(Names, a + 1, a + k)
  <2>1. a \in 0..Len(Names) /\ n \in a..Len(Names) /\ 0 \in 0..(n - a) /\ k \in 0..(n - a)
    BY <1>1, <1>2, <1>5
  <2>2. SubSeq(SubSeq(Names, a + 1, n), 0 + 1, k) = SubSeq(Names, a + 0 + 1, a + k)
    BY <2>1, PieceOfPiece
  <2>3. 0 + 1 = 1 /\ a + 0 + 1 = a + 1
    BY <1>2
  <2> QED BY <1>2, <2>2, <2>3
<1>7. SubSeq(left, BatchSize + 1, Len(left)) = SubSeq(Names, a + k + 1, n)
  <2>1. CASE BatchSize <= n - a
    <3>1. k = BatchSize /\ a \in 0..Len(Names) /\ n \in a..Len(Names) /\ k \in 0..(n - a) /\ n - a \in k..(n - a)
      BY <1>1, <1>2, <1>3, <2>1
    <3>2. SubSeq(SubSeq(Names, a + 1, n), k + 1, n - a) = SubSeq(Names, a + k + 1, a + (n - a))
      BY <3>1, PieceOfPiece
    <3>3. a + (n - a) = n
      BY <1>2
    <3> QED BY <1>2, <1>3, <3>1, <3>2, <3>3
  <2>2. CASE ~(BatchSize <= n - a)
    <3>1. k = n - a /\ a + k = n /\ BatchSize + 1 > Len(left) /\ n + 1 > n
      BY <1>1, <1>2, <1>3, <2>2
    <3>2. SubSeq(left, BatchSize + 1, Len(left)) = <<>>
      BY <1>2, <1>3, <3>1, SubSeqEmpty
    <3>3. SubSeq(Names, n + 1, n) = <<>>
      BY <1>2, <3>1, SubSeqEmpty
    <3> QED BY <3>1, <3>2, <3>3
  <2> QED BY <2>1, <2>2
<1>8. PICK b : b = SubSeq(Names, a + 1, a + k)
  OBVIOUS
<1>9. batches' = <<b>> /\ left' = SubSeq(Names, a + k + 1, n) /\ buffer' = <<>>
  BY <1>1, <1>6, <1>7, <1>8 DEF StartBatch
<1>10. b \in Seq(NameSet)
  <2>1. PICK S : S = NameSet
    OBVIOUS
  <2>2. Names \in Seq(S) /\ \A i \in (a + 1)..(a + k) : Names[i] \in S
    <3>1. \A i \in (a + 1)..(a + k) : i \in 1..Len(Names)
      BY <1>1, <1>2, <1>5
    <3> QED BY <2>1, <3>1, InventoryAssumption, ElementOfSeq DEF NameSet
  <2>3. a + 1 \in Int /\ a + k \in Int
    BY <1>2, <1>5
  <2> QED BY <1>8, <2>1, <2>2, <2>3, SubSeqProperties
<1>11. PiecesOK(a, <<b>>, SubSeq(Names, a + k + 1, n))
  <2> DEFINE cut == [i \in 1..2 |-> IF i = 1 THEN a ELSE a + k]
  <2>1. Len(<<b>>) = 1 /\ <<b>>[1] = b /\ 1 + 1 = 2
    OBVIOUS
  <2>2. cut[1] = a /\ cut[2] = a + k /\ a < a + k /\ cut \in [1..2 -> 0..n]
    BY <1>2, <1>5
  <2> HIDE DEF cut
  <2>3. \A i \in 1..1 : cut[i] < cut[i + 1] /\ <<b>>[i] = SubSeq(Names, cut[i] + 1, cut[i + 1])
    BY <1>8, <2>1, <2>2
  <2>4. cut \in [1..(Len(<<b>>) + 1) -> 0..Len(Names)] /\ cut[Len(<<b>>) + 1] = a + k
    BY <1>1, <2>1, <2>2
  <2> QED BY <1>1, <2>1, <2>2, <2>3, <2>4 DEF PiecesOK
<1>12. PICK l, q : l = lines /\ q = batches'
  OBVIOUS
<1>13. FileOK(l) /\ FileOK(l)' /\ l \o <<>> = l /\ <<>> \in Seq(Records)
  <2>1. FileOK(l) /\ l \in Seq(Records)
    BY <1>12 DEF InventoryInv, FileOK
  <2>2. l \o <<>> = l /\ <<>> \in Seq(Records)
    BY <2>1
  <2> QED BY <2>1, <2>2, GivenUpStays DEF StartBatch
<1>14. batches' \in Seq(Seq(NameSet))
  BY <1>9, <1>10
<1>15. Len(lines') + Len(buffer') = a /\ lines' = l
  BY <1>1, <1>2, <1>9, <1>12 DEF StartBatch
<1>16. PiecesOK(a, batches', left')
  BY <1>9, <1>11
<1>17. RunsOn'
  BY <1>9, <1>13, <1>14, <1>15, <1>16 DEF InventoryInv, RunsOn, StartBatch, PiecesOK
<1> QED BY <1>17, SameFile DEF InventoryInv, StartBatch

\* The first piece is what comes next, and is not empty.
LEMMA NextPiece ==
  ASSUME InventoryInv, pc = "evaluate", batches # <<>>
  PROVE  \E a, b \in 0..Len(Names), q \in [1..(Len(batches) + 1) -> 0..Len(Names)] :
           /\ a = Len(lines) + Len(buffer) /\ a < b /\ Head(batches) = SubSeq(Names, a + 1, b)
           /\ Len(Head(batches)) = b - a /\ \A i \in 1..(b - a) : Head(batches)[i] = Names[a + i]
           /\ q[1] = a /\ q[2] = b /\ left = SubSeq(Names, q[Len(batches) + 1] + 1, Len(Names))
           /\ \A i \in 1..Len(batches) : q[i] < q[i + 1] /\ batches[i] = SubSeq(Names, q[i] + 1, q[i + 1])
           /\ Len(batches) \in Nat \ {0}
<1>1. /\ batches \in Seq(Seq(NameSet)) /\ PiecesOK(Len(lines) + Len(buffer), batches, left)
  BY DEF InventoryInv, RunsOn
<1>2. PICK q \in [1..(Len(batches) + 1) -> 0..Len(Names)] :
         /\ q[1] = Len(lines) + Len(buffer) /\ left = SubSeq(Names, q[Len(batches) + 1] + 1, Len(Names))
         /\ \A i \in 1..Len(batches) : q[i] < q[i + 1] /\ batches[i] = SubSeq(Names, q[i] + 1, q[i + 1])
  BY <1>1 DEF PiecesOK
<1>3. Len(batches) \in Nat \ {0}
  BY <1>1, EmptySeq, LenProperties
<1>4. 1 \in 1..Len(batches) /\ 1 \in 1..(Len(batches) + 1) /\ 2 \in 1..(Len(batches) + 1) /\ 1 + 1 = 2
  BY <1>3
<1>5. PICK a, b \in 0..Len(Names) : a = q[1] /\ b = q[2]
  BY <1>4
<1>6. Head(batches) = batches[1]
  BY <1>1
<1>7. a < b /\ Head(batches) = SubSeq(Names, a + 1, b)
  BY <1>2, <1>4, <1>5, <1>6
<1>8. PICK h : h = SubSeq(Names, a + 1, b)
  OBVIOUS
<1>9. Len(h) = b - a /\ \A i \in 1..(b - a) : h[i] = Names[a + i]
  <2>1. PICK S : S = NameSet
    OBVIOUS
  <2>2. Names \in Seq(S) /\ Len(Names) \in Nat /\ \A i \in 1..Len(Names) : Names[i] \in S
    BY <2>1, InventoryAssumption, ElementOfSeq DEF NameSet
  <2>3. a + 1 \in Int /\ b \in Int /\ (\A i \in (a + 1)..b : i \in 1..Len(Names))
    BY <2>2
  <2>4. \A i \in (a + 1)..b : Names[i] \in S
    BY <2>2, <2>3
  <2>5. /\ Len(h) = IF a + 1 <= b THEN b - (a + 1) + 1 ELSE 0
        /\ \A i \in 1..(b - (a + 1) + 1) : h[i] = Names[a + 1 + i - 1]
    BY <1>8, <2>2, <2>3, <2>4, SubSeqProperties
  <2>6. a \in Nat /\ b \in Nat
    BY <2>2
  <2>7. b - (a + 1) + 1 = b - a /\ a + 1 <= b /\ \A i \in 1..(b - a) : a + 1 + i - 1 = a + i
    BY ONLY <1>7, <2>6
  <2> QED BY <2>5, <2>7
<1>10. /\ a = Len(lines) + Len(buffer) /\ a < b /\ Head(batches) = SubSeq(Names, a + 1, b)
       /\ Len(Head(batches)) = b - a /\ \A i \in 1..(b - a) : Head(batches)[i] = Names[a + i]
       /\ q[1] = a /\ q[2] = b /\ left = SubSeq(Names, q[Len(batches) + 1] + 1, Len(Names))
       /\ \A i \in 1..Len(batches) : q[i] < q[i + 1] /\ batches[i] = SubSeq(Names, q[i] + 1, q[i + 1])
       /\ Len(batches) \in Nat \ {0}
  BY <1>2, <1>3, <1>5, <1>7, <1>8, <1>9
<1> QED BY ONLY <1>2, <1>5, <1>10, Zenon

\* Records are added to those in hand.
LEMMA MoreRecords ==
  ASSUME NEW ls \in Seq(Records), NEW bs \in Seq(Records), NEW rs \in Seq(Records),
         FileOK(ls \o bs), Len(ls) + Len(bs) + Len(rs) <= Len(Names), alone \subseteq alone', runFile' = runFile,
         \A i \in 1..Len(rs) :
           /\ rs[i].name = Names[Len(ls) + Len(bs) + i] /\ rs[i].pin = runFile
           /\ rs[i].ok \/ rs[i].name \in alone'
  PROVE  /\ FileOK(ls \o (bs \o rs))' /\ bs \o rs \in Seq(Records)
         /\ Len(bs \o rs) = Len(bs) + Len(rs)
<1>1. Len(ls) \in Nat /\ Len(bs) \in Nat /\ Len(rs) \in Nat /\ Len(Names) \in Nat
  BY InventoryAssumption, LenProperties
<1>2. PICK old, c : old = ls \o bs /\ c = bs \o rs
  OBVIOUS
<1>3. /\ old \in Seq(Records) /\ Len(old) = Len(ls) + Len(bs)
      /\ \A i \in 1..(Len(ls) + Len(bs)) : old[i] = IF i <= Len(ls) THEN ls[i] ELSE bs[i - Len(ls)]
  BY <1>2, ConcatProperties
<1>4. /\ c \in Seq(Records) /\ Len(c) = Len(bs) + Len(rs)
      /\ \A i \in 1..(Len(bs) + Len(rs)) : c[i] = IF i <= Len(bs) THEN bs[i] ELSE rs[i - Len(bs)]
  BY <1>2, ConcatProperties
<1>5. PICK z : z = ls \o c
  OBVIOUS
<1>6. /\ z \in Seq(Records) /\ Len(z) = Len(ls) + Len(c)
      /\ \A i \in 1..(Len(ls) + Len(c)) : z[i] = IF i <= Len(ls) THEN ls[i] ELSE c[i - Len(ls)]
  <2>1. c \in Seq(Records)
    BY <1>4
  <2> QED BY ONLY ls \in Seq(Records), <1>5, <2>1, ConcatProperties
<1>7. Len(z) = Len(ls) + Len(bs) + Len(rs)
  BY <1>1, <1>4, <1>6
<1>8. FileOK(old) /\ FileOK(old)'
  BY <1>2, GivenUpStays
<1>9. ASSUME NEW i \in 1..Len(z)
      PROVE  z[i].name = Names[i] /\ z[i].pin = runFile' /\ (z[i].ok \/ z[i].name \in alone')
  <2>0. i \in Nat /\ i \in 1..(Len(ls) + Len(bs) + Len(rs)) /\ i \in 1..(Len(ls) + Len(c))
    BY <1>1, <1>4, <1>7
  <2>1. CASE i <= Len(ls) + Len(bs)
    <3>1. i \in 1..(Len(ls) + Len(bs)) /\ i \in 1..Len(old)
      BY <1>1, <1>3, <2>0, <2>1
    <3>2. z[i] = old[i]
      <4>1. CASE i <= Len(ls)
        BY <1>3, <1>6, <2>0, <3>1, <4>1
      <4>2. CASE ~(i <= Len(ls))
        <5>1. i - Len(ls) \in 1..(Len(bs) + Len(rs)) /\ i - Len(ls) <= Len(bs)
          BY <1>1, <2>0, <2>1, <4>2
        <5> QED BY <1>3, <1>4, <1>6, <2>0, <3>1, <4>2, <5>1
      <4> QED BY <4>1, <4>2
    <3>3. PICK r : r = old[i] /\ r = z[i]
      BY <3>2
    <3>4. r.name = Names[i] /\ r.pin = runFile' /\ (r.ok \/ r.name \in alone')
      BY <1>8, <3>1, <3>3 DEF FileOK
    <3> QED BY <3>3, <3>4
  <2>2. CASE ~(i <= Len(ls) + Len(bs))
    <3>1. PICK j : j = i - (Len(ls) + Len(bs))
      OBVIOUS
    <3>2. /\ j \in 1..Len(rs) /\ i - Len(ls) \in 1..(Len(bs) + Len(rs)) /\ ~(i - Len(ls) <= Len(bs)) /\ ~(i <= Len(ls))
          /\ i - Len(ls) - Len(bs) = j /\ Len(ls) + Len(bs) + j = i
      BY ONLY <1>1, <2>0, <2>2, <3>1
    <3>3. z[i] = rs[j]
      BY <1>4, <1>6, <2>0, <3>2
    <3>4. PICK r : r = rs[j] /\ r = z[i]
      BY <3>3
    <3>5. r.name = Names[Len(ls) + Len(bs) + j] /\ r.pin = runFile /\ (r.ok \/ r.name \in alone')
      BY <3>2, <3>4
    <3> QED BY <3>2, <3>4, <3>5
  <2> QED BY <2>1, <2>2
<1>10. FileOK(z)'
  BY <1>6, <1>7, <1>9 DEF FileOK, Records
<1> QED BY <1>2, <1>4, <1>5, <1>10

\* What is left when the first piece is done.
LEMMA PiecesLeft ==
  ASSUME NEW bs \in Seq(Seq(NameSet)), bs # <<>>, NEW rest, NEW q \in [1..(Len(bs) + 1) -> 0..Len(Names)],
         rest = SubSeq(Names, q[Len(bs) + 1] + 1, Len(Names)),
         \A i \in 1..Len(bs) : q[i] < q[i + 1] /\ bs[i] = SubSeq(Names, q[i] + 1, q[i + 1])
  PROVE  Tail(bs) \in Seq(Seq(NameSet)) /\ PiecesOK(q[2], Tail(bs), rest)
<1>1. Len(bs) \in Nat \ {0}
  BY EmptySeq, LenProperties
<1>2. PICK t : t = Tail(bs)
  OBVIOUS
<1>3. t \in Seq(Seq(NameSet)) /\ Len(t) = Len(bs) - 1 /\ \A i \in 1..Len(t) : t[i] = bs[i + 1]
  BY <1>1, <1>2, HeadTailProperties
<1> DEFINE p == [i \in 1..Len(bs) |-> q[i + 1]]
<1>4. p \in [1..(Len(t) + 1) -> 0..Len(Names)]
  <2>1. Len(t) + 1 = Len(bs)
    BY <1>1, <1>3
  <2>2. \A i \in 1..Len(bs) : i + 1 \in 1..(Len(bs) + 1)
    BY <1>1
  <2>3. \A i \in 1..Len(bs) : q[i + 1] \in 0..Len(Names)
    BY <2>2
  <2> QED BY <2>1, <2>3
<1>5. p[1] = q[2] /\ p[Len(t) + 1] = q[Len(bs) + 1]
  BY <1>1, <1>3
<1>6. \A i \in 1..Len(t) : p[i] < p[i + 1] /\ t[i] = SubSeq(Names, p[i] + 1, p[i + 1])
  <2> SUFFICES ASSUME NEW i \in 1..Len(t) PROVE p[i] < p[i + 1] /\ t[i] = SubSeq(Names, p[i] + 1, p[i + 1])
    OBVIOUS
  <2>1. i + 1 \in 1..Len(bs) /\ i \in 1..Len(bs) /\ p[i] = q[i + 1] /\ p[i + 1] = q[i + 1 + 1]
    BY <1>1, <1>3
  <2> HIDE DEF p
  <2> QED BY <1>3, <2>1
<1> HIDE DEF p
<1>7. PiecesOK(q[2], t, rest)
  BY <1>4, <1>5, <1>6 DEF PiecesOK
<1> QED BY <1>2, <1>3, <1>7

\* What a step of the evaluation keeps.
LEMMA EvaluationGoesOn ==
  ASSUME InventoryInv, pc = "evaluate", UNCHANGED <<pin, runFile, lines, tail, pc, left, manifest>>,
         alone \subseteq alone', buffer' \in Seq(Records), FileOK(lines \o buffer)',
         batches' \in Seq(Seq(NameSet)), PiecesOK(Len(lines) + Len(buffer'), batches', left)
  PROVE  InventoryInv'
<1>1. lines' = lines /\ left' = left /\ runFile' = pin'
  BY DEF InventoryInv, RunsOn
<1>5. PiecesOK(Len(lines') + Len(buffer'), batches', left')
  BY <1>1
<1>6. RunsOn'
  BY <1>1, <1>5 DEF RunsOn, PiecesOK
<1>7. pin' \in Pins /\ pc' \in {"off", "created", "batch", "evaluate"} /\ (pc' # "off" => tail' = <<>>)
  BY DEF InventoryInv
<1> QED BY <1>6, <1>7, SameFile DEF InventoryInv

\* The records of the first piece go into the buffer.
LEMMA InventoryEvaluated == ASSUME InventoryInv, Evaluated PROVE InventoryInv'
<1>1. PICK a, b \in 0..Len(Names), q \in [1..(Len(batches) + 1) -> 0..Len(Names)] :
        /\ a = Len(lines) + Len(buffer) /\ a < b
        /\ Len(Head(batches)) = b - a /\ \A i \in 1..(b - a) : Head(batches)[i] = Names[a + i]
        /\ q[2] = b /\ left = SubSeq(Names, q[Len(batches) + 1] + 1, Len(Names))
        /\ \A i \in 1..Len(batches) : q[i] < q[i + 1] /\ batches[i] = SubSeq(Names, q[i] + 1, q[i + 1])
  BY NextPiece DEF Evaluated
<1>2. PICK h : h = Head(batches)
  OBVIOUS
<1>3. /\ lines \in Seq(Records) /\ buffer \in Seq(Records) /\ FileOK(lines \o buffer)
      /\ batches \in Seq(Seq(NameSet)) /\ batches # <<>> /\ runFile = pin /\ pin \in Pins
  BY DEF InventoryInv, FileOK, RunsOn, Evaluated
<1>4. h \in Seq(NameSet) /\ Len(h) = b - a /\ DOMAIN h = 1..(b - a)
  <2>1. h \in Seq(NameSet)
    BY <1>2, <1>3, HeadTailProperties
  <2> QED BY <1>1, <1>2, <2>1, LenProperties
<1>5. PICK rs : rs = [i \in DOMAIN h |-> Record(h[i], TRUE)]
  OBVIOUS
<1>6. rs \in Seq(Records) /\ Len(rs) = b - a
      /\ \A i \in 1..(b - a) : rs[i].name = Names[a + i] /\ rs[i].pin = runFile /\ rs[i].ok
  <2>1. \A i \in 1..(b - a) : rs[i] = [name |-> h[i], ok |-> TRUE, pin |-> pin] /\ h[i] \in NameSet /\ h[i] = Names[a + i]
    BY <1>1, <1>2, <1>4, <1>5, ElementOfSeq DEF Record
  <2>2. \A i \in 1..(b - a) : rs[i] \in Records
    <3> SUFFICES ASSUME NEW i \in 1..(b - a) PROVE rs[i] \in Records
      OBVIOUS
    <3>1. PICK n \in NameSet : n = h[i]
      BY <2>1
    <3>2. rs[i] = [name |-> n, ok |-> TRUE, pin |-> pin]
      BY <2>1, <3>1
    <3> QED BY <1>3, <3>2 DEF Records
  <2>3. b - a \in Nat
    BY <1>1, InventoryAssumption
  <2>4. rs \in [1..(b - a) -> Records]
    <3>1. rs = [i \in 1..(b - a) |-> Record(h[i], TRUE)]
      BY <1>4, <1>5
    <3>2. rs = [i \in 1..(b - a) |-> rs[i]]
      BY <3>1
    <3> QED BY <2>2, <3>2
  <2>5. rs \in Seq(Records) /\ Len(rs) = b - a
    BY <2>3, <2>4
  <2>6. \A i \in 1..(b - a) : rs[i].name = Names[a + i] /\ rs[i].pin = runFile /\ rs[i].ok
    <3> SUFFICES ASSUME NEW i \in 1..(b - a)
                 PROVE  rs[i].name = Names[a + i] /\ rs[i].pin = runFile /\ rs[i].ok
      OBVIOUS
    <3>1. PICK n : n = Names[a + i]
      OBVIOUS
    <3>2. rs[i] = [name |-> n, ok |-> TRUE, pin |-> pin]
      BY <2>1, <3>1
    <3> QED BY <1>3, <3>1, <3>2
  <2> QED BY <2>5, <2>6
<1>7. buffer' = buffer \o rs /\ batches' = Tail(batches) /\ UNCHANGED <<pin, runFile, lines, tail, pc, left, manifest, alone>>
  BY <1>2, <1>5 DEF Evaluated
<1>8. Len(lines) + Len(buffer) + Len(rs) = b /\ b <= Len(Names)
  BY <1>1, <1>3, <1>6, LenProperties, InventoryAssumption
<1>9. /\ FileOK(lines \o buffer)' /\ buffer' \in Seq(Records)
      /\ Len(buffer') = Len(buffer) + Len(rs)
  <2>1. PICK ls, bs : ls = lines /\ bs = buffer
    OBVIOUS
  <2>2. Len(ls) + Len(bs) + Len(rs) <= Len(Names)
    BY <1>8, <2>1
  <2>3. \A i \in 1..Len(rs) : /\ rs[i].name = Names[Len(ls) + Len(bs) + i] /\ rs[i].pin = runFile
                              /\ rs[i].ok \/ rs[i].name \in alone'
    BY <1>1, <1>6, <2>1
  <2>4. ls \in Seq(Records) /\ bs \in Seq(Records) /\ FileOK(ls \o bs) /\ alone \subseteq alone' /\ runFile' = runFile
    BY <1>3, <1>7, <2>1
  <2>5. /\ FileOK(ls \o (bs \o rs))' /\ bs \o rs \in Seq(Records) /\ Len(bs \o rs) = Len(bs) + Len(rs)
    BY <1>6, <2>2, <2>3, <2>4, MoreRecords
  <2>6. lines' = ls /\ buffer' = bs \o rs
    BY <1>7, <2>1
  <2>7. FileOK(lines \o buffer)'
    BY <2>5, <2>6
  <2> QED BY <2>1, <2>5, <2>6, <2>7
<1>10. Tail(batches) \in Seq(Seq(NameSet)) /\ PiecesOK(b, Tail(batches), left)
  BY <1>1, <1>3, PiecesLeft
<1>11. Len(lines) + Len(buffer') = b
  <2>1. Len(lines) \in Nat /\ Len(buffer) \in Nat /\ Len(rs) \in Nat
    BY <1>3, <1>6, LenProperties
  <2> QED BY <1>7, <1>8, <1>9, <2>1
<1> QED BY <1>7, <1>9, <1>10, <1>11, EvaluationGoesOn DEF Evaluated

\* A piece in two, neither of them empty.
LEMMA PieceHalved ==
  ASSUME NEW bs \in Seq(Seq(NameSet)), bs # <<>>, NEW rest, NEW q \in [1..(Len(bs) + 1) -> 0..Len(Names)],
         rest = SubSeq(Names, q[Len(bs) + 1] + 1, Len(Names)),
         \A i \in 1..Len(bs) : q[i] < q[i + 1] /\ bs[i] = SubSeq(Names, q[i] + 1, q[i + 1]),
         NEW m, q[1] < m, m < q[2], m \in 0..Len(Names),
         NEW x \in Seq(NameSet), NEW y \in Seq(NameSet),
         x = SubSeq(Names, q[1] + 1, m), y = SubSeq(Names, m + 1, q[2])
  PROVE  <<x, y>> \o Tail(bs) \in Seq(Seq(NameSet)) /\ PiecesOK(q[1], <<x, y>> \o Tail(bs), rest)
<1>1. Len(bs) \in Nat \ {0}
  BY EmptySeq, LenProperties
<1>2. PICK t : t = Tail(bs)
  OBVIOUS
<1>3. t \in Seq(Seq(NameSet)) /\ Len(t) = Len(bs) - 1 /\ \A i \in 1..Len(t) : t[i] = bs[i + 1]
  BY <1>1, <1>2, HeadTailProperties
<1>4. PICK two : two = <<x, y>>
  OBVIOUS
<1>5. two \in Seq(Seq(NameSet)) /\ Len(two) = 2 /\ two[1] = x /\ two[2] = y
  <2>1. PICK S : S = Seq(NameSet)
    OBVIOUS
  <2>2. x \in S /\ y \in S
    BY <2>1
  <2>3. two \in Seq(S) /\ Len(two) = 2 /\ two[1] = x /\ two[2] = y
    BY ONLY <1>4, <2>2
  <2> QED BY <2>1, <2>3
<1>6. PICK z : z = two \o t
  OBVIOUS
<1>7. /\ z \in Seq(Seq(NameSet)) /\ Len(z) = Len(bs) + 1
      /\ \A i \in 1..(Len(bs) + 1) : z[i] = IF i <= 2 THEN two[i] ELSE bs[i - 1]
  <2>1. /\ z \in Seq(Seq(NameSet)) /\ Len(z) = Len(two) + Len(t)
        /\ \A i \in 1..(Len(two) + Len(t)) : z[i] = IF i <= Len(two) THEN two[i] ELSE t[i - Len(two)]
    BY <1>3, <1>5, <1>6, ConcatProperties
  <2>2. Len(two) + Len(t) = Len(bs) + 1
    BY <1>1, <1>3, <1>5
  <2>3. ASSUME NEW i \in 1..(Len(bs) + 1), ~(i <= 2) PROVE t[i - Len(two)] = bs[i - 1]
    <3>1. i - 2 \in 1..Len(t) /\ i - 2 + 1 = i - 1
      BY <1>1, <1>3, <2>3
    <3> QED BY <1>3, <1>5, <3>1
  <2> QED BY <1>5, <2>1, <2>2, <2>3
<1> DEFINE p == [i \in 1..(Len(bs) + 2) |-> IF i = 1 THEN q[1] ELSE IF i = 2 THEN m ELSE q[i - 1]]
<1>8. p \in [1..(Len(z) + 1) -> 0..Len(Names)]
  <2>1. \A i \in 1..(Len(bs) + 2) : p[i] \in 0..Len(Names)
    <3> SUFFICES ASSUME NEW i \in 1..(Len(bs) + 2) PROVE p[i] \in 0..Len(Names)
      OBVIOUS
    <3>1. 1 \in 1..(Len(bs) + 1) /\ (i # 1 /\ i # 2 => i - 1 \in 1..(Len(bs) + 1))
      BY <1>1
    <3> QED BY <3>1
  <2>2. Len(z) + 1 = Len(bs) + 2
    BY <1>1, <1>7
  <2> QED BY <2>1, <2>2
<1>9. p[1] = q[1] /\ p[2] = m /\ \A i \in 3..(Len(bs) + 2) : p[i] = q[i - 1]
  BY <1>1
<1> HIDE DEF p
<1>10. p[Len(z) + 1] = q[Len(bs) + 1]
  <2>1. Len(z) + 1 \in 3..(Len(bs) + 2) /\ Len(z) + 1 - 1 = Len(bs) + 1
    BY <1>1, <1>7
  <2> QED BY <1>9, <2>1
<1>11. \A i \in 1..Len(z) : p[i] < p[i + 1] /\ z[i] = SubSeq(Names, p[i] + 1, p[i + 1])
  <2> SUFFICES ASSUME NEW i \in 1..Len(z) PROVE p[i] < p[i + 1] /\ z[i] = SubSeq(Names, p[i] + 1, p[i + 1])
    OBVIOUS
  <2>0. i \in 1..(Len(bs) + 1) /\ i \in Nat /\ 1 \in 1..(Len(bs) + 1) /\ 2 \in 1..(Len(bs) + 1)
    BY <1>1, <1>7
  <2>1. CASE i = 1
    <3>1. z[1] = x
      <4>1. z[1] = IF 1 <= 2 THEN two[1] ELSE bs[1 - 1]
        BY ONLY <1>7, <2>0
      <4> QED BY ONLY <1>5, <4>1
    <3>2. i + 1 = 2
      BY <2>1
    <3> QED BY <1>9, <2>1, <3>1, <3>2
  <2>2. CASE i = 2
    <3>1. p[3] = q[2]
      <4>1. 3 \in 3..(Len(bs) + 2) /\ 3 - 1 = 2
        BY <1>1
      <4> QED BY <1>9, <4>1
    <3>2. z[2] = y
      <4>1. z[2] = IF 2 <= 2 THEN two[2] ELSE bs[2 - 1]
        BY ONLY <1>7, <2>0
      <4> QED BY ONLY <1>5, <4>1
    <3>3. i + 1 = 3
      BY <2>2
    <3> QED BY <1>9, <2>2, <3>1, <3>2, <3>3
  <2>3. CASE i > 2
    <3>1. PICK j : j = i - 1
      OBVIOUS
    <3>2. j \in 1..Len(bs) /\ i \in 3..(Len(bs) + 2) /\ i + 1 \in 3..(Len(bs) + 2) /\ i + 1 - 1 = j + 1 /\ ~(i <= 2)
      <4>1. PICK n \in Nat : n = Len(bs)
        BY <1>1
      <4>2. i \in Nat /\ i <= n + 1 /\ i > 2
        BY <2>0, <2>3, <4>1
      <4>3. j \in 1..n /\ i \in 3..(n + 2) /\ i + 1 \in 3..(n + 2) /\ i + 1 - 1 = j + 1 /\ ~(i <= 2)
        BY ONLY <3>1, <4>1, <4>2
      <4> QED BY <4>1, <4>3
    <3>3. p[i] = q[j] /\ p[i + 1] = q[j + 1]
      <4>1. \A k \in 3..(Len(bs) + 2) : p[k] = q[k - 1]
        BY ONLY <1>9
      <4>2. PICK k : k = i + 1
        OBVIOUS
      <4>3. i \in 3..(Len(bs) + 2) /\ k \in 3..(Len(bs) + 2) /\ i - 1 = j /\ k - 1 = j + 1
        BY ONLY <2>0, <3>1, <3>2, <4>2
      <4>4. p[i] = q[i - 1] /\ p[k] = q[k - 1]
        BY ONLY <4>1, <4>3
      <4> QED BY ONLY <4>2, <4>3, <4>4
    <3>4. z[i] = bs[j]
      BY <1>7, <2>0, <3>1, <3>2
    <3>5. q[j] < q[j + 1] /\ bs[j] = SubSeq(Names, q[j] + 1, q[j + 1])
      BY <3>2
    <3> QED BY <3>3, <3>4, <3>5
  <2>4. i = 1 \/ i = 2 \/ i > 2
    <3>1. i \in Nat \ {0}
      BY <1>1, <2>0
    <3> QED BY ONLY <3>1
  <2> QED BY ONLY <2>1, <2>2, <2>3, <2>4
<1>12. PiecesOK(q[1], z, rest)
  BY <1>8, <1>9, <1>10, <1>11 DEF PiecesOK
<1> QED BY <1>2, <1>4, <1>6, <1>7, <1>12

\* A piece that fails is halved; a single name is given up, having failed alone.
LEMMA InventoryFails == ASSUME InventoryInv, EvaluationFails PROVE InventoryInv'
<1>1. PICK a, b \in 0..Len(Names), q \in [1..(Len(batches) + 1) -> 0..Len(Names)] :
        /\ a = Len(lines) + Len(buffer) /\ a < b /\ Head(batches) = SubSeq(Names, a + 1, b)
        /\ Len(Head(batches)) = b - a /\ \A i \in 1..(b - a) : Head(batches)[i] = Names[a + i]
        /\ q[1] = a /\ q[2] = b /\ left = SubSeq(Names, q[Len(batches) + 1] + 1, Len(Names))
        /\ \A i \in 1..Len(batches) : q[i] < q[i + 1] /\ batches[i] = SubSeq(Names, q[i] + 1, q[i + 1])
  BY NextPiece DEF EvaluationFails
<1>2. PICK h : h = Head(batches)
  OBVIOUS
<1>3. /\ lines \in Seq(Records) /\ buffer \in Seq(Records) /\ FileOK(lines \o buffer)
      /\ batches \in Seq(Seq(NameSet)) /\ batches # <<>> /\ runFile = pin /\ pin \in Pins
  BY DEF InventoryInv, FileOK, RunsOn, EvaluationFails
<1>4. h \in Seq(NameSet) /\ Len(h) = b - a /\ DOMAIN h = 1..(b - a)
      /\ Len(Names) \in Nat /\ a \in Nat /\ b \in Nat /\ Len(lines) \in Nat /\ Len(buffer) \in Nat
  <2>1. h \in Seq(NameSet)
    BY <1>2, <1>3, HeadTailProperties
  <2> QED BY <1>1, <1>2, <1>3, <2>1, LenProperties, InventoryAssumption, SMTT(30)
<1>5. UNCHANGED <<pin, runFile, lines, tail, pc, left, manifest>> /\ pc = "evaluate"
  BY DEF EvaluationFails
<1>6. CASE Len(h) = 1
  <2>1. PICK r : r = Record(h[1], FALSE)
    OBVIOUS
  <2>2. buffer' = Append(buffer, r) /\ batches' = Tail(batches) /\ alone' = alone \cup ToSet(h)
    BY <1>2, <1>6, <2>1 DEF EvaluationFails, Split
  <2>3. h[1] \in NameSet /\ h[1] \in ToSet(h) /\ h[1] = Names[a + 1] /\ b - a = 1
    <3>0. b - a = 1
      BY <1>4, <1>6
    <3>1. b - a = 1 /\ 1 \in DOMAIN h /\ 1 \in 1..(b - a)
      BY ONLY <1>4, <3>0
    <3>2. h[1] \in NameSet /\ h[1] \in ToSet(h)
      BY <1>4, <3>1, ElementOfSeq DEF ToSet
    <3>3. h[1] = Names[a + 1]
      BY <1>1, <1>2, <3>1
    <3> QED BY <3>1, <3>2, <3>3
  <2>4. r \in Records /\ r.name = Names[a + 1] /\ r.pin = runFile /\ r.name \in alone'
    <3>1. PICK n \in NameSet : n = h[1]
      BY <2>3
    <3>2. r = [name |-> n, ok |-> FALSE, pin |-> pin]
      BY <2>1, <3>1 DEF Record
    <3> QED BY <1>3, <2>2, <2>3, <3>1, <3>2 DEF Records
  <2>5. PICK ls, bs, rs : ls = lines /\ bs = buffer /\ rs = <<r>>
    OBVIOUS
  <2>6. rs \in Seq(Records) /\ Len(rs) = 1 /\ rs[1] = r
    BY <2>4, <2>5
  <2>7. Append(bs, r) = bs \o rs
    BY <1>3, <2>4, <2>5, AppendIsConcat
  <2>8. Len(ls) + Len(bs) + Len(rs) <= Len(Names)
    BY <1>1, <1>4, <2>3, <2>5, <2>6
  <2>9. \A i \in 1..Len(rs) : /\ rs[i].name = Names[Len(ls) + Len(bs) + i] /\ rs[i].pin = runFile
                              /\ rs[i].ok \/ rs[i].name \in alone'
    BY <1>1, <2>4, <2>5, <2>6
  <2>10. ls \in Seq(Records) /\ bs \in Seq(Records) /\ FileOK(ls \o bs) /\ alone \subseteq alone' /\ runFile' = runFile
    BY <1>3, <1>5, <2>2, <2>5
  <2>11. /\ FileOK(ls \o (bs \o rs))' /\ bs \o rs \in Seq(Records) /\ Len(bs \o rs) = Len(bs) + Len(rs)
    BY <2>6, <2>8, <2>9, <2>10, MoreRecords
  <2>12. lines' = ls /\ buffer' = bs \o rs
    BY <1>5, <2>2, <2>5, <2>7
  <2>13. FileOK(lines \o buffer)' /\ buffer' \in Seq(Records) /\ Len(lines) + Len(buffer') = b
    <3>1. Len(buffer') = Len(buffer) + 1
      BY <2>5, <2>6, <2>11, <2>12
    <3>2. Len(lines) + (Len(buffer) + 1) = b
      BY ONLY <1>1, <1>4, <2>3
    <3> QED BY <2>11, <2>12, <3>1, <3>2
  <2>14. Tail(batches) \in Seq(Seq(NameSet)) /\ PiecesOK(b, Tail(batches), left)
    BY <1>1, <1>3, PiecesLeft
  <2> QED BY <1>5, <2>2, <2>10, <2>13, <2>14, EvaluationGoesOn
<1>7. CASE Len(h) # 1
  <2>1. PICK m : m = Len(h) \div 2
    OBVIOUS
  <2>2. m \in Nat /\ 0 < m /\ m < b - a
    <3>1. PICK n : n = b - a
      OBVIOUS
    <3>2. n \in Nat /\ n > 0 /\ n # 1 /\ m = n \div 2
      BY <1>1, <1>4, <1>7, <2>1, <3>1, SMTT(30)
    <3>3. m \in Nat /\ 0 < m /\ m < n
      BY ONLY <3>2
    <3> QED BY <3>1, <3>3
  <2>3. PICK x, y : x = SubSeq(h, 1, m) /\ y = SubSeq(h, m + 1, Len(h))
    OBVIOUS
  <2>4. x \in Seq(NameSet) /\ y \in Seq(NameSet)
    <3>1. \A i \in 1..m : i \in DOMAIN h
      BY <1>4, <2>2
    <3>2. \A i \in (m + 1)..Len(h) : i \in DOMAIN h
      BY <1>4, <2>2
    <3>3. (\A i \in 1..m : h[i] \in NameSet) /\ (\A i \in (m + 1)..Len(h) : h[i] \in NameSet)
      BY <1>4, <3>1, <3>2, ElementOfSeq
    <3>4. m \in Int /\ m + 1 \in Int /\ Len(h) \in Int
      BY <1>4, <2>2
    <3>5. x \in Seq(NameSet)
      BY <1>4, <2>3, <3>3, <3>4, SubSeqProperties
    <3>6. y \in Seq(NameSet)
      BY <1>4, <2>3, <3>3, <3>4, SubSeqProperties
    <3> QED BY <3>5, <3>6
  <2>5. x = SubSeq(Names, a + 1, a + m)
    <3>1. a \in 0..Len(Names) /\ b \in a..Len(Names) /\ 0 \in 0..(b - a) /\ m \in 0..(b - a)
      BY <1>1, <1>4, <2>2
    <3>2. SubSeq(SubSeq(Names, a + 1, b), 0 + 1, m) = SubSeq(Names, a + 0 + 1, a + m)
      BY <3>1, PieceOfPiece
    <3>3. 0 + 1 = 1 /\ a + 0 + 1 = a + 1
      BY <1>4
    <3> QED BY <1>1, <1>2, <2>3, <3>2, <3>3
  <2>6. y = SubSeq(Names, a + m + 1, b)
    <3>1. a \in 0..Len(Names) /\ b \in a..Len(Names) /\ m \in 0..(b - a) /\ b - a \in m..(b - a)
      BY <1>1, <1>4, <2>2
    <3>2. SubSeq(SubSeq(Names, a + 1, b), m + 1, b - a) = SubSeq(Names, a + m + 1, a + (b - a))
      BY <3>1, PieceOfPiece
    <3>3. a + (b - a) = b
      BY <1>4
    <3> QED BY <1>1, <1>2, <1>4, <2>3, <3>2, <3>3
  <2>7. /\ batches' = <<x, y>> \o Tail(batches) /\ buffer' = buffer /\ alone' = alone
    BY <1>2, <1>7, <2>1, <2>3 DEF EvaluationFails, Split, Halves
  <2>8. a < a + m /\ a + m < b /\ a + m \in 0..Len(Names)
    BY <1>4, <2>2
  <2>9. <<x, y>> \o Tail(batches) \in Seq(Seq(NameSet)) /\ PiecesOK(a, <<x, y>> \o Tail(batches), left)
    <3>1. PICK bs, n : bs = batches /\ n = a + m
      OBVIOUS
    <3>2. /\ bs \in Seq(Seq(NameSet)) /\ bs # <<>> /\ q \in [1..(Len(bs) + 1) -> 0..Len(Names)]
          /\ left = SubSeq(Names, q[Len(bs) + 1] + 1, Len(Names))
          /\ \A i \in 1..Len(bs) : q[i] < q[i + 1] /\ bs[i] = SubSeq(Names, q[i] + 1, q[i + 1])
      BY <1>1, <1>3, <3>1
    <3>3. q[1] < n /\ n < q[2] /\ n \in 0..Len(Names) /\ x = SubSeq(Names, q[1] + 1, n) /\ y = SubSeq(Names, n + 1, q[2])
      BY <1>1, <2>5, <2>6, <2>8, <3>1
    <3>4. <<x, y>> \o Tail(bs) \in Seq(Seq(NameSet)) /\ PiecesOK(q[1], <<x, y>> \o Tail(bs), left)
      BY <2>4, <3>2, <3>3, PieceHalved
    <3> QED BY <1>1, <3>1, <3>4
  <2>10. FileOK(lines \o buffer)' /\ buffer' \in Seq(Records) /\ Len(lines) + Len(buffer') = a
    <3>1. PICK z : z = lines \o buffer
      OBVIOUS
    <3>2. FileOK(z)'
      BY <1>3, <1>5, <2>7, <3>1, GivenUpStays
    <3> QED BY <1>1, <1>3, <1>5, <2>7, <3>1, <3>2
  <2> QED BY <1>5, <2>7, <2>9, <2>10, EvaluationGoesOn
<1> QED BY <1>6, <1>7

\* No tail is in the way of the records that are appended.
LEMMA InventoryFlush == ASSUME InventoryInv, Flush PROVE InventoryInv'
<1>1. PICK z : z = lines \o buffer
  OBVIOUS
<1>2. /\ lines \in Seq(Records) /\ buffer \in Seq(Records) /\ FileOK(z) /\ tail = <<>>
      /\ PiecesOK(Len(lines) + Len(buffer), batches, left) /\ batches = <<>> /\ runFile = pin /\ pin \in Pins
  BY <1>1 DEF InventoryInv, FileOK, RunsOn, Flush
<1>3. lines' = z /\ tail' = <<>> /\ pc' = "batch" /\ left' = left /\ runFile' = runFile /\ pin' = pin
  BY <1>1, <1>2 DEF Flush
<1>4. z \in Seq(Records) /\ Len(z) = Len(lines) + Len(buffer)
  BY <1>1, <1>2, ConcatProperties
<1>5. left = SubSeq(Names, Len(z) + 1, Len(Names))
  <2>1. Len(batches) = 0 /\ 0 + 1 = 1
    BY <1>2
  <2>2. PICK q : q[1] = Len(z) /\ left = SubSeq(Names, q[1] + 1, Len(Names))
    BY <1>2, <1>4, <2>1 DEF PiecesOK
  <2> QED BY <2>2
<1>6. FileOK(z)' /\ TailOK(z, <<>>)'
  BY <1>2, GivenUpStays DEF Flush, TailOK
<1>7. ManifestOK'
  <2> SUFFICES ASSUME manifest.complete PROVE ManifestOK'
    BY DEF ManifestOK, Flush
  <2>1. Torn # <<>> /\ lines \o <<>> = lines /\ z \o <<>> = z
    BY <1>2, <1>4, RecordsReadable
  <2>2. Solid = lines /\ Solid' = z
    BY <1>2, <1>3, <2>1 DEF Solid
  <2>3. Len(lines) = Len(Names)
    BY <2>2 DEF InventoryInv, ManifestOK
  <2>4. Len(buffer) = 0
    <3>1. Len(lines) \in Nat /\ Len(buffer) \in Nat /\ Len(z) <= Len(Names)
      BY <1>2, LenProperties DEF FileOK
    <3> QED BY <1>4, <2>3, <3>1
  <2>5. buffer = <<>>
    BY <1>2, <2>4, EmptySeq
  <2>6. z = lines
    BY <1>1, <2>1, <2>5
  <2> QED BY <2>2, <2>6 DEF InventoryInv, ManifestOK, Flush, SelectedRows
<1> QED BY <1>2, <1>3, <1>5, <1>6, <1>7 DEF InventoryInv, RunsOn

\* A report on the file that can be read.
LEMMA ReportOK ==
  ASSUME InventoryInv, manifest' = Report(Solid), UNCHANGED <<lines, tail>>
  PROVE  ManifestOK'
<1>1. Solid' = Solid /\ \A rows : SelectedRows(rows)' = SelectedRows(rows)
  BY DEF Solid, SelectedRows
<1>2. CASE manifest' = manifest
  BY <1>1, <1>2 DEF InventoryInv, ManifestOK
<1>3. CASE manifest' = [complete |-> Len(Solid) = Len(Names), selected |-> SelectedRows(Solid)]
  <2>1. PICK c, r : c = (Len(Solid) = Len(Names)) /\ r = SelectedRows(Solid)
    OBVIOUS
  <2>2. manifest' = [complete |-> c, selected |-> r]
    BY <1>3, <2>1
  <2>3. manifest'.complete = c /\ manifest'.selected = r
    BY <2>2
  <2>4. Len(Solid') = Len(Solid) /\ SelectedRows(Solid)' = r
    BY <1>1, <2>1
  <2> QED BY <2>1, <2>3, <2>4, Zenon DEF ManifestOK
<1> QED BY <1>2, <1>3 DEF Report

\* With no name left, the file has a record of each.
LEMMA InventoryReportAll == ASSUME InventoryInv, ReportAll PROVE InventoryInv'
<1>1. Solid = lines
  <2>1. tail = <<>> /\ lines \in Seq(Records)
    BY DEF InventoryInv, FileOK, ReportAll
  <2> QED BY <2>1, RecordsReadable DEF Solid
<1>2. ManifestOK'
  BY <1>1, ReportOK DEF ReportAll
<1>3. PICK l, t : l = lines /\ t = tail
  OBVIOUS
<1>4. FileOK(l)' /\ TailOK(l, t)'
  BY <1>3, GivenUpStays DEF InventoryInv, ReportAll, TailOK
<1>5. lines' = l /\ tail' = t
  BY <1>3 DEF ReportAll
<1> QED BY <1>2, <1>4, <1>5 DEF InventoryInv, ReportAll, RunsOn

\* A report of what is on disk, whoever is writing it.
LEMMA InventoryReportOnly == ASSUME InventoryInv, ReportOnly PROVE InventoryInv'
<1>1. Solid = lines \o tail
  BY DEF Solid, ReportOnly
<1>2. ManifestOK'
  BY <1>1, ReportOK DEF ReportOnly
<1>3. PICK l, t, b : l = lines /\ t = tail /\ b = buffer
  OBVIOUS
<1>4. FileOK(l)' /\ TailOK(l, t)' /\ (FileOK(l \o b) => FileOK(l \o b)')
  BY <1>3, GivenUpStays DEF InventoryInv, ReportOnly, TailOK
<1>5. lines' = l /\ tail' = t /\ buffer' = b
  BY <1>3 DEF ReportOnly
<1>6. RunsOn'
  BY <1>3, <1>4, <1>5 DEF InventoryInv, RunsOn, ReportOnly, PiecesOK
<1> QED BY <1>2, <1>4, <1>5, <1>6 DEF InventoryInv, ReportOnly

\* Any first records of the buffer are on disk, the last perhaps torn.
LEMMA InventoryKilled == ASSUME InventoryInv, Killed PROVE InventoryInv'
<1>1. pc' = "off" /\ UNCHANGED <<pin, runFile, manifest, alone>>
  BY DEF Killed
<1>2. CASE UNCHANGED <<lines, tail>>
  BY <1>1, <1>2, SameFile DEF InventoryInv, RunsOn
<1>3. CASE pc = "evaluate" /\ \E n \in 0..Len(buffer) :
             /\ lines' = lines \o SubSeq(buffer, 1, n)
             /\ tail' \in {<<>>} \cup (IF n < Len(buffer) THEN {Torn, <<buffer[n + 1]>>} ELSE {})
  <2>1. PICK n \in 0..Len(buffer) :
          /\ lines' = lines \o SubSeq(buffer, 1, n)
          /\ tail' \in {<<>>} \cup (IF n < Len(buffer) THEN {Torn, <<buffer[n + 1]>>} ELSE {})
    BY <1>3
  <2>2. /\ lines \in Seq(Records) /\ buffer \in Seq(Records) /\ FileOK(lines \o buffer) /\ tail = <<>>
        /\ runFile \in Pins
    BY <1>3 DEF InventoryInv, FileOK, RunsOn
  <2>3. PICK z : z = lines \o SubSeq(buffer, 1, n)
    OBVIOUS
  <2>4. FileOK(z) /\ (n < Len(buffer) => FileOK(z \o <<buffer[n + 1]>>) /\ <<buffer[n + 1]>> \in Seq(Records))
    BY <2>2, <2>3, FirstRecords
  <2>5. PICK t : t = tail'
    OBVIOUS
  <2>6. FileOK(z)' /\ TailOK(z, t)'
    <3>1. CASE t = <<>> \/ t = Torn
      BY <1>1, <2>4, <3>1, GivenUpStays DEF TailOK
    <3>2. CASE n < Len(buffer) /\ t = <<buffer[n + 1]>>
      <4>1. PICK r : r = buffer[n + 1]
        OBVIOUS
      <4>2. FileOK(z \o t) /\ t \in Seq(Records) /\ t = <<r>>
        BY <2>4, <3>2, <4>1
      <4>3. Len(t) = 1
        BY <4>2
      <4>4. FileOK(z)' /\ FileOK(z \o t)'
        BY <1>1, <2>4, <4>2, GivenUpStays
      <4> QED BY <4>2, <4>3, <4>4 DEF TailOK
    <3> QED BY <2>1, <2>5, <3>1, <3>2
  <2>7. ManifestOK'
    <3> SUFFICES ASSUME manifest.complete PROVE ManifestOK'
      BY <1>1 DEF ManifestOK
    <3>1. Torn # <<>> /\ lines \o <<>> = lines
      BY <2>2, RecordsReadable
    <3>2. Solid = lines
      BY <2>2, <3>1 DEF Solid
    <3>3. Len(lines) = Len(Names)
      BY <3>2 DEF InventoryInv, ManifestOK
    <3>4. buffer = <<>>
      <4>1. PICK y : y = lines \o buffer
        OBVIOUS
      <4>2. Len(y) = Len(lines) + Len(buffer) /\ Len(y) <= Len(Names)
        BY <2>2, <4>1, ConcatProperties DEF FileOK
      <4>3. Len(lines) \in Nat /\ Len(buffer) \in Nat
        BY <2>2, LenProperties
      <4>4. Len(buffer) = 0
        BY ONLY <3>3, <4>2, <4>3
      <4> QED BY <2>2, <4>4, EmptySeq
    <3>5. Len(buffer) = 0 /\ n = 0
      BY <3>4
    <3>6. SubSeq(buffer, 1, n) = <<>> /\ tail' = <<>>
      BY <2>1, <3>4, <3>5
    <3>7. lines' = lines
      BY <2>1, <3>1, <3>6
    <3>8. Solid' = Solid
      BY <2>2, <3>6, <3>7 DEF Solid
    <3> QED BY <1>1, <3>8 DEF InventoryInv, ManifestOK, SelectedRows
  <2>8. lines' = z /\ tail' = t /\ runFile' \in Pins
    BY <1>1, <2>1, <2>2, <2>3, <2>5
  <2> QED BY <1>1, <2>6, <2>7, <2>8 DEF InventoryInv, RunsOn
<1> QED BY <1>2, <1>3 DEF Killed

\* A new directory is no run's.
LEMMA InventoryInitInv == InventoryInit => InventoryInv
<1> SUFFICES ASSUME InventoryInit PROVE InventoryInv
  OBVIOUS
<1> QED BY NoRecords, InventoryAssumption DEF InventoryInit, InventoryInv, TailOK, RunsOn, ManifestOK, NoManifest

\* Every step keeps the invariant.
LEMMA InventoryStepInv == InventoryInv /\ [InventoryNext]_inventoryVars => InventoryInv'
<1> SUFFICES ASSUME InventoryInv, [InventoryNext]_inventoryVars PROVE InventoryInv'
  OBVIOUS
<1>1. CASE UNCHANGED inventoryVars
  <2>1. UNCHANGED <<pin, runFile, lines, tail, pc, left, batches, buffer, manifest, alone>>
    BY <1>1 DEF inventoryVars
  <2>2. PICK b : b = lines \o buffer
    OBVIOUS
  <2>3. FileOK(b) => FileOK(b)'
    BY <2>1, GivenUpStays
  <2>4. RunsOn'
    BY <2>1, <2>2, <2>3 DEF InventoryInv, RunsOn, PiecesOK
  <2> QED BY <2>1, <2>4, SameFile DEF InventoryInv
<1>2. CASE InventoryNext
  BY <1>2, InventoryCreate, InventoryWriteRun, InventoryResume, InventoryStart, InventoryEvaluated,
     InventoryFails, InventoryFlush, InventoryReportAll, InventoryReportOnly, InventoryKilled, InventoryRepin
     DEF InventoryNext
<1> QED BY <1>1, <1>2

\* What the invariant says of the file and the manifest.
LEMMA FileSoundFollows ==
  ASSUME InventoryInv PROVE FileReadable /\ CompleteMeansAll /\ ErrorsIsolated /\ AssemblyNeutral
<1>1. /\ lines \in Seq(Records) /\ Len(lines) <= Len(Names) /\ DOMAIN lines = 1..Len(lines)
      /\ Len(lines) \in Nat /\ Len(Names) \in Nat /\ DOMAIN Names = 1..Len(Names)
      /\ \A i \in 1..Len(lines) :
           lines[i].name = Names[i] /\ lines[i].pin = runFile /\ (lines[i].ok \/ lines[i].name \in alone)
  BY InventoryAssumption, LenProperties DEF InventoryInv, FileOK
<1>2. \A i \in DOMAIN Names : Place(Names[i]) = i
  BY InventoryAssumption DEF Place
<1>3. FileReadable
  <2>1. Broken \notin ToSet(lines)
    BY <1>1, RecordsReadable, ElementOfSeq DEF ToSet
  <2>2. ASSUME NEW i \in DOMAIN lines, NEW j \in DOMAIN lines, i < j
        PROVE  Place(lines[i].name) < Place(lines[j].name)
    <3>1. i \in DOMAIN Names /\ j \in DOMAIN Names
      BY <1>1
    <3>2. lines[i].name = Names[i] /\ lines[j].name = Names[j]
      BY <1>1
    <3> QED BY <1>2, <2>2, <3>1, <3>2
  <2> QED BY <2>1, <2>2 DEF FileReadable
<1>4. PICK z : z = Solid
  OBVIOUS
<1>5. /\ FileOK(z) /\ DOMAIN z = 1..Len(z) /\ z \in Seq(Records)
      /\ \A i \in DOMAIN lines : i \in DOMAIN z /\ z[i] = lines[i]
  <2>1. FileOK(z) /\ z \in Seq(Records)
    BY <1>4, RecoveredIs DEF FileOK
  <2>2. \A i \in DOMAIN lines : i \in DOMAIN z /\ z[i] = lines[i]
    <3>1. CASE tail = Torn
      BY <1>4, <3>1 DEF Solid
    <3>2. CASE tail # Torn
      <4>1. z = lines \o tail /\ tail \in Seq(Records)
        <5>1. <<>> \in Seq(Records)
          OBVIOUS
        <5> QED BY <1>4, <3>2, <5>1 DEF Solid, InventoryInv, TailOK
      <4>2. /\ Len(z) = Len(lines) + Len(tail) /\ Len(tail) \in Nat
            /\ \A i \in 1..(Len(lines) + Len(tail)) : z[i] = IF i <= Len(lines) THEN lines[i] ELSE tail[i - Len(lines)]
        BY <1>1, <4>1, ConcatProperties, LenProperties
      <4>3. \A i \in DOMAIN lines : i \in 1..(Len(lines) + Len(tail)) /\ i <= Len(lines)
        BY <1>1, <4>2
      <4>4. DOMAIN z = 1..(Len(lines) + Len(tail))
        BY <2>1, <4>2, LenProperties
      <4> QED BY <4>2, <4>3, <4>4
    <3> QED BY <3>1, <3>2
  <2> QED BY <2>1, <2>2, LenProperties
<1>6. CompleteMeansAll
  <2>1. ASSUME manifest.complete PROVE ToSet(Names) \subseteq Recorded
    <3>1. Len(z) = Len(Names) /\ \A i \in 1..Len(z) : z[i].name = Names[i]
      BY <1>4, <1>5, <2>1 DEF InventoryInv, ManifestOK, FileOK
    <3>2. PICK y : y = lines \o tail
      OBVIOUS
    <3>3. \A i \in DOMAIN z : i \in DOMAIN y /\ y[i] = z[i]
      <4>1. CASE tail = Torn
        <5>1. PICK S : S = Records \cup {Broken}
          OBVIOUS
        <5>2. z = lines /\ lines \in Seq(S) /\ tail \in Seq(S) /\ Len(tail) = 1
          <6>1. z = lines
            BY <1>4, <4>1 DEF Solid
          <6>2. \A i \in 1..Len(lines) : lines[i] \in S
            BY <1>1, <5>1, ElementOfSeq
          <6>3. lines \in Seq(S)
            BY <1>1, <6>2
          <6>4. PICK k : k = Broken
            OBVIOUS
          <6>5. tail = <<k>> /\ k \in S
            BY <4>1, <5>1, <6>4 DEF Torn
          <6> QED BY <6>1, <6>3, <6>5
        <5>3. /\ y \in Seq(S) /\ Len(y) = Len(lines) + 1
              /\ \A i \in 1..(Len(lines) + 1) : y[i] = IF i <= Len(lines) THEN lines[i] ELSE tail[i - Len(lines)]
          <6>1. /\ y \in Seq(S) /\ Len(y) = Len(lines) + Len(tail)
                /\ \A i \in 1..(Len(lines) + Len(tail)) : y[i] = IF i <= Len(lines) THEN lines[i] ELSE tail[i - Len(lines)]
            BY <3>2, <5>2, ConcatProperties
          <6> QED BY <5>2, <6>1
        <5>4. DOMAIN y = 1..(Len(lines) + 1)
          BY <5>3, LenProperties
        <5>5. \A i \in 1..Len(lines) : i \in 1..(Len(lines) + 1) /\ i <= Len(lines)
          BY <1>1
        <5> QED BY <1>1, <5>2, <5>3, <5>4, <5>5
      <4>2. CASE tail # Torn
        BY <1>4, <3>2, <4>2 DEF Solid
      <4> QED BY <4>1, <4>2
    <3>4. ASSUME NEW n \in ToSet(Names) PROVE n \in Recorded
      <4>1. PICK i \in 1..Len(Names) : n = Names[i]
        BY <1>1 DEF ToSet
      <4>2. i \in DOMAIN y /\ y[i].name = n
        BY <1>5, <3>1, <3>3, <4>1
      <4> QED BY <3>2, <4>2 DEF Recorded, ToSet
    <3> QED BY <3>4
  <2> QED BY <1>1, <2>1 DEF CompleteMeansAll
<1>7. ErrorsIsolated
  BY <1>1 DEF ErrorsIsolated
<1>8. AssemblyNeutral
  <2> SUFFICES ASSUME manifest.complete, NEW i \in DOMAIN lines, NEW j \in DOMAIN lines,
                      lines[i].ok = lines[j].ok,
                      Traits[lines[i].name] \ {"assembly"} = Traits[lines[j].name] \ {"assembly"}
               PROVE  lines[i].name \in manifest.selected <=> lines[j].name \in manifest.selected
    BY DEF AssemblyNeutral
  <2>1. manifest.selected = SelectedRows(z)
    BY <1>4 DEF InventoryInv, ManifestOK
  <2> DEFINE Chosen(r) == Decision(r.ok, Traits[r.name]) \in {"candidate", "uncertain"}
  <2>2. ASSUME NEW k \in DOMAIN lines PROVE lines[k].name \in manifest.selected <=> Chosen(lines[k])
    <3>1. k \in DOMAIN z /\ z[k] = lines[k]
      BY <1>5
    <3>2. ASSUME NEW r \in ToSet(z), r.name = lines[k].name PROVE r = z[k]
      <4>1. PICK l \in DOMAIN z : r = z[l]
        BY DEF ToSet
      <4>2. z[l].name = Names[l] /\ z[k].name = Names[k] /\ l \in DOMAIN Names /\ k \in DOMAIN Names
        <5>1. Len(z) \in Nat /\ Len(z) <= Len(Names) /\ \A n \in 1..Len(z) : z[n].name = Names[n]
          BY <1>5, LenProperties DEF FileOK
        <5>2. \A n \in DOMAIN z : n \in 1..Len(z) /\ n \in 1..Len(Names)
          BY <1>1, <1>5, <5>1
        <5> QED BY <1>1, <3>1, <5>1, <5>2
      <4>3. l = k
        BY <3>1, <3>2, <4>1, <4>2, InventoryAssumption
      <4> QED BY <4>1, <4>3
    <3>3. z[k] \in ToSet(z)
      BY <3>1 DEF ToSet
    <3> HIDE DEF ToSet
    <3> QED BY <2>1, <3>1, <3>2, <3>3, Zenon DEF SelectedRows
  <2>3. Chosen(lines[i]) <=> Chosen(lines[j])
    <3>1. PICK t, u : t = Traits[lines[i].name] /\ u = Traits[lines[j].name]
      OBVIOUS
    <3>2. \A e : e # "assembly" => (e \in t <=> e \in u)
      BY <3>1
    <3>3. Decision(lines[i].ok, t) = Decision(lines[j].ok, u)
      <4>1. Excluding(t) = Excluding(u)
        BY <3>2 DEF Excluding
      <4>2. Deferring(t) = Deferring(u)
        BY <3>2 DEF Deferring, source_evidence
      <4>3. Mixed(t) = Mixed(u)
        BY <3>2 DEF Mixed, source_evidence
      <4>4. ({"sourceless", "compilerless"} \cap t = {}) = ({"sourceless", "compilerless"} \cap u = {})
        BY <3>2
      <4> QED BY <4>1, <4>2, <4>3, <4>4 DEF Decision
    <3> QED BY <3>1, <3>3
  <2> QED BY <2>2, <2>3
<1> QED BY <1>3, <1>6, <1>7, <1>8

\* FileReadable, CompleteMeansAll, ErrorsIsolated, AssemblyNeutral: however often the
\* script is killed in the middle of a record and resumed, its file has one record
\* per attribute, in order and of one revision, only what failed alone is given up, and a
\* complete manifest has decided on everything without regard to assembly.
THEOREM InventoryStaysSound ==
  InventorySpec => [](FileReadable /\ CompleteMeansAll /\ ErrorsIsolated /\ AssemblyNeutral)
<1>1. InventorySpec => []InventoryInv
  BY InventoryInitInv, InventoryStepInv, PTL DEF InventorySpec
<1>2. InventoryInv => FileReadable /\ CompleteMeansAll /\ ErrorsIsolated /\ AssemblyNeutral
  BY FileSoundFollows
<1> QED BY <1>1, <1>2, PTL

-----------------------------------------------------------------------------
(* The relocatable prefix.                                                 *)

\* The paths in the order in which they are laid over each other.
InOrder == Merge \o Separate
EntryOf(i, at) == trees[InOrder[i]][at]
TopOf(p) == <<Home(p), "x">>
InnerOf(p) == <<Home(p), "x/y">>

\* Of the paths that have an entry for d, those that were copied when a paths have
\* been, and what is in b of them.
Passed(d, a, b) == {i \in Offers(d, Parent(d)) : i <= (IF d[2] = "x" THEN a ELSE b)}
FirstIn(is) == CHOOSE i \in is : \A j \in is : i <= j

\* The entries of d in the paths is that differ from the first, which is kept.
Differ(e, kept) ==
  \/ e.kind # kept.kind
  \/ e.kind = "file" /\ e.data # kept.data
  \/ e.kind = "link" /\ Installed(e.data) # Installed(kept.data)
Lost(d, is) ==
  {<<InOrder[FirstIn(is)], InOrder[i], d>> :
     i \in {j \in is : Differ(EntryOf(j, d[2]), EntryOf(FirstIn(is), d[2]))}}

\* What is to be copied after a paths, the entry in the last of them too or not.
Tops(a) == [k \in 1..(Len(InOrder) - a) |-> <<InOrder[a + k], "x">>]
CopyingOK(a, b) ==
  /\ a \in 0..Len(InOrder)
  /\ \/ b = a /\ copying = Tops(a)
     \/ /\ b = a - 1 /\ b \in Nat /\ copying = <<<<InOrder[a], "x/y">>>> \o Tops(a)
        /\ EntryOf(a, "x").kind = "dir" /\ Parent(InnerOf(InOrder[a])) = "dir"

Waiting == {rewriting[i] : i \in DOMAIN rewriting}

\* The entry e of p is installed at d.
Shown(d, p, e) ==
  /\ out[d] = [kind |-> e.kind, data |-> out[d].data, owner |-> p]
  /\ e.kind = "link" => out[d].data = Installed(e.data)
  /\ e.kind = "file" =>
       /\ out[d].data \in DOMAIN inodes
       /\ inodes[out[d].data] = [data |-> IF out[d].data \in Waiting THEN e.data ELSE Installed(e.data),
                                 mode |-> e.mode]

\* Each place has the first of what was copied there, if anything was.
OutOK(a, b) ==
  /\ DOMAIN out \subseteq Destinations
  /\ \A d \in Destinations :
       /\ d \in DOMAIN out <=> Passed(d, a, b) # {}
       /\ Passed(d, a, b) # {} =>
            Shown(d, InOrder[FirstIn(Passed(d, a, b))], EntryOf(FirstIn(Passed(d, a, b)), d[2]))
ConflictsOK(a, b) == conflicts = UNION {Lost(d, Passed(d, a, b)) : d \in Destinations}

\* Nothing is rewritten before everything is copied, and then once.
InodesOK ==
  /\ DOMAIN inodes \subseteq DOMAIN out
  /\ \E S : rewriting \in Seq(S)
  /\ \A i, j \in DOMAIN rewriting : rewriting[i] = rewriting[j] => i = j
  /\ Waiting \subseteq DOMAIN inodes
  /\ copying # <<>> => DOMAIN inodes \subseteq Waiting
  /\ \A key \in DOMAIN sharing :
       /\ sharing[key] \in DOMAIN inodes
       /\ copying # <<>> => inodes[sharing[key]] = [data |-> key[2], mode |-> key[1]]

Laid(a, b) == CopyingOK(a, b) /\ OutOK(a, b) /\ ConflictsOK(a, b)

PrefixInv ==
  /\ \A p \in PrefixPaths : trees[p]["x/y"].kind # "dir"
  /\ InodesOK
  /\ \E a \in 0..Len(InOrder) : Laid(a, a) \/ Laid(a, a - 1)

-----------------------------------------------------------------------------
\* The order has the paths of the closure, each with its places.
LEMMA PathsInOrder ==
  /\ Len(InOrder) \in Nat /\ DOMAIN InOrder = 1..Len(InOrder)
  /\ \A i \in 1..Len(InOrder) :
       InOrder[i] \in PrefixPaths /\ TopOf(InOrder[i]) \in Destinations /\ InnerOf(InOrder[i]) \in Destinations
<1>1. PICK S : S = PrefixPaths
  OBVIOUS
<1>2. Merge \in Seq(S) /\ Separate \in Seq(S)
  <2>1. \A i \in DOMAIN Merge : Merge[i] \in S
    BY <1>1 DEF PrefixPaths
  <2>2. \A i \in DOMAIN Separate : Separate[i] \in S
    BY <1>1 DEF PrefixPaths
  <2> QED BY <2>1, <2>2, PrefixAssumption
<1>3. PICK q : q = InOrder
  OBVIOUS
<1>4. q \in Seq(S)
  BY <1>2, <1>3, ConcatProperties DEF InOrder
<1>5. Len(q) \in Nat /\ DOMAIN q = 1..Len(q) /\ \A i \in 1..Len(q) : q[i] \in S
  BY <1>4, LenProperties, ElementOfSeq
<1> QED BY <1>1, <1>3, <1>5 DEF TopOf, InnerOf, Destinations

\* A place is a directory of the prefix and an entry.
LEMMA DestinationIs ==
  ASSUME NEW d \in Destinations
  PROVE  d = <<d[1], d[2]>> /\ d[2] \in {"x", "x/y"}
  BY DEF Destinations

\* Who has an entry for a place, and what is passed down to it.
LEMMA OffersAre ==
  ASSUME NEW d, NEW kept
  PROVE  Offers(d, kept) =
           {i \in 1..Len(InOrder) :
              /\ Home(InOrder[i]) = d[1] /\ EntryOf(i, d[2]).kind # "none"
              /\ d[2] = "x/y" => EntryOf(i, "x").kind = "dir" /\ kept = "dir"}
  BY PathsInOrder DEF Offers, InOrder, EntryOf

\* The first of some places in the order.
LEMMA FirstInIs ==
  ASSUME NEW is \in SUBSET Nat, is # {}
  PROVE  FirstIn(is) \in is /\ \A j \in is : FirstIn(is) <= j
<1>1. \E i \in is : \A j \in is : i <= j
  BY LeastNat
<1> QED BY <1>1 DEF FirstIn

\* There is only one first.
LEMMA FirstIsOnly ==
  ASSUME NEW is \in SUBSET Nat, NEW i \in is, \A j \in is : i <= j
  PROVE  FirstIn(is) = i
<1>1. FirstIn(is) \in is /\ \A j \in is : FirstIn(is) <= j
  BY FirstInIs
<1>2. FirstIn(is) <= i /\ i <= FirstIn(is) /\ FirstIn(is) \in Nat /\ i \in Nat
  BY <1>1
<1> QED BY <1>2

\* What was seen first is what is first.
LEMMA FirstSeen ==
  ASSUME NEW d, NEW a \in Nat, NEW b \in Nat, Passed(d, a, b) # {}
  PROVE  FirstIn(Passed(d, a, b)) = FirstIn(Offers(d, Parent(d)))
<1>1. PICK all, some : all = Offers(d, Parent(d)) /\ some = Passed(d, a, b)
  OBVIOUS
<1>2. PICK n \in Nat : some = {i \in all : i <= n}
  BY <1>1 DEF Passed
<1>3. all \in SUBSET Nat
  BY <1>1, OffersAre, PathsInOrder
<1>4. PICK f : f = FirstIn(some)
  OBVIOUS
<1>5. f \in some /\ \A j \in some : f <= j
  BY <1>1, <1>2, <1>3, <1>4, FirstInIs
<1>6. \A j \in all : f <= j
  <2> SUFFICES ASSUME NEW j \in all PROVE f <= j
    OBVIOUS
  <2>1. CASE j <= n
    BY <1>2, <1>5, <2>1
  <2>2. CASE ~(j <= n)
    BY <1>2, <1>3, <1>5, <2>2
  <2> QED BY <2>1, <2>2
<1>7. FirstIn(all) = f
  BY <1>2, <1>3, <1>5, <1>6, FirstIsOnly
<1> QED BY <1>1, <1>4, <1>7

\* What a place is inside of.
LEMMA ParentIs ==
  ASSUME NEW p
  PROVE  /\ Parent(TopOf(p)) = "dir"
         /\ LET all == Offers(TopOf(p), "dir")
            IN  Parent(InnerOf(p)) = IF all = {} THEN "none" ELSE EntryOf(FirstIn(all), "x").kind
<1>1. Parent(TopOf(p)) = "dir"
  BY DEF Parent, TopOf
<1>2. Parent(InnerOf(p)) = FirstProvided(TopOf(p), "dir").kind
  BY DEF Parent, InnerOf, TopOf
<1>3. FirstOffer(TopOf(p), "dir") = FirstIn(Offers(TopOf(p), "dir"))
  BY DEF FirstOffer, FirstIn
<1> QED BY <1>1, <1>2, <1>3 DEF FirstProvided, EntryOf, InOrder, TopOf

\* Nothing of this changes while the tree is made.
LEMMA TreesStay ==
  ASSUME UNCHANGED trees
  PROVE  /\ \A i, at : EntryOf(i, at)' = EntryOf(i, at)
         /\ \A d : Parent(d)' = Parent(d)
         /\ \A d, a, b : Passed(d, a, b)' = Passed(d, a, b)
         /\ \A d, is : Lost(d, is)' = Lost(d, is)
<1>1. \A i, at : EntryOf(i, at)' = EntryOf(i, at)
  BY DEF EntryOf
<1>2. \A d, kept : Offers(d, kept)' = Offers(d, kept)
  BY DEF Offers
<1>3. \A d : Parent(d)' = Parent(d)
  <2>1. \A d, kept : FirstOffer(d, kept)' = FirstOffer(d, kept)
    BY <1>2 DEF FirstOffer
  <2>2. \A d, kept : FirstProvided(d, kept)' = FirstProvided(d, kept)
    BY <1>2, <2>1 DEF FirstProvided
  <2> QED BY <2>2 DEF Parent
<1>4. \A d, a, b : Passed(d, a, b)' = Passed(d, a, b)
  BY <1>2, <1>3 DEF Passed
<1>5. \A d, is : Lost(d, is)' = Lost(d, is)
  BY <1>1 DEF Lost
<1> QED BY <1>1, <1>3, <1>4, <1>5

-----------------------------------------------------------------------------
\* From a paths and what is in b of them to a2 and b2: entry i at this level came
\* last, if there is one.
LaysOn(a, b, a2, b2, i, at) ==
  LET here == <<Home(InOrder[i]), at>>
  IN  /\ i \in 1..Len(InOrder) /\ at \in {"x", "x/y"} /\ here \in Destinations
      /\ \A j \in Passed(here, a, b) : j < i
      /\ \A d \in Destinations :
           Passed(d, a2, b2) = Passed(d, a, b) \cup (IF d = here /\ EntryOf(i, at).kind # "none" THEN {i} ELSE {})

\* The next path is entered, or there is nothing to enter.
LEMMA TopGrows ==
  ASSUME NEW a \in 0..Len(InOrder), a < Len(InOrder), NEW b2 \in Nat,
         \/ b2 = a /\ EntryOf(a + 1, "x").kind # "none"
         \/ b2 = a + 1 /\ ~(EntryOf(a + 1, "x").kind = "dir" /\ Parent(InnerOf(InOrder[a + 1])) = "dir")
  PROVE  LaysOn(a, a, a + 1, b2, a + 1, "x")
<1>1. PICK i : i = a + 1
  OBVIOUS
<1>2. i \in 1..Len(InOrder) /\ a \in Nat /\ Len(InOrder) \in Nat /\ i \in Nat
  BY <1>1, PathsInOrder
<1>3. PICK here : here = <<Home(InOrder[i]), "x">>
  OBVIOUS
<1>4. here \in Destinations
  BY <1>2, <1>3, PathsInOrder DEF TopOf
<1>5. \A j \in Passed(here, a, a) : j < i
  <2>1. \A d, kept : Offers(d, kept) \subseteq Nat
    BY OffersAre, PathsInOrder
  <2>2. here[2] = "x"
    BY <1>3
  <2> QED BY <1>1, <1>2, <2>1, <2>2 DEF Passed
<1>6. ASSUME NEW d \in Destinations
      PROVE  Passed(d, i, b2) = Passed(d, a, a) \cup (IF d = here /\ EntryOf(i, "x").kind # "none" THEN {i} ELSE {})
  <2>1. PICK all : all = Offers(d, Parent(d))
    OBVIOUS
  <2>2. all \subseteq Nat
    BY <2>1, OffersAre, PathsInOrder
  <2>3. d = <<d[1], d[2]>> /\ d[2] \in {"x", "x/y"}
    BY DestinationIs
  <2>4. CASE d[2] = "x"
    <3>1. i \in all <=> d = here /\ EntryOf(i, "x").kind # "none"
      BY <1>2, <1>3, <2>1, <2>3, <2>4, OffersAre
    <3>2. Passed(d, i, b2) = {j \in all : j <= i} /\ Passed(d, a, a) = {j \in all : j <= a}
      BY <2>1, <2>4 DEF Passed
    <3>3. \A j \in all : j <= i <=> (j <= a \/ j = i)
      BY <1>1, <1>2, <2>2
    <3> QED BY <3>1, <3>2, <3>3
  <2>5. CASE d[2] = "x/y"
    <3>1. d # here
      BY <1>3, <2>5
    <3>2. Passed(d, i, b2) = {j \in all : j <= b2} /\ Passed(d, a, a) = {j \in all : j <= a}
      BY <2>1, <2>5 DEF Passed
    <3>3. CASE b2 = a
      BY <3>1, <3>2, <3>3
    <3>4. CASE b2 = i /\ ~(EntryOf(i, "x").kind = "dir" /\ Parent(InnerOf(InOrder[i])) = "dir")
      <4>1. ASSUME i \in all PROVE FALSE
        <5>1. Home(InOrder[i]) = d[1] /\ EntryOf(i, "x").kind = "dir" /\ Parent(d) = "dir"
          BY <2>1, <2>5, <4>1, OffersAre
        <5>2. d = InnerOf(InOrder[i])
          BY <2>3, <2>5, <5>1 DEF InnerOf
        <5> QED BY <3>4, <5>1, <5>2
      <4>2. \A j \in all : j <= i <=> (j <= a \/ j = i)
        BY <1>1, <1>2, <2>2
      <4> QED BY <3>1, <3>2, <3>4, <4>1, <4>2
    <3> QED BY <1>1, <3>3, <3>4
  <2> QED BY <2>3, <2>4, <2>5
<1> QED BY <1>1, <1>2, <1>3, <1>4, <1>5, <1>6 DEF LaysOn

\* The entry in a path that was merged as a directory.
LEMMA InnerGrows ==
  ASSUME NEW a \in 1..Len(InOrder), EntryOf(a, "x").kind = "dir", Parent(InnerOf(InOrder[a])) = "dir"
  PROVE  LaysOn(a, a - 1, a, a, a, "x/y")
<1>2. a \in Nat /\ Len(InOrder) \in Nat /\ a - 1 \in Nat
  BY PathsInOrder
<1>3. PICK here : here = <<Home(InOrder[a]), "x/y">>
  OBVIOUS
<1>4. here \in Destinations /\ here = InnerOf(InOrder[a])
  BY <1>2, <1>3, PathsInOrder DEF InnerOf
<1>5. \A j \in Passed(here, a, a - 1) : j < a
  <2>1. \A d, kept : Offers(d, kept) \subseteq Nat
    BY OffersAre, PathsInOrder
  <2>2. here[2] # "x"
    BY <1>3
  <2> QED BY <1>2, <2>1, <2>2 DEF Passed
<1>6. ASSUME NEW d \in Destinations
      PROVE  Passed(d, a, a) = Passed(d, a, a - 1) \cup (IF d = here /\ EntryOf(a, "x/y").kind # "none" THEN {a} ELSE {})
  <2>1. PICK all : all = Offers(d, Parent(d))
    OBVIOUS
  <2>2. all \subseteq Nat
    BY <2>1, OffersAre, PathsInOrder
  <2>3. d = <<d[1], d[2]>> /\ d[2] \in {"x", "x/y"}
    BY DestinationIs
  <2>4. CASE d[2] = "x"
    <3>1. d # here
      BY <1>3, <2>4
    <3>2. Passed(d, a, a) = Passed(d, a, a - 1)
      BY <2>4 DEF Passed
    <3> QED BY <3>1, <3>2
  <2>5. CASE d[2] = "x/y"
    <3>1. a \in all <=> d = here /\ EntryOf(a, "x/y").kind # "none"
      <4>1. ASSUME d = here PROVE a \in all <=> EntryOf(a, "x/y").kind # "none"
        <5>1. d[1] = Home(InOrder[a]) /\ Parent(d) = "dir"
          BY <1>3, <1>4, <4>1
        <5> QED BY <2>1, <2>5, <5>1, OffersAre
      <4>2. ASSUME a \in all PROVE d = here
        BY <1>3, <2>1, <2>3, <2>5, <4>2, OffersAre
      <4> QED BY <4>1, <4>2
    <3>2. Passed(d, a, a) = {j \in all : j <= a} /\ Passed(d, a, a - 1) = {j \in all : j <= a - 1}
      BY <2>1, <2>5 DEF Passed
    <3>3. \A j \in all : j <= a <=> (j <= a - 1 \/ j = a)
      BY <1>2, <2>2
    <3> QED BY <3>1, <3>2, <3>3
  <2> QED BY <2>3, <2>4, <2>5
<1> QED BY <1>2, <1>3, <1>4, <1>5, <1>6 DEF LaysOn

-----------------------------------------------------------------------------
\* What comes next and where it is in the order.
Comes(a, b, i, at) ==
  /\ i \in 1..Len(InOrder) /\ at \in {"x", "x/y"}
  /\ Current = <<InOrder[i], at>> /\ Entering = EntryOf(i, at) /\ Dest = <<Home(InOrder[i]), at>>
  /\ Tail(copying) = Tops(i)
  /\ \/ at = "x" /\ b = a /\ i = a + 1
     \/ at = "x/y" /\ b = a - 1 /\ i = a
        /\ EntryOf(i, "x").kind = "dir" /\ Parent(InnerOf(InOrder[i])) = "dir"

\* What is to be copied after some paths begins with the next one.
LEMMA TopsAre ==
  ASSUME NEW a \in 0..Len(InOrder)
  PROVE  \E S : /\ Tops(a) \in Seq(S)
                /\ Tops(a) = <<>> <=> a = Len(InOrder)
                /\ a < Len(InOrder) => Head(Tops(a)) = <<InOrder[a + 1], "x">> /\ Tail(Tops(a)) = Tops(a + 1)
<1>1. PICK N : N = Len(InOrder)
  OBVIOUS
<1>2. N \in Nat /\ a \in Nat /\ a <= N /\ N - a \in Nat
  BY <1>1, PathsInOrder
<1>3. PICK q : q = Tops(a)
  OBVIOUS
<1>4. q = [k \in 1..(N - a) |-> <<InOrder[a + k], "x">>]
  BY <1>1, <1>3 DEF Tops
<1>5. PICK S : S = {q[k] : k \in 1..(N - a)}
  OBVIOUS
<1>6. q \in Seq(S) /\ Len(q) = N - a
  <2>1. PICK n \in Nat : n = N - a
    BY <1>2
  <2>2. q \in [1..n -> S]
    BY <1>4, <1>5, <2>1
  <2>3. q \in Seq(S)
    BY ONLY <2>2, SeqDef
  <2>4. DOMAIN q = 1..n
    BY <2>2
  <2>5. Len(q) = n
    <3>1. Len(q) \in Nat /\ DOMAIN q = 1..Len(q)
      BY <2>3, LenProperties
    <3>2. PICK m \in Nat : m = Len(q)
      BY <3>1
    <3>3. 1..m = 1..n
      BY <2>4, <3>1, <3>2
    <3>4. m = n
      <4>1. m \in 1..m \/ m = 0
        BY <3>2
      <4>2. n \in 1..n \/ n = 0
        BY <2>1
      <4> QED BY <3>3, <4>1, <4>2
    <3> QED BY <3>2, <3>4
  <2> QED BY <2>1, <2>3, <2>5
<1>7. q = <<>> <=> a = N
  BY <1>2, <1>6, EmptySeq
<1>8. ASSUME a < N PROVE Head(q) = <<InOrder[a + 1], "x">> /\ Tail(q) = Tops(a + 1)
  <2>1. 1 \in 1..(N - a) /\ a + 1 \in 0..N
    BY <1>2, <1>8
  <2>2. Head(q) = <<InOrder[a + 1], "x">>
    BY <1>4, <1>6, <1>7, <1>8, <2>1
  <2>3. PICK t, n : t = Tail(q) /\ n = N - (a + 1)
    OBVIOUS
  <2>4. t \in Seq(S) /\ Len(t) = Len(q) - 1 /\ \A k \in 1..Len(t) : t[k] = q[k + 1]
    BY <1>2, <1>6, <1>7, <1>8, <2>3, HeadTailProperties
  <2>5. Len(t) = n
    BY <1>2, <1>6, <2>3, <2>4
  <2>6. \A k \in 1..n : k + 1 \in 1..(N - a) /\ a + (k + 1) = (a + 1) + k
    BY <1>2, <2>3
  <2>7. \A k \in 1..n : t[k] = <<InOrder[(a + 1) + k], "x">>
    BY <1>4, <2>4, <2>5, <2>6
  <2>8. t = [k \in 1..n |-> <<InOrder[(a + 1) + k], "x">>]
    <3>1. t \in [1..n -> S] 
      BY <2>4, <2>5, LenProperties
    <3> QED BY <2>7, <3>1
  <2> QED BY <1>1, <2>2, <2>3, <2>8 DEF Tops
<1> QED BY <1>1, <1>3, <1>6, <1>7, <1>8

\* The next entry to copy is that of the next path, or the one in the last.
LEMMA NextComes ==
  ASSUME NEW a, NEW b, CopyingOK(a, b), copying # <<>>
  PROVE  \E i, at : Comes(a, b, i, at)
<1>1. a \in 0..Len(InOrder) /\ a \in Nat /\ Len(InOrder) \in Nat
  BY PathsInOrder DEF CopyingOK
<1>2. PICK S : /\ Tops(a) \in Seq(S)
               /\ Tops(a) = <<>> <=> a = Len(InOrder)
               /\ a < Len(InOrder) => Head(Tops(a)) = <<InOrder[a + 1], "x">> /\ Tail(Tops(a)) = Tops(a + 1)
  BY <1>1, TopsAre
<1>3. CASE b = a /\ copying = Tops(a)
  <2>1. a < Len(InOrder) /\ a + 1 \in 1..Len(InOrder)
    BY <1>1, <1>2, <1>3
  <2>2. Current = <<InOrder[a + 1], "x">> /\ Tail(copying) = Tops(a + 1)
    BY <1>2, <1>3, <2>1 DEF Current
  <2> QED BY <1>3, <2>1, <2>2 DEF Comes, Entering, EntryOf, Dest
<1>4. CASE /\ b = a - 1 /\ b \in Nat /\ copying = <<<<InOrder[a], "x/y">>>> \o Tops(a)
           /\ EntryOf(a, "x").kind = "dir" /\ Parent(InnerOf(InOrder[a])) = "dir"
  <2>1. a \in 1..Len(InOrder)
    BY <1>1, <1>4
  <2>2. Head(copying) = <<InOrder[a], "x/y">> /\ Tail(copying) = Tops(a)
    <3>1. PICK q, e : q = Tops(a) /\ e = <<InOrder[a], "x/y">>
      OBVIOUS
    <3>2. PICK T : T = S \cup {e}
      OBVIOUS
    <3>3. q \in Seq(T) /\ <<e>> \in Seq(T) /\ copying = <<e>> \o q
      BY <1>2, <1>4, <3>1, <3>2
    <3>4. Head(<<e>> \o q) = e /\ Tail(<<e>> \o q) = q
      BY ONLY <3>3
    <3> QED BY <3>1, <3>3, <3>4
  <2> QED BY <1>4, <2>1, <2>2 DEF Comes, Entering, EntryOf, Dest, Current
<1> QED BY <1>3, <1>4 DEF CopyingOK

\* How far the tree is laid after it: past the entry, or into it.
LEMMA PassGrows ==
  ASSUME NEW a, NEW b, NEW i, NEW at, CopyingOK(a, b), Comes(a, b, i, at), UNCHANGED trees, Pass,
         at = "x" => ~(EntryOf(i, "x").kind = "dir" /\ Parent(InnerOf(InOrder[i])) = "dir")
  PROVE  /\ i \in 0..Len(InOrder) /\ LaysOn(a, b, i, i, i, at) /\ CopyingOK(i, i)'
<1>1. i \in 1..Len(InOrder) /\ i \in 0..Len(InOrder) /\ a \in 0..Len(InOrder) /\ i \in Nat /\ a \in Nat
  BY PathsInOrder DEF Comes, CopyingOK
<1>2. CopyingOK(i, i)'
  <2>1. copying' = Tops(i)
    BY DEF Pass, Comes
  <2>2. Tops(i)' = Tops(i) /\ Len(InOrder)' = Len(InOrder)
    BY DEF Tops, InOrder
  <2> QED BY <1>1, <2>1, <2>2 DEF CopyingOK
<1>3. LaysOn(a, b, i, i, i, at)
  <2>1. CASE at = "x" /\ b = a /\ i = a + 1
    <3>1. a < Len(InOrder)
      BY <1>1, <2>1, PathsInOrder
    <3> QED BY <1>1, <2>1, <3>1, TopGrows
  <2>2. CASE at = "x/y" /\ b = a - 1 /\ i = a /\ EntryOf(i, "x").kind = "dir" /\ Parent(InnerOf(InOrder[i])) = "dir"
    BY <1>1, <2>2, InnerGrows
  <2> QED BY <2>1, <2>2 DEF Comes
<1> QED BY <1>1, <1>2, <1>3

\* A path that is merged as a directory is laid but for the entry in it.
LEMMA EnterGrows ==
  ASSUME NEW a, NEW b, NEW i, CopyingOK(a, b), Comes(a, b, i, "x"), UNCHANGED trees,
         copying' = <<<<Current[1], "x/y">>>> \o Tail(copying),
         EntryOf(i, "x").kind = "dir", Parent(InnerOf(InOrder[i])) = "dir"
  PROVE  /\ i \in 0..Len(InOrder) /\ LaysOn(a, b, i, i - 1, i, "x") /\ CopyingOK(i, i - 1)'
<1>1. /\ i \in 1..Len(InOrder) /\ i \in 0..Len(InOrder) /\ a \in 0..Len(InOrder) /\ i \in Nat /\ a \in Nat
      /\ i = a + 1 /\ b = a
  BY PathsInOrder DEF Comes, CopyingOK
<1>2. CopyingOK(i, i - 1)'
  <2>1. copying' = <<<<InOrder[i], "x/y">>>> \o Tops(i)
    BY DEF Comes
  <2>2. Tops(i)' = Tops(i) /\ Len(InOrder)' = Len(InOrder) /\ InOrder[i]' = InOrder[i]
        /\ InnerOf(InOrder[i])' = InnerOf(InOrder[i])
    BY DEF Tops, InOrder, InnerOf, Home, Flat
  <2>3. EntryOf(i, "x")' = EntryOf(i, "x") /\ Parent(InnerOf(InOrder[i]))' = Parent(InnerOf(InOrder[i]))
    <3>1. PICK d : d = InnerOf(InOrder[i])
      OBVIOUS
    <3>2. Parent(d)' = Parent(d)
      BY TreesStay
    <3> QED BY <2>2, <3>1, <3>2, TreesStay
  <2>4. i - 1 \in Nat
    BY <1>1
  <2> QED BY <1>1, <2>1, <2>2, <2>3, <2>4 DEF CopyingOK
<1>3. LaysOn(a, b, i, i - 1, i, "x")
  <2>1. a < Len(InOrder) /\ i - 1 = a
    BY <1>1, PathsInOrder
  <2> QED BY <1>1, <2>1, TopGrows
<1> QED BY <1>1, <1>2, <1>3

-----------------------------------------------------------------------------
\* One more that has the place, after those seen.
LEMMA LostGrows ==
  ASSUME NEW is \in SUBSET Nat, NEW i \in Nat, \A j \in is : j < i, NEW d
  PROVE  /\ is # {} => FirstIn(is \cup {i}) = FirstIn(is)
         /\ is = {} => FirstIn(is \cup {i}) = i
         /\ Lost(d, is \cup {i}) = Lost(d, is) \cup
              IF is # {} /\ Differ(EntryOf(i, d[2]), EntryOf(FirstIn(is), d[2]))
              THEN {<<InOrder[FirstIn(is)], InOrder[i], d>>} ELSE {}
<1>1. CASE is = {}
  <2>1. FirstIn({i}) = i
    BY FirstIsOnly
  <2>2. ~Differ(EntryOf(i, d[2]), EntryOf(i, d[2]))
    BY DEF Differ
  <2>3. Lost(d, {i}) = {} /\ Lost(d, {}) = {}
    BY <2>1, <2>2 DEF Lost
  <2>4. is \cup {i} = {i}
    BY <1>1
  <2> QED BY <1>1, <2>1, <2>3, <2>4
<1>2. CASE is # {}
  <2>1. PICK f : f = FirstIn(is)
    OBVIOUS
  <2>2. f \in is /\ \A j \in is : f <= j
    BY <1>2, <2>1, FirstInIs
  <2>3. FirstIn(is \cup {i}) = f
    <3>1. \A j \in is \cup {i} : f <= j
      BY <2>2
    <3> QED BY <2>2, <3>1, FirstIsOnly
  <2>4. i \notin is
    OBVIOUS
  <2> QED BY <1>2, <2>1, <2>3, <2>4 DEF Lost
<1> QED BY <1>1, <1>2

\* What was seen are numbers in the order.
LEMMA SeenAre ==
  ASSUME NEW d, NEW a, NEW b
  PROVE  /\ Passed(d, a, b) \in SUBSET Nat /\ Passed(d, a, b) \subseteq 1..Len(InOrder)
         /\ \A j \in Passed(d, a, b) : EntryOf(j, d[2]).kind # "none"
<1>1. \A j \in Offers(d, Parent(d)) : j \in 1..Len(InOrder) /\ EntryOf(j, d[2]).kind # "none"
  BY OffersAre
<1> QED BY <1>1, PathsInOrder DEF Passed

\* The conflict that this entry adds.
Clash(a, b, i, at) ==
  LET here == <<Home(InOrder[i]), at>>
      f == FirstIn(Passed(here, a, b))
  IN  IF /\ EntryOf(i, at).kind # "none" /\ Passed(here, a, b) # {}
         /\ Differ(EntryOf(i, at), EntryOf(f, at))
      THEN {<<InOrder[f], InOrder[i], here>>} ELSE {}

\* The conflicts that are reported grow by that of this entry.
LEMMA ConflictsGrow ==
  ASSUME NEW a, NEW b, NEW a2, NEW b2, NEW i, NEW at, LaysOn(a, b, a2, b2, i, at),
         UNCHANGED trees, ConflictsOK(a, b), conflicts' = conflicts \cup Clash(a, b, i, at)
  PROVE  ConflictsOK(a2, b2)'
<1>1. PICK here : here = <<Home(InOrder[i]), at>>
  OBVIOUS
<1>2. here \in Destinations /\ here[2] = at /\ i \in Nat /\ \A j \in Passed(here, a, b) : j < i
  BY <1>1, PathsInOrder DEF LaysOn
<1>3. ASSUME NEW d \in Destinations, d # here PROVE Lost(d, Passed(d, a2, b2)) = Lost(d, Passed(d, a, b))
  <2>1. Passed(d, a2, b2) = Passed(d, a, b)
    BY <1>1, <1>3 DEF LaysOn
  <2> QED BY <2>1
<1>4. Lost(here, Passed(here, a2, b2)) = Lost(here, Passed(here, a, b)) \cup Clash(a, b, i, at)
  <2>1. PICK is : is = Passed(here, a, b)
    OBVIOUS
  <2>2. is \in SUBSET Nat
    BY <2>1, SeenAre
  <2>3. CASE EntryOf(i, at).kind = "none"
    <3>1. Passed(here, a2, b2) = is
      BY <1>1, <1>2, <2>1, <2>3 DEF LaysOn
    <3>2. Clash(a, b, i, at) = {}
      BY <2>3 DEF Clash
    <3> QED BY <2>1, <3>1, <3>2
  <2>4. CASE EntryOf(i, at).kind # "none"
    <3>1. Passed(here, a2, b2) = is \cup {i}
      BY <1>1, <1>2, <2>1, <2>4 DEF LaysOn
    <3>2. Lost(here, is \cup {i}) = Lost(here, is) \cup
              IF is # {} /\ Differ(EntryOf(i, here[2]), EntryOf(FirstIn(is), here[2]))
              THEN {<<InOrder[FirstIn(is)], InOrder[i], here>>} ELSE {}
      BY <1>2, <2>1, <2>2, LostGrows
    <3>3. Clash(a, b, i, at) =
              IF is # {} /\ Differ(EntryOf(i, here[2]), EntryOf(FirstIn(is), here[2]))
              THEN {<<InOrder[FirstIn(is)], InOrder[i], here>>} ELSE {}
      BY <1>1, <1>2, <2>1, <2>4 DEF Clash
    <3> QED BY <2>1, <3>1, <3>2, <3>3
  <2> QED BY <2>3, <2>4
<1>5. PICK was : was = UNION {Lost(d, Passed(d, a, b)) : d \in Destinations}
  OBVIOUS
<1>6. PICK now : now = UNION {Lost(d, Passed(d, a2, b2)) : d \in Destinations}
  OBVIOUS
<1>7. now = was \cup Clash(a, b, i, at)
  <2>1. \A d \in Destinations : Lost(d, Passed(d, a2, b2))
            = Lost(d, Passed(d, a, b)) \cup (IF d = here THEN Clash(a, b, i, at) ELSE {})
    BY <1>3, <1>4
  <2>2. PICK f : f = [d \in Destinations |-> Lost(d, Passed(d, a, b))]
    OBVIOUS
  <2>3. PICK f2 : f2 = [d \in Destinations |-> Lost(d, Passed(d, a2, b2))]
    OBVIOUS
  <2>4. PICK c : c = Clash(a, b, i, at)
    OBVIOUS
  <2>5. \A d \in Destinations : f2[d] = f[d] \cup (IF d = here THEN c ELSE {})
    BY <2>1, <2>2, <2>3, <2>4
  <2>6. \A x : x \in was <=> \E d \in Destinations : x \in f[d]
    BY <1>5, <2>2
  <2>7. \A x : x \in now <=> \E d \in Destinations : x \in f2[d]
    BY <1>6, <2>3
  <2>8. ASSUME NEW x \in now PROVE x \in was \/ x \in c
    BY <2>5, <2>6, <2>7, <2>8
  <2>9. ASSUME NEW x, x \in was \/ x \in c PROVE x \in now
    BY <1>2, <2>5, <2>6, <2>7, <2>9
  <2>10. now = was \cup c
    BY ONLY <2>8, <2>9
  <2> QED BY <2>4, <2>10
<1>8. UNION {Lost(d, Passed(d, a2, b2)) : d \in Destinations}'
      = UNION {Lost(d, Passed(d, a2, b2)) : d \in Destinations}
  <2>1. \A d : Lost(d, Passed(d, a2, b2))' = Lost(d, Passed(d, a2, b2))
    BY TreesStay
  <2>2. Destinations' = Destinations
    BY DEF Destinations, PrefixPaths, Home, Flat
  <2>3. PICK f : f = [d \in Destinations |-> Lost(d, Passed(d, a2, b2))]
    OBVIOUS
  <2>4. UNION {Lost(d, Passed(d, a2, b2)) : d \in Destinations}' = UNION {f[d] : d \in Destinations}
    BY <2>1, <2>2, <2>3
  <2>5. UNION {Lost(d, Passed(d, a2, b2)) : d \in Destinations} = UNION {f[d] : d \in Destinations}
    BY <2>3
  <2> QED BY <2>4, <2>5
<1>9. conflicts = was
  BY <1>5 DEF ConflictsOK
<1>10. conflicts' = now
  BY <1>7, <1>9
<1>11. conflicts' = UNION {Lost(d, Passed(d, a2, b2)) : d \in Destinations}'
  BY <1>6, <1>8, <1>10
<1> QED BY <1>11 DEF ConflictsOK

\* What is at the other places stays, and the place of this entry gets it, if it has
\* one and the place had none.
LEMMA OutGrows ==
  ASSUME NEW a, NEW b, NEW a2, NEW b2, NEW i, NEW at, LaysOn(a, b, a2, b2, i, at),
         UNCHANGED trees, OutOK(a, b),
         NEW here, here = <<Home(InOrder[i]), at>>, NEW e, e = EntryOf(i, at),
         DOMAIN out' = DOMAIN out \cup (IF e.kind # "none" THEN {here} ELSE {}),
         \A d \in DOMAIN out : out'[d] = out[d],
         \A n \in DOMAIN inodes :
           n \in DOMAIN inodes' /\ inodes'[n] = inodes[n] /\ (n \in Waiting' <=> n \in Waiting),
         e.kind # "none" /\ here \notin DOMAIN out => Shown(here, InOrder[i], e)'
  PROVE  OutOK(a2, b2)'
<1>1. here \in Destinations /\ here[2] = at /\ i \in Nat /\ \A j \in Passed(here, a, b) : j < i
  BY PathsInOrder DEF LaysOn
<1>2. Destinations' = Destinations /\ InOrder' = InOrder
  BY DEF Destinations, PrefixPaths, Home, Flat, InOrder
<1>3. DOMAIN out' \subseteq Destinations
  BY <1>1 DEF OutOK
<1>4. ASSUME NEW d \in Destinations
      PROVE  /\ d \in DOMAIN out' <=> Passed(d, a2, b2) # {}
             /\ Passed(d, a2, b2) # {} =>
                  Shown(d, InOrder[FirstIn(Passed(d, a2, b2))], EntryOf(FirstIn(Passed(d, a2, b2)), d[2]))'
  <2>1. PICK is, is2 : is = Passed(d, a, b) /\ is2 = Passed(d, a2, b2)
    OBVIOUS
  <2>2. is2 = is \cup (IF d = here /\ e.kind # "none" THEN {i} ELSE {})
    BY <2>1 DEF LaysOn
  <2>3. d \in DOMAIN out <=> is # {}
    BY <2>1 DEF OutOK
  <2>4. d \in DOMAIN out' <=> is2 # {}
    BY <2>2, <2>3
  <2>5. is \in SUBSET Nat
    BY <2>1, SeenAre
  <2>6. CASE is # {}
    <3>1. FirstIn(is2) = FirstIn(is)
      <4>1. CASE d = here /\ e.kind # "none"
        <5>1. \A j \in is : j < i
          BY <1>1, <2>1, <4>1
        <5>2. is2 = is \cup {i}
          BY <2>2, <4>1
        <5>3. FirstIn(is \cup {i}) = FirstIn(is)
          BY ONLY <1>1, <2>5, <2>6, <5>1, LostGrows
        <5> QED BY <5>2, <5>3
      <4>2. CASE ~(d = here /\ e.kind # "none")
        BY <2>2, <4>2
      <4> QED BY <4>1, <4>2
    <3>2. PICK p, x : p = InOrder[FirstIn(is)] /\ x = EntryOf(FirstIn(is), d[2])
      OBVIOUS
    <3>3. Shown(d, p, x)
      BY <2>1, <2>6, <3>2 DEF OutOK
    <3>4. Shown(d, p, x)'
      BY <2>3, <2>6, <3>3 DEF Shown, Installed, PrefixPaths, Home, Flat
    <3>5. p = InOrder[FirstIn(is2)] /\ x = EntryOf(FirstIn(is2), d[2])
      BY <3>1, <3>2
    <3>6. Shown(d, InOrder[FirstIn(is2)], EntryOf(FirstIn(is2), d[2]))'
      <4>1. \A k, w : EntryOf(k, w)' = EntryOf(k, w)
        BY TreesStay
      <4>2. PICK k : k = FirstIn(is2)
        OBVIOUS
      <4>3. InOrder[k]' = p /\ EntryOf(k, d[2])' = x
        BY <1>2, <3>5, <4>1, <4>2
      <4>4. Shown(d, InOrder[k], EntryOf(k, d[2]))'
        BY <3>4, <4>3 DEF Shown, Installed, PrefixPaths, Home, Flat
      <4> QED BY <4>2, <4>4
    <3> QED BY <2>1, <2>4, <3>6, TreesStay
  <2>7. CASE is = {} /\ is2 # {}
    <3>1. is2 = {i} /\ d = here /\ e.kind # "none" /\ here \notin DOMAIN out
      BY <2>2, <2>3, <2>7
    <3>2. FirstIn(is2) = i
      BY <1>1, <3>1, FirstIsOnly
    <3>3. Shown(d, InOrder[i], e)'
      BY <3>1
    <3>4. EntryOf(i, d[2])' = e
      BY <1>1, <3>1, TreesStay
    <3>5. Shown(d, InOrder[FirstIn(is2)], EntryOf(FirstIn(is2), d[2]))'
      BY <3>2, <3>3, <3>4 DEF Shown, Installed, PrefixPaths, Home, Flat
    <3> QED BY <2>1, <2>4, <3>5, TreesStay
  <2>8. CASE is2 = {}
    BY <2>1, <2>4, <2>8
  <2> QED BY <2>6, <2>7, <2>8
<1>5. ASSUME NEW d \in Destinations
      PROVE  (/\ d \in DOMAIN out <=> Passed(d, a2, b2) # {}
              /\ Passed(d, a2, b2) # {} =>
                   Shown(d, InOrder[FirstIn(Passed(d, a2, b2))], EntryOf(FirstIn(Passed(d, a2, b2)), d[2])))'
  <2>1. PICK is2 : is2 = Passed(d, a2, b2)
    OBVIOUS
  <2>2. is2 = Passed(d, a2, b2)'
    BY <2>1, TreesStay
  <2> QED BY <1>4, <2>1, <2>2
<1> QED BY <1>2, <1>3, <1>5 DEF OutOK

-----------------------------------------------------------------------------
\* What is at the place of the next entry is what the first path has there, and tells
\* what the entries in a path are merged into.
LEMMA PlaceOfNext ==
  ASSUME NEW a, NEW b, NEW i, NEW at, Laid(a, b), Comes(a, b, i, at), Entering.kind # "none"
  PROVE  LET f == FirstIn(Passed(Dest, a, b))
         IN  /\ Dest \in Destinations /\ Dest[2] = at
             /\ Dest \in DOMAIN out <=> Passed(Dest, a, b) # {}
             /\ Dest \in DOMAIN out => Shown(Dest, InOrder[f], EntryOf(f, at))
             /\ at = "x" => Parent(InnerOf(InOrder[i])) =
                              IF Dest \in DOMAIN out THEN EntryOf(f, at).kind ELSE Entering.kind
<1>1. i \in 1..Len(InOrder) /\ i \in Nat /\ a \in Nat /\ b \in Nat
  BY PathsInOrder DEF Comes, Laid, CopyingOK
<1>2. PICK d : d = Dest
  OBVIOUS
<1>3. d = <<Home(InOrder[i]), at>> /\ d[2] = at /\ d[1] = Home(InOrder[i]) /\ at \in {"x", "x/y"}
  BY <1>2 DEF Comes
<1>4. d \in Destinations
  BY <1>1, <1>3, PathsInOrder DEF TopOf, InnerOf
<1>5. PICK is, f : is = Passed(d, a, b) /\ f = FirstIn(is)
  OBVIOUS
<1>6. /\ d \in DOMAIN out <=> is # {}
      /\ d \in DOMAIN out => Shown(d, InOrder[f], EntryOf(f, at))
  BY <1>3, <1>4, <1>5 DEF Laid, OutOK
<1>7. ASSUME at = "x"
      PROVE  Parent(InnerOf(InOrder[i])) = IF d \in DOMAIN out THEN EntryOf(f, at).kind ELSE Entering.kind
  <2>1. PICK p : p = InOrder[i]
    OBVIOUS
  <2>2. d = TopOf(p)
    BY <1>3, <1>7, <2>1 DEF TopOf
  <2>3. PICK all : all = Offers(d, "dir")
    OBVIOUS
  <2>4. Parent(d) = "dir" /\ Parent(InnerOf(p)) = IF all = {} THEN "none" ELSE EntryOf(FirstIn(all), "x").kind
    BY <2>2, <2>3, ParentIs
  <2>5. i \in all
    BY <1>1, <1>3, <1>7, <2>3, OffersAre DEF Comes
  <2>6. CASE d \in DOMAIN out
    <3>1. FirstIn(all) = f
      BY <1>1, <1>5, <1>6, <2>3, <2>4, <2>6, FirstSeen
    <3> QED BY <1>7, <2>1, <2>4, <2>5, <2>6, <3>1
  <2>7. CASE d \notin DOMAIN out
    <3>1. is = {j \in all : j <= a}
      BY <1>3, <1>5, <1>7, <2>3, <2>4 DEF Passed
    <3>2. i = a + 1
      BY <1>7 DEF Comes
    <3>3. all \in SUBSET Nat
      BY <2>3, OffersAre, PathsInOrder
    <3>4. \A j \in all : i <= j
      BY <1>1, <1>6, <2>7, <3>1, <3>2, <3>3
    <3>5. FirstIn(all) = i
      BY <2>5, <3>3, <3>4, FirstIsOnly
    <3>6. Entering = EntryOf(i, "x")
      BY <1>7 DEF Comes
    <3> QED BY <2>1, <2>4, <2>5, <2>7, <3>5, <3>6
  <2> QED BY <2>6, <2>7
<1> QED BY <1>2, <1>3, <1>4, <1>5, <1>6, <1>7

\* Before everything is copied, inodes have the bytes they were copied with, so
\* what is the same now will be the same.
LEMMA SameIs ==
  ASSUME NEW d, NEW p, NEW kept, NEW e, InodesOK, copying # <<>>, d \in DOMAIN out, Shown(d, p, kept)
  PROVE  SameAs(e, out[d]) <=> ~Differ(e, kept)
<1>1. out[d].kind = kept.kind
  BY DEF Shown
<1>2. kept.kind = "link" => out[d].data = Installed(kept.data)
  BY DEF Shown
<1>3. kept.kind = "file" => inodes[out[d].data].data = kept.data
  BY DEF Shown, InodesOK
<1> QED BY <1>1, <1>2, <1>3 DEF SameAs, Differ

\* How far the copying has come, and what comes next.
LEMMA PrefixInvParts ==
  ASSUME PrefixInv, copying # <<>>
  PROVE  \E a, b, i, at : Laid(a, b) /\ Comes(a, b, i, at)
<1>1. PICK a, b : Laid(a, b)
  BY DEF PrefixInv
<1> QED BY <1>1, NextComes DEF Laid

\* The invariant of a tree that is laid so far.
LEMMA LaidAgain ==
  ASSUME NEW a \in 0..Len(InOrder), NEW b, b \in {a, a - 1}, PrefixInv, UNCHANGED trees,
         InodesOK', CopyingOK(a, b)', OutOK(a, b)', ConflictsOK(a, b)'
  PROVE  PrefixInv'
<1>1. Laid(a, b)'
  BY DEF Laid
<1>2. (0..Len(InOrder))' = 0..Len(InOrder) /\ PrefixPaths' = PrefixPaths
  BY DEF InOrder, PrefixPaths
<1>3. (Laid(a, a) \/ Laid(a, a - 1))'
  BY <1>1
<1> QED BY <1>2, <1>3 DEF PrefixInv

\* A path without the entry changes nothing.
LEMMA PrefixCopyNothing ==
  ASSUME PrefixInv, CopyNothing
  PROVE  PrefixInv'
<1>1. PICK a, b, i, at : Laid(a, b) /\ Comes(a, b, i, at)
  BY PrefixInvParts DEF CopyNothing
<1>2. UNCHANGED <<trees, out, inodes, sharing, conflicts, rewriting, unknown>> /\ Pass /\ EntryOf(i, at).kind = "none"
      /\ copying # <<>>
  BY <1>1 DEF CopyNothing, Comes
<1>3. i \in 0..Len(InOrder) /\ LaysOn(a, b, i, i, i, at) /\ CopyingOK(i, i)'
  BY <1>1, <1>2, PassGrows DEF Laid
<1>4. ConflictsOK(i, i)'
  <2>1. Clash(a, b, i, at) = {}
    BY <1>2 DEF Clash
  <2> QED BY <1>1, <1>2, <1>3, <2>1, ConflictsGrow DEF Laid
<1>5. OutOK(i, i)'
  <2>1. Waiting' = Waiting
    BY <1>2 DEF Waiting
  <2>2. PICK here, e : here = <<Home(InOrder[i]), at>> /\ e = EntryOf(i, at)
    OBVIOUS
  <2> QED BY <1>1, <1>2, <1>3, <2>1, <2>2, OutGrows DEF Laid
<1>6. InodesOK'
  BY <1>2 DEF InodesOK, PrefixInv, Waiting
<1> QED BY <1>2, <1>3, <1>4, <1>5, <1>6, LaidAgain

\* What is there stays, and is reported if the two differ.
LEMMA PrefixKeep ==
  ASSUME PrefixInv, Keep
  PROVE  PrefixInv'
<1>1. PICK a, b, i, at : Laid(a, b) /\ Comes(a, b, i, at)
  BY PrefixInvParts DEF Keep
<1>2. UNCHANGED <<trees, out, inodes, sharing, rewriting, unknown>> /\ Pass /\ EntryOf(i, at).kind # "none"
      /\ copying # <<>>
  BY <1>1 DEF Keep, Comes
<1>3. PICK here, e, f : here = Dest /\ e = EntryOf(i, at) /\ f = FirstIn(Passed(here, a, b))
  OBVIOUS
<1>4. here = <<Home(InOrder[i]), at>> /\ e = Entering /\ here \in DOMAIN out
  BY <1>1, <1>3 DEF Comes, Keep
<1>5. /\ here[2] = at /\ Passed(here, a, b) # {} /\ Shown(here, InOrder[f], EntryOf(f, at))
      /\ at = "x" => Parent(InnerOf(InOrder[i])) = EntryOf(f, at).kind
  BY <1>1, <1>2, <1>3, <1>4, PlaceOfNext
<1>6. at = "x" => ~(EntryOf(i, "x").kind = "dir" /\ Parent(InnerOf(InOrder[i])) = "dir")
  <2>1. out[here].kind = EntryOf(f, at).kind
    BY <1>5 DEF Shown
  <2>2. e.kind = "dir" => out[here].kind # "dir"
    BY <1>3, <1>4 DEF Keep
  <2> QED BY <1>3, <1>5, <2>1, <2>2
<1>7. i \in 0..Len(InOrder) /\ LaysOn(a, b, i, i, i, at) /\ CopyingOK(i, i)'
  BY <1>1, <1>2, <1>6, PassGrows DEF Laid
<1>8. ConflictsOK(i, i)'
  <2>1. SameAs(e, out[here]) <=> ~Differ(e, EntryOf(f, at))
    BY <1>2, <1>4, <1>5, SameIs DEF PrefixInv
  <2>2. out[here].owner = InOrder[f] /\ Current[1] = InOrder[i]
    BY <1>1, <1>5 DEF Shown, Comes
  <2>3. conflicts' = conflicts \cup IF Differ(e, EntryOf(f, at)) THEN {<<InOrder[f], InOrder[i], here>>} ELSE {}
    BY <1>3, <1>4, <2>1, <2>2 DEF Keep
  <2>4. Clash(a, b, i, at) = IF Differ(e, EntryOf(f, at)) THEN {<<InOrder[f], InOrder[i], here>>} ELSE {}
    BY <1>2, <1>3, <1>4, <1>5 DEF Clash
  <2> QED BY <1>1, <1>2, <1>7, <2>3, <2>4, ConflictsGrow DEF Laid
<1>9. OutOK(i, i)'
  <2>1. Waiting' = Waiting
    BY <1>2 DEF Waiting
  <2> QED BY <1>1, <1>2, <1>3, <1>4, <1>7, <2>1, OutGrows DEF Laid
<1>10. InodesOK'
  BY <1>2 DEF InodesOK, PrefixInv, Waiting
<1> QED BY <1>2, <1>7, <1>8, <1>9, <1>10, LaidAgain

\* A place that had nothing has no conflict yet.
LEMMA NoClash ==
  ASSUME NEW a, NEW b, NEW i, NEW at,
         LET here == <<Home(InOrder[i]), at>>
         IN  Passed(here, a, b) = {} \/ ~Differ(EntryOf(i, at), EntryOf(FirstIn(Passed(here, a, b)), at))
  PROVE  Clash(a, b, i, at) = {}
  BY DEF Clash

\* A directory is made or merged into, and then entered.
LEMMA PrefixCopyDir ==
  ASSUME PrefixInv, CopyDir
  PROVE  PrefixInv'
<1>1. PICK a, b, i, at : Laid(a, b) /\ Comes(a, b, i, at)
  BY PrefixInvParts DEF CopyDir
<1>2. /\ UNCHANGED <<trees, inodes, sharing, conflicts, rewriting, unknown>>
      /\ EntryOf(i, at).kind = "dir" /\ copying # <<>>
      /\ copying' = <<<<Current[1], "x/y">>>> \o Tail(copying)
  BY <1>1 DEF CopyDir, Comes
<1>3. PICK here, e, f : here = Dest /\ e = EntryOf(i, at) /\ f = FirstIn(Passed(here, a, b))
  OBVIOUS
<1>4. here = <<Home(InOrder[i]), at>> /\ e = Entering /\ InOrder[i] = Current[1]
  BY <1>1, <1>3 DEF Comes
<1>5. /\ here[2] = at /\ here \in DOMAIN out <=> Passed(here, a, b) # {}
      /\ here \in DOMAIN out => Shown(here, InOrder[f], EntryOf(f, at))
      /\ at = "x" => Parent(InnerOf(InOrder[i])) =
                       IF here \in DOMAIN out THEN EntryOf(f, at).kind ELSE e.kind
  BY <1>1, <1>2, <1>3, <1>4, PlaceOfNext
<1>6. at = "x"
  <2>1. trees[InOrder[i]]["x/y"].kind # "dir"
    BY <1>1, PathsInOrder DEF Comes, PrefixInv
  <2> QED BY <1>1, <1>2, <2>1 DEF Comes, EntryOf
<1>7. here \in DOMAIN out => EntryOf(f, at).kind = "dir"
  BY <1>3, <1>5 DEF Shown, CopyDir
<1>8. i \in 0..Len(InOrder) /\ LaysOn(a, b, i, i - 1, i, at) /\ CopyingOK(i, i - 1)'
  <2>1. Parent(InnerOf(InOrder[i])) = "dir"
    BY <1>2, <1>3, <1>5, <1>6, <1>7
  <2> QED BY <1>1, <1>2, <1>6, <2>1, EnterGrows DEF Laid
<1>9. ConflictsOK(i, i - 1)'
  <2>1. Passed(here, a, b) = {} \/ ~Differ(EntryOf(i, at), EntryOf(f, at))
    BY <1>2, <1>5, <1>7 DEF Differ
  <2>2. Clash(a, b, i, at) = {}
    BY <1>3, <1>4, <2>1, NoClash
  <2> QED BY <1>1, <1>2, <1>8, <2>2, ConflictsGrow DEF Laid
<1>10. /\ DOMAIN out' = DOMAIN out \cup {here} /\ \A d \in DOMAIN out : out'[d] = out[d]
       /\ here \notin DOMAIN out => out'[here] = [kind |-> "dir", data |-> "none", owner |-> InOrder[i]]
  BY <1>3, <1>4 DEF CopyDir, Adding
<1>11. OutOK(i, i - 1)'
  <2>1. Waiting' = Waiting
    BY <1>2 DEF Waiting
  <2>2. here \notin DOMAIN out => Shown(here, InOrder[i], e)'
    BY <1>2, <1>3, <1>10 DEF Shown
  <2> QED BY <1>1, <1>2, <1>3, <1>4, <1>8, <1>10, <2>1, <2>2, OutGrows DEF Laid
<1>12. InodesOK'
  BY <1>2, <1>10 DEF InodesOK, PrefixInv, Waiting
<1> QED BY <1>2, <1>8, <1>9, <1>11, <1>12, LaidAgain

\* The first link at a place.
LEMMA PrefixCopyLink ==
  ASSUME PrefixInv, CopyLink
  PROVE  PrefixInv'
<1>1. PICK a, b, i, at : Laid(a, b) /\ Comes(a, b, i, at)
  BY PrefixInvParts DEF CopyLink
<1>2. /\ UNCHANGED <<trees, inodes, sharing, conflicts, rewriting, unknown>> /\ Pass
      /\ EntryOf(i, at).kind = "link" /\ copying # <<>>
  BY <1>1 DEF CopyLink, Comes
<1>3. PICK here, e : here = Dest /\ e = EntryOf(i, at)
  OBVIOUS
<1>4. here = <<Home(InOrder[i]), at>> /\ e = Entering /\ InOrder[i] = Current[1] /\ here \notin DOMAIN out
  BY <1>1, <1>3 DEF Comes, CopyLink
<1>5. Passed(here, a, b) = {}
  BY <1>1, <1>2, <1>3, <1>4, PlaceOfNext
<1>6. i \in 0..Len(InOrder) /\ LaysOn(a, b, i, i, i, at) /\ CopyingOK(i, i)'
  BY <1>1, <1>2, PassGrows DEF Laid
<1>7. ConflictsOK(i, i)'
  <2>1. Clash(a, b, i, at) = {}
    BY <1>4, <1>5, NoClash
  <2> QED BY <1>1, <1>2, <1>6, <2>1, ConflictsGrow DEF Laid
<1>8. /\ DOMAIN out' = DOMAIN out \cup {here} /\ \A d \in DOMAIN out : out'[d] = out[d]
      /\ out'[here] = [kind |-> "link", data |-> Installed(e.data), owner |-> InOrder[i]]
  BY <1>3, <1>4 DEF CopyLink, Adding
<1>9. OutOK(i, i)'
  <2>1. Waiting' = Waiting
    BY <1>2 DEF Waiting
  <2>2. Shown(here, InOrder[i], e)'
    BY <1>2, <1>3, <1>8 DEF Shown, Installed, PrefixPaths, Home, Flat
  <2> QED BY <1>1, <1>2, <1>3, <1>4, <1>6, <1>8, <2>1, <2>2, OutGrows DEF Laid
<1>10. InodesOK'
  BY <1>2, <1>8 DEF InodesOK, PrefixInv, Waiting
<1> QED BY <1>2, <1>6, <1>7, <1>9, <1>10, LaidAgain

\* The names of files that wait for their references to be rewritten.
LEMMA WaitingGrows ==
  ASSUME NEW S, rewriting \in Seq(S), NEW x, rewriting' = Append(rewriting, x), x \notin Waiting,
         \A i, j \in DOMAIN rewriting : rewriting[i] = rewriting[j] => i = j
  PROVE  /\ \E T : rewriting' \in Seq(T)
         /\ Waiting' = Waiting \cup {x}
         /\ \A i, j \in DOMAIN rewriting' : rewriting'[i] = rewriting'[j] => i = j
<1>1. PICK q, T, n : q = rewriting /\ T = S \cup {x} /\ n = Len(q)
  OBVIOUS
<1>2. q \in Seq(T) /\ x \in T
  BY <1>1, SeqMonotonic
<1>3. PICK z : z = Append(q, x)
  OBVIOUS
<1>4. z \in Seq(T) /\ Len(z) = n + 1 /\ (\A i \in 1..n : z[i] = q[i]) /\ z[n + 1] = x /\ n \in Nat
  BY <1>1, <1>2, <1>3, AppendProperties, LenProperties
<1>5. DOMAIN q = 1..n /\ DOMAIN z = 1..(n + 1)
  BY <1>1, <1>2, <1>4, LenProperties
<1>6. \A i \in 1..(n + 1) : i \in 1..n \/ i = n + 1
  BY <1>4
<1>7. {z[i] : i \in DOMAIN z} = {q[i] : i \in DOMAIN q} \cup {x}
  BY <1>4, <1>5, <1>6
<1>8. \A i \in DOMAIN q : q[i] # x
  BY <1>1 DEF Waiting
<1>9. \A i, j \in DOMAIN z : z[i] = z[j] => i = j
  BY <1>1, <1>4, <1>5, <1>6, <1>8
<1> QED BY <1>1, <1>3, <1>4, <1>7, <1>9 DEF Waiting

\* The first file at a place, with an inode of its own or one with the same bytes and mode.
LEMMA PrefixCopyFile ==
  ASSUME PrefixInv, CopyFile
  PROVE  PrefixInv'
<1>1. PICK a, b, i, at : Laid(a, b) /\ Comes(a, b, i, at)
  BY PrefixInvParts DEF CopyFile
<1>2. /\ UNCHANGED <<trees, conflicts, unknown>> /\ Pass
      /\ EntryOf(i, at).kind = "file" /\ copying # <<>>
  BY <1>1 DEF CopyFile, Comes
<1>3. PICK here, e, key : here = Dest /\ e = EntryOf(i, at) /\ key = InodeKey(Entering)
  OBVIOUS
<1>4. /\ here = <<Home(InOrder[i]), at>> /\ e = Entering /\ InOrder[i] = Current[1] /\ here \notin DOMAIN out
      /\ key = <<e.mode, e.data>>
  BY <1>1, <1>3 DEF Comes, CopyFile, InodeKey
<1>5. Passed(here, a, b) = {}
  BY <1>1, <1>2, <1>3, <1>4, PlaceOfNext
<1>6. i \in 0..Len(InOrder) /\ LaysOn(a, b, i, i, i, at) /\ CopyingOK(i, i)'
  BY <1>1, <1>2, PassGrows DEF Laid
<1>7. ConflictsOK(i, i)'
  <2>1. Clash(a, b, i, at) = {}
    BY <1>4, <1>5, NoClash
  <2> QED BY <1>1, <1>2, <1>6, <2>1, ConflictsGrow DEF Laid
<1>8. PICK first : first = IF key \in DOMAIN sharing THEN sharing[key] ELSE here
  OBVIOUS
<1>9. /\ DOMAIN out' = DOMAIN out \cup {here} /\ \A d \in DOMAIN out : out'[d] = out[d]
      /\ out'[here] = [kind |-> "file", data |-> first, owner |-> InOrder[i]]
  BY <1>3, <1>4, <1>8 DEF CopyFile, Adding
<1>10. InodesOK /\ DOMAIN inodes \subseteq Waiting /\ here \notin DOMAIN inodes /\ here \notin Waiting
  BY <1>2, <1>4 DEF PrefixInv, InodesOK
<1>11. /\ \A n \in DOMAIN inodes :
            n \in DOMAIN inodes' /\ inodes'[n] = inodes[n] /\ (n \in Waiting' <=> n \in Waiting)
       /\ first \in DOMAIN inodes' /\ inodes'[first] = [data |-> e.data, mode |-> e.mode] /\ first \in Waiting'
       /\ InodesOK'
  <2>1. CASE key \in DOMAIN sharing
    <3>1. UNCHANGED <<inodes, sharing, rewriting>>
      BY <1>3, <2>1 DEF CopyFile
    <3>2. Waiting' = Waiting
      BY <3>1 DEF Waiting
    <3>3. first \in DOMAIN inodes /\ inodes[first] = [data |-> e.data, mode |-> e.mode]
      BY <1>2, <1>4, <1>8, <1>10, <2>1 DEF InodesOK
    <3>4. InodesOK'
      BY <1>2, <1>9, <1>10, <3>1, <3>2 DEF InodesOK
    <3> QED BY <1>10, <3>1, <3>2, <3>3, <3>4
  <2>2. CASE key \notin DOMAIN sharing
    <3>1. /\ inodes' = Adding(inodes, here, [data |-> e.data, mode |-> e.mode])
          /\ sharing' = Adding(sharing, key, here)
          /\ rewriting' = Append(rewriting, here)
      BY <1>3, <1>4, <2>2 DEF CopyFile
    <3>2. /\ \E T : rewriting' \in Seq(T)
          /\ Waiting' = Waiting \cup {here}
          /\ \A m, n \in DOMAIN rewriting' : rewriting'[m] = rewriting'[n] => m = n
      <4>1. PICK S : rewriting \in Seq(S)
        BY <1>10 DEF InodesOK
      <4> QED BY <1>10, <3>1, <4>1, WaitingGrows DEF InodesOK
    <3>3. /\ DOMAIN inodes' = DOMAIN inodes \cup {here} /\ \A n \in DOMAIN inodes : inodes'[n] = inodes[n]
          /\ inodes'[here] = [data |-> e.data, mode |-> e.mode]
      BY <1>10, <3>1 DEF Adding
    <3>4. /\ DOMAIN sharing' = DOMAIN sharing \cup {key} /\ \A k \in DOMAIN sharing : sharing'[k] = sharing[k]
          /\ sharing'[key] = here
      BY <2>2, <3>1 DEF Adding
    <3>5. \A k \in DOMAIN sharing' :
            sharing'[k] \in DOMAIN inodes' /\ inodes'[sharing'[k]] = [data |-> k[2], mode |-> k[1]]
      <4>1. ASSUME NEW k \in DOMAIN sharing
            PROVE  sharing'[k] \in DOMAIN inodes' /\ inodes'[sharing'[k]] = [data |-> k[2], mode |-> k[1]]
        BY <1>2, <1>10, <3>3, <3>4 DEF InodesOK
      <4>2. sharing'[key] \in DOMAIN inodes' /\ inodes'[sharing'[key]] = [data |-> key[2], mode |-> key[1]]
        BY <1>4, <3>3, <3>4
      <4> QED BY <3>4, <4>1, <4>2
    <3>6. InodesOK'
      <4>1. DOMAIN inodes' \subseteq DOMAIN out' /\ Waiting' \subseteq DOMAIN inodes' /\ DOMAIN inodes' \subseteq Waiting'
        BY <1>9, <1>10, <3>2, <3>3 DEF InodesOK
      <4> QED BY <3>2, <3>5, <4>1 DEF InodesOK
    <3> QED BY <1>8, <1>10, <2>2, <3>2, <3>3, <3>6
  <2> QED BY <2>1, <2>2
<1>12. OutOK(i, i)'
  <2>1. Shown(here, InOrder[i], e)'
    BY <1>2, <1>3, <1>9, <1>11 DEF Shown
  <2>2. OutOK(a, b) /\ UNCHANGED trees /\ here = <<Home(InOrder[i]), at>> /\ e = EntryOf(i, at)
    BY <1>1, <1>2, <1>3, <1>4 DEF Laid
  <2>3. DOMAIN out' = DOMAIN out \cup (IF e.kind # "none" THEN {here} ELSE {})
    BY <1>2, <1>3, <1>9
  <2>4. \A n \in DOMAIN inodes :
          n \in DOMAIN inodes' /\ inodes'[n] = inodes[n] /\ (n \in Waiting' <=> n \in Waiting)
    BY <1>11
  <2>5. LaysOn(a, b, i, i, i, at)
    BY <1>6
  <2>6. \A d \in DOMAIN out : out'[d] = out[d]
    BY <1>9
  <2> QED BY ONLY <2>1, <2>2, <2>3, <2>4, <2>5, <2>6, OutGrows
<1> QED BY <1>2, <1>6, <1>7, <1>11, <1>12, LaidAgain

\* What is installed stays laid while nothing is copied.
LEMMA LaidStays ==
  ASSUME NEW a, NEW b, Laid(a, b), UNCHANGED <<trees, copying, out, conflicts>>,
         \A d, p, e : Shown(d, p, e) => Shown(d, p, e)'
  PROVE  CopyingOK(a, b)' /\ OutOK(a, b)' /\ ConflictsOK(a, b)'
<1>1. CopyingOK(a, b)'
  <2>1. /\ InOrder' = InOrder /\ Tops(a)' = Tops(a)
    BY DEF InOrder, Tops
  <2>2. EntryOf(a, "x")' = EntryOf(a, "x") /\ Parent(InnerOf(InOrder[a]))' = Parent(InnerOf(InOrder[a]))
    <3>1. PICK d : d = InnerOf(InOrder[a])
      OBVIOUS
    <3>2. InnerOf(InOrder[a])' = d
      BY <3>1 DEF InnerOf, InOrder, Home, Flat
    <3> QED BY <3>1, <3>2, TreesStay
  <2> QED BY <2>1, <2>2 DEF CopyingOK, Laid
<1>2. ConflictsOK(a, b)'
  <2>1. \A d : Lost(d, Passed(d, a, b))' = Lost(d, Passed(d, a, b))
    BY TreesStay
  <2>2. Destinations' = Destinations
    BY DEF Destinations, PrefixPaths, Home, Flat
  <2>3. PICK f : f = [d \in Destinations |-> Lost(d, Passed(d, a, b))]
    OBVIOUS
  <2>4. UNION {Lost(d, Passed(d, a, b)) : d \in Destinations}' = UNION {f[d] : d \in Destinations}
    BY <2>1, <2>2, <2>3
  <2>5. UNION {Lost(d, Passed(d, a, b)) : d \in Destinations} = UNION {f[d] : d \in Destinations}
    BY <2>3
  <2>6. conflicts' = UNION {Lost(d, Passed(d, a, b)) : d \in Destinations}'
    BY <2>4, <2>5 DEF ConflictsOK, Laid
  <2> QED BY <2>6 DEF ConflictsOK
<1>3. OutOK(a, b)'
  <2>2. ASSUME NEW d \in Destinations
        PROVE  (/\ d \in DOMAIN out <=> Passed(d, a, b) # {}
                /\ Passed(d, a, b) # {} =>
                     Shown(d, InOrder[FirstIn(Passed(d, a, b))], EntryOf(FirstIn(Passed(d, a, b)), d[2])))'
    <3>1. PICK is, k : is = Passed(d, a, b) /\ k = FirstIn(is)
      OBVIOUS
    <3>2. is = Passed(d, a, b)'
      BY <3>1, TreesStay
    <3>3. /\ d \in DOMAIN out <=> is # {}
          /\ is # {} => Shown(d, InOrder[k], EntryOf(k, d[2]))
      BY <3>1 DEF OutOK, Laid
    <3>4. PICK p, e : p = InOrder[k] /\ e = EntryOf(k, d[2])
      OBVIOUS
    <3>5. p = InOrder[k]' /\ e = EntryOf(k, d[2])'
      BY <3>4, TreesStay DEF InOrder
    <3>6. is # {} => Shown(d, p, e)'
      BY <3>3, <3>4
    <3>7. is # {} => Shown(d, InOrder[k], EntryOf(k, d[2]))'
      BY <3>5, <3>6 DEF Shown, Installed, PrefixPaths, Home, Flat
    <3> QED BY <3>1, <3>2, <3>3, <3>7
  <2>3. Destinations' = Destinations
    BY DEF Destinations, PrefixPaths, Home, Flat
  <2> QED BY <2>2, <2>3 DEF OutOK, Laid
<1> QED BY <1>1, <1>2, <1>3

\* An inode is rewritten once, when nothing is copied any more.
LEMMA PrefixRewrite ==
  ASSUME PrefixInv, Rewrite
  PROVE  PrefixInv'
<1>1. PICK file, data : file = Head(rewriting) /\ data = inodes[file].data
  OBVIOUS
<1>2. /\ UNCHANGED <<trees, copying, out, sharing, conflicts>> /\ copying = <<>> /\ rewriting # <<>>
      /\ inodes' = [inodes EXCEPT ![file].data = Installed(data)]
      /\ rewriting' = Tail(rewriting)
  BY <1>1 DEF Rewrite
<1>3. InodesOK
  BY DEF PrefixInv
<1>4. PICK S : rewriting \in Seq(S)
  BY <1>3 DEF InodesOK
<1>5. PICK q, z : q = rewriting /\ z = rewriting'
  OBVIOUS
<1>6. /\ q \in Seq(S) /\ z \in Seq(S) /\ Len(z) = Len(q) - 1 /\ Len(q) \in Nat
      /\ \A k \in 1..Len(z) : z[k] = q[k + 1]
  <2>1. q \in Seq(S) /\ q # <<>> /\ z = Tail(q)
    BY <1>2, <1>4, <1>5
  <2> QED BY <2>1, HeadTailProperties, LenProperties
<1>7. DOMAIN q = 1..Len(q) /\ DOMAIN z = 1..Len(z) /\ Len(q) >= 1 /\ q[1] = file
  <2>1. q # <<>> /\ Head(q) = q[1]
    BY <1>2, <1>4, <1>5
  <2> QED BY <1>1, <1>2, <1>5, <1>6, <2>1, LenProperties, EmptySeq
<1>8. \A m, n \in DOMAIN q : q[m] = q[n] => m = n
  BY <1>3, <1>5 DEF InodesOK
<1>9. /\ \A k \in DOMAIN z : k + 1 \in DOMAIN q /\ k + 1 # 1
      /\ \A k \in DOMAIN q : k = 1 \/ k - 1 \in DOMAIN z
  BY <1>6, <1>7
<1>10. \A m, n \in DOMAIN z : z[m] = z[n] => m = n
  <2> SUFFICES ASSUME NEW m \in DOMAIN z, NEW n \in DOMAIN z, z[m] = z[n] PROVE m = n
    OBVIOUS
  <2>1. q[m + 1] = q[n + 1] /\ m + 1 \in DOMAIN q /\ n + 1 \in DOMAIN q
    BY <1>6, <1>7, <1>9
  <2>2. m + 1 = n + 1
    BY <1>8, <2>1
  <2> QED BY <1>6, <1>7, <2>2
<1>11. Waiting' = Waiting \ {file} /\ file \in Waiting
  <2>1. PICK w, w2 : w = Waiting /\ w2 = Waiting'
    OBVIOUS
  <2>2. w = {q[k] : k \in DOMAIN q} /\ w2 = {z[k] : k \in DOMAIN z}
    BY <1>5, <2>1 DEF Waiting
  <2>3. file \in w
    BY <1>7, <2>2
  <2>4. ASSUME NEW x \in w2 PROVE x \in w /\ x # file
    <3>1. PICK k \in DOMAIN z : x = z[k]
      BY <2>2, <2>4
    <3>2. x = q[k + 1] /\ k + 1 \in DOMAIN q /\ k + 1 # 1 /\ 1 \in DOMAIN q
      BY <1>6, <1>7, <1>9, <3>1
    <3> QED BY <1>7, <1>8, <2>2, <3>2
  <2>5. ASSUME NEW x \in w, x # file PROVE x \in w2
    <3>1. PICK k \in DOMAIN q : x = q[k]
      BY <2>2, <2>5
    <3>2. k - 1 \in DOMAIN z
      BY <1>7, <1>9, <2>5, <3>1
    <3>3. z[k - 1] = q[(k - 1) + 1] /\ (k - 1) + 1 = k
      BY <1>6, <1>7, <3>1, <3>2
    <3> QED BY <2>2, <3>1, <3>2, <3>3
  <2>6. w2 = w \ {file}
    BY ONLY <2>4, <2>5
  <2> QED BY <2>1, <2>3, <2>6
<1>12. /\ DOMAIN inodes' = DOMAIN inodes
       /\ \A n \in DOMAIN inodes : n # file => inodes'[n] = inodes[n]
       /\ \A x, m : file \in DOMAIN inodes /\ inodes[file] = [data |-> x, mode |-> m]
            => inodes'[file] = [data |-> Installed(x), mode |-> m]
  BY <1>1, <1>2
<1>13. InodesOK'
  <2>1. \E T : rewriting' \in Seq(T)
    BY <1>5, <1>6
  <2>2. \A m, n \in DOMAIN rewriting' : rewriting'[m] = rewriting'[n] => m = n
    BY <1>5, <1>10
  <2> QED BY <1>2, <1>3, <1>11, <1>12, <2>1, <2>2 DEF InodesOK
<1>14. PICK a, b : a \in 0..Len(InOrder) /\ b \in {a, a - 1} /\ Laid(a, b)
  BY DEF PrefixInv
<1>15. ASSUME NEW d, NEW p, NEW e, Shown(d, p, e) PROVE Shown(d, p, e)'
  <2>1. PICK n : n = out[d].data
    OBVIOUS
  <2>2. ASSUME e.kind = "file"
        PROVE  /\ n \in DOMAIN inodes'
               /\ inodes'[n] = [data |-> IF n \in Waiting' THEN e.data ELSE Installed(e.data), mode |-> e.mode]
    <3>1. n \in DOMAIN inodes
          /\ inodes[n] = [data |-> IF n \in Waiting THEN e.data ELSE Installed(e.data), mode |-> e.mode]
      BY <1>15, <2>1, <2>2 DEF Shown
    <3>2. CASE n = file
      BY <1>11, <1>12, <3>1, <3>2
    <3>3. CASE n # file
      BY <1>11, <1>12, <3>1, <3>3
    <3> QED BY <3>2, <3>3
  <2>3. out'[d] = out[d]
    BY <1>2
  <2> QED BY <1>15, <2>1, <2>2, <2>3 DEF Shown, Installed, PrefixPaths, Home, Flat
<1>16. CopyingOK(a, b)' /\ OutOK(a, b)' /\ ConflictsOK(a, b)'
  BY <1>2, <1>14, <1>15, LaidStays
<1> QED BY <1>2, <1>13, <1>14, <1>16, LaidAgain

-----------------------------------------------------------------------------
\* Nothing is copied at first.
LEMMA PrefixInitInv ==
  ASSUME PrefixInit
  PROVE  PrefixInv
<1>1. /\ copying = Entries(Merge, "x") \o Entries(Separate, "x")
      /\ out = <<>> /\ inodes = <<>> /\ sharing = <<>> /\ conflicts = {} /\ rewriting = <<>>
      /\ \A i \in DOMAIN Merge : trees[Merge[i]] \in MergedTrees
      /\ \A i \in DOMAIN Separate : trees[Separate[i]] \in SeparateTrees
  BY DEF PrefixInit
<1>2. Len(InOrder) \in Nat /\ 0 \in 0..Len(InOrder)
  BY PathsInOrder
<1>3. copying = Tops(0)
  <2>1. PICK S : Merge \in Seq(S) /\ Separate \in Seq(S)
    <3>1. PICK S : S = PrefixPaths
      OBVIOUS
    <3>2. \A i \in DOMAIN Merge : Merge[i] \in S
      BY <3>1 DEF PrefixPaths
    <3>3. \A i \in DOMAIN Separate : Separate[i] \in S
      BY <3>1 DEF PrefixPaths
    <3>4. Merge \in Seq(S) /\ Separate \in Seq(S)
      BY <3>2, <3>3, PrefixAssumption
    <3> QED BY <3>4
  <2>2. PICK m, n : m = Len(Merge) /\ n = Len(Separate)
    OBVIOUS
  <2>3. m \in Nat /\ n \in Nat /\ DOMAIN Merge = 1..m /\ DOMAIN Separate = 1..n
    BY <2>1, <2>2, LenProperties
  <2>4. PICK q, z : q = Entries(Merge, "x") /\ z = Entries(Separate, "x")
    OBVIOUS
  <2>5. PICK T : T = S \X {"x"}
    OBVIOUS
  <2>6. (\A i \in 1..m : Merge[i] \in S) /\ (\A i \in 1..n : Separate[i] \in S)
    BY <2>1, <2>2, ElementOfSeq
  <2>7. q = [i \in 1..m |-> <<Merge[i], "x">>] /\ z = [i \in 1..n |-> <<Separate[i], "x">>]
    BY <2>3, <2>4 DEF Entries
  <2>8. q \in [1..m -> T] /\ z \in [1..n -> T]
    BY <2>5, <2>6, <2>7
  <2>9. q \in Seq(T) /\ z \in Seq(T)
    BY ONLY <2>3, <2>8, SeqDef
  <2>10. Len(q) = m /\ Len(z) = n
    <3>1. ASSUME NEW s \in Seq(T), NEW k \in Nat, s \in [1..k -> T] PROVE Len(s) = k
      <4>1. Len(s) \in Nat /\ 1..Len(s) = 1..k
        BY <3>1, LenProperties
      <4>2. PICK l \in Nat : l = Len(s)
        BY <4>1
      <4>3. l \in 1..l \/ l = 0
        BY <4>2
      <4>4. k \in 1..k \/ k = 0
        BY <3>1
      <4> QED BY <4>1, <4>2, <4>3, <4>4
    <3> QED BY <2>3, <2>8, <2>9, <3>1
  <2>11. PICK all : all = q \o z
    OBVIOUS
  <2>12. /\ all \in Seq(T) /\ Len(all) = m + n
         /\ \A i \in 1..(m + n) : all[i] = IF i <= m THEN q[i] ELSE z[i - m]
    <3>1. /\ all \in Seq(T) /\ Len(all) = Len(q) + Len(z)
          /\ \A i \in 1..(Len(q) + Len(z)) : all[i] = IF i <= Len(q) THEN q[i] ELSE z[i - Len(q)]
      BY <2>9, <2>11, ConcatProperties
    <3> QED BY <2>10, <3>1
  <2>13. PICK order : order = InOrder
    OBVIOUS
  <2>14. /\ Len(order) = m + n
         /\ \A i \in 1..(m + n) : order[i] = IF i <= m THEN Merge[i] ELSE Separate[i - m]
    BY <2>1, <2>2, <2>13, ConcatProperties DEF InOrder
  <2>15. ASSUME NEW i \in 1..(m + n) PROVE all[i] = <<order[i], "x">>
    <3>1. CASE i <= m
      <4>1. i \in 1..m
        BY <2>3, <3>1
      <4> QED BY <2>7, <2>12, <2>14, <3>1, <4>1
    <3>2. CASE ~(i <= m)
      <4>1. i - m \in 1..n
        BY <2>3, <3>2
      <4> QED BY <2>7, <2>12, <2>14, <3>2, <4>1
    <3> QED BY <3>1, <3>2
  <2>16. PICK l : l = m + n
    OBVIOUS
  <2>17. all \in [1..l -> T] /\ l \in Nat
    BY <2>3, <2>12, <2>16, LenProperties
  <2>18. all = [k \in 1..l |-> <<order[k], "x">>]
    BY <2>15, <2>16, <2>17
  <2>19. Tops(0) = [k \in 1..(l - 0) |-> <<order[0 + k], "x">>]
    BY <2>13, <2>14, <2>16 DEF Tops
  <2>20. l - 0 = l /\ \A k \in 1..l : 0 + k = k
    BY <2>17
  <2>21. Tops(0) = [k \in 1..l |-> <<order[k], "x">>]
    BY <2>19, <2>20
  <2> QED BY <1>1, <2>4, <2>11, <2>18, <2>21
<1>4. \A d : Passed(d, 0, 0) = {}
  <2>1. \A d, kept : \A i \in Offers(d, kept) : i \in 1..Len(InOrder)
    BY OffersAre
  <2>2. \A i \in 1..Len(InOrder) : ~(i <= 0)
    BY <1>2
  <2>3. \A d : \A i \in Offers(d, Parent(d)) : ~(i <= 0)
    BY <2>1, <2>2
  <2> QED BY <2>3 DEF Passed
<1>5. OutOK(0, 0)
  BY <1>1, <1>4 DEF OutOK
<1>6. ConflictsOK(0, 0)
  <2>1. \A d : Lost(d, Passed(d, 0, 0)) = {}
    BY <1>4 DEF Lost
  <2> QED BY <1>1, <2>1 DEF ConflictsOK
<1>7. InodesOK
  <2>1. rewriting \in Seq({}) /\ DOMAIN rewriting = {} /\ DOMAIN inodes = {} /\ DOMAIN sharing = {}
    BY <1>1
  <2>2. Waiting = {}
    BY <2>1 DEF Waiting
  <2> QED BY <2>1, <2>2 DEF InodesOK
<1>8. \A p \in PrefixPaths : trees[p]["x/y"].kind # "dir"
  <2>1. \A p \in PrefixPaths : trees[p] \in MergedTrees \cup SeparateTrees
    BY <1>1 DEF PrefixPaths
  <2> QED BY <2>1, PrefixAssumption
<1>9. Laid(0, 0)
  BY <1>2, <1>3, <1>5, <1>6 DEF Laid, CopyingOK
<1> QED BY <1>2, <1>7, <1>8, <1>9 DEF PrefixInv

\* Every step keeps the invariant.
LEMMA PrefixStepInv ==
  ASSUME PrefixInv, PrefixNext \/ UNCHANGED prefixVars
  PROVE  PrefixInv'
<1>1. CASE UNCHANGED prefixVars
  <2>1. UNCHANGED trees /\ UNCHANGED <<copying, out, inodes, sharing, conflicts, rewriting>>
    BY <1>1 DEF prefixVars
  <2>2. PICK a, b : a \in 0..Len(InOrder) /\ b \in {a, a - 1} /\ Laid(a, b)
    BY DEF PrefixInv
  <2>3. InodesOK'
    BY <2>1 DEF PrefixInv, InodesOK, Waiting
  <2>4. CopyingOK(a, b)' /\ OutOK(a, b)' /\ ConflictsOK(a, b)'
    <3>1. \A d, p, e : Shown(d, p, e) => Shown(d, p, e)'
      BY <2>1 DEF Shown, Waiting, Installed, PrefixPaths, Home, Flat
    <3> QED BY <2>1, <2>2, <3>1, LaidStays
  <2> QED BY <2>1, <2>2, <2>3, <2>4, LaidAgain
<1>2. CASE PrefixNext
  BY <1>2, PrefixCopyNothing, PrefixCopyDir, PrefixKeep, PrefixCopyLink, PrefixCopyFile, PrefixRewrite
  DEF PrefixNext
<1> QED BY <1>1, <1>2

\* When all is copied, everyone who has a place was seen.
LEMMA AllSeen ==
  ASSUME PrefixInv, copying = <<>>
  PROVE  \E a, b : Laid(a, b) /\ \A d : Passed(d, a, b) = Offers(d, Parent(d))
<1>1. PICK a, b : Laid(a, b)
  BY DEF PrefixInv
<1>2. a \in 0..Len(InOrder) /\ a \in Nat
  BY <1>1, PathsInOrder DEF Laid, CopyingOK
<1>3. PICK S : Tops(a) \in Seq(S) /\ (Tops(a) = <<>> <=> a = Len(InOrder))
  BY <1>2, TopsAre
<1>4. b = a /\ a = Len(InOrder)
  <2>1. CASE b = a /\ copying = Tops(a)
    BY <1>3, <2>1
  <2>2. CASE copying = <<<<InOrder[a], "x/y">>>> \o Tops(a)
    <3>1. PICK e, q, T : e = <<InOrder[a], "x/y">> /\ q = Tops(a) /\ T = S \cup {e}
      OBVIOUS
    <3>2. q \in Seq(T) /\ <<e>> \in Seq(T) /\ copying = <<e>> \o q
      BY <1>3, <2>2, <3>1, SeqMonotonic
    <3>3. <<e>> \o q # <<>>
      BY ONLY <3>2
    <3> QED BY <3>2, <3>3
  <2> QED BY <1>1, <2>1, <2>2 DEF Laid, CopyingOK
<1>5. \A d : \A i \in Offers(d, Parent(d)) : i <= Len(InOrder)
  <2>1. \A d, kept : \A i \in Offers(d, kept) : i \in 1..Len(InOrder)
    BY OffersAre
  <2>2. \A i \in 1..Len(InOrder) : i <= Len(InOrder)
    BY PathsInOrder
  <2> QED BY <2>1, <2>2
<1> QED BY <1>1, <1>4, <1>5 DEF Passed

\* When nothing is copied or rewritten any more, the tree is what was wanted.
LEMMA PrefixExactFollows ==
  ASSUME PrefixInv
  PROVE  PrefixExact /\ LossesReported
<1> SUFFICES ASSUME PrefixDone PROVE PrefixExact /\ LossesReported
  BY DEF PrefixExact, LossesReported
<1>1. copying = <<>> /\ rewriting = <<>>
  BY DEF PrefixDone
<1>2. PICK a, b : Laid(a, b) /\ \A d : Passed(d, a, b) = Offers(d, Parent(d))
  BY <1>1, AllSeen
<1>3. Waiting = {}
  BY <1>1 DEF Waiting
<1>4. ASSUME NEW d \in Destinations
      PROVE  LET want == FirstProvided(d, Parent(d))
             IN  IF want.kind = "none" THEN d \notin DOMAIN out
                 ELSE /\ d \in DOMAIN out /\ out[d].kind = want.kind
                      /\ want.kind = "link" => out[d].data = Installed(want.data)
                      /\ want.kind = "file" => inodes[out[d].data] =
                           [data |-> Installed(want.data), mode |-> want.mode]
  <2>1. PICK is, f, want : is = Offers(d, Parent(d)) /\ f = FirstIn(is) /\ want = FirstProvided(d, Parent(d))
    OBVIOUS
  <2>2. d \in DOMAIN out <=> is # {}
    BY <1>2, <2>1 DEF Laid, OutOK
  <2>3. CASE is = {}
    BY <2>1, <2>2, <2>3 DEF FirstProvided
  <2>4. CASE is # {}
    <3>1. want = EntryOf(f, d[2])
      BY <2>1, <2>4 DEF FirstProvided, FirstOffer, FirstIn, EntryOf, InOrder
    <3>2. Shown(d, InOrder[f], want)
      BY <1>2, <2>1, <2>4, <3>1 DEF Laid, OutOK
    <3>3. f \in is
      <4>1. is \in SUBSET Nat
        BY <2>1, OffersAre, PathsInOrder
      <4> QED BY <2>1, <2>4, <4>1, FirstInIs
    <3>4. want.kind # "none"
      BY <2>1, <3>1, <3>3, OffersAre
    <3> QED BY <1>3, <2>1, <2>2, <2>4, <3>2, <3>4 DEF Shown
  <2> QED BY <2>3, <2>4
<1>5. PrefixExact
  BY <1>4 DEF PrefixExact
<1>6. LossesReported
  <2>1. conflicts = UNION {Lost(d, Offers(d, Parent(d))) : d \in Destinations}
    BY <1>2 DEF Laid, ConflictsOK
  <2> QED BY <2>1 DEF LossesReported, Lost, Differ, FirstOffer, FirstIn, EntryOf, InOrder
<1> QED BY <1>5, <1>6

\* A prefix that was made has at each place what the first path has there, with its
\* references rewritten, and every difference that was passed over is reported.
THEOREM PrefixStaysExact == PrefixSpec => [](PrefixExact /\ LossesReported)
<1>1. PrefixInit => PrefixInv
  BY PrefixInitInv
<1>2. PrefixInv /\ [PrefixNext]_prefixVars => PrefixInv'
  BY PrefixStepInv
<1>3. PrefixInv => PrefixExact /\ LossesReported
  BY PrefixExactFollows
<1> QED BY <1>1, <1>2, <1>3, PTL DEF PrefixSpec

=============================================================================
