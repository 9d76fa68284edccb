-------------------------- MODULE PublisherProofs --------------------------
(***************************************************************************)
(* The binary cache publisher, for any roots, closures, batches and        *)
(* rotations, and any number of failures, kills and evictions.             *)
(***************************************************************************)
EXTENDS CachePublisher, FunctionTheorems, FiniteSetTheorems, TLAPS

-----------------------------------------------------------------------------
\* Rotations: places in them stay different from each other.

\* A finite set has as many places ahead of one member as ahead of no other.
LEMMA AheadGrows ==
  ASSUME NEW D, NEW turn \in [D -> Nat], NEW S \in SUBSET D, IsFiniteSet(S),
         NEW x \in S
  PROVE  /\ Ahead(turn, S, x) \in Nat /\ Ahead(turn, S, x) < Cardinality(S)
         /\ \A y \in S : turn[x] < turn[y] => Ahead(turn, S, x) < Ahead(turn, S, y)
<1> DEFINE A(z) == {y \in S : turn[y] < turn[z]}
<1>1. \A z \in S : IsFiniteSet(A(z)) /\ Cardinality(A(z)) \in Nat
  BY FS_Subset, FS_CardinalityType
<1>2. Cardinality(A(x)) < Cardinality(S)
  <2>1. x \in S /\ x \notin A(x) /\ A(x) \in SUBSET S
    OBVIOUS
  <2>2. Cardinality(A(x)) <= Cardinality(S) /\ (Cardinality(S) = Cardinality(A(x)) => S = A(x))
    BY <2>1, FS_Subset
  <2>3. Cardinality(S) \in Nat
    BY FS_CardinalityType
  <2> HIDE DEF A
  <2> QED BY <1>1, <2>1, <2>2, <2>3
<1>3. ASSUME NEW y \in S, turn[x] < turn[y]
      PROVE  Cardinality(A(x)) < Cardinality(A(y))
  <2>1. A(x) \in SUBSET A(y) /\ x \in A(y) /\ x \notin A(x)
    BY <1>3
  <2>2. Cardinality(A(x)) <= Cardinality(A(y)) /\ (Cardinality(A(y)) = Cardinality(A(x)) => A(y) = A(x))
    BY <1>1, <2>1, FS_Subset
  <2> HIDE DEF A
  <2> QED BY <1>1, <2>1, <2>2
<1> QED BY <1>1, <1>2, <1>3 DEF Ahead

\* Those whose turn it was come last, the others keep their order.
LEMMA RotationKept ==
  ASSUME NEW D, IsFiniteSet(D), NEW turn \in Injection(D, Nat), NEW T \in SUBSET D
  PROVE  Turned(turn, T) \in Injection(D, Nat)
<1> DEFINE others == D \ T
           new == Turned(turn, T)
<1>1. turn \in [D -> Nat] /\ \A x, y \in D : turn[x] = turn[y] => x = y
  BY DEF Injection, IsInjective
<1>2. IsFiniteSet(T) /\ IsFiniteSet(others) /\ Cardinality(others) \in Nat
  BY FS_Subset, FS_Difference, FS_CardinalityType
<1>3. /\ DOMAIN new = D
      /\ \A x \in T : new[x] = Cardinality(others) + Ahead(turn, T, x)
      /\ \A x \in others : new[x] = Ahead(turn, others, x)
  BY <1>1 DEF Turned
<1>4. \A x \in T : Ahead(turn, T, x) \in Nat
  BY <1>1, <1>2, AheadGrows
<1>5. \A x \in others : Ahead(turn, others, x) \in Nat /\ Ahead(turn, others, x) < Cardinality(others)
  BY <1>1, <1>2, AheadGrows
<1>6. \A x, y \in T : turn[x] < turn[y] => Ahead(turn, T, x) < Ahead(turn, T, y)
  BY <1>1, <1>2, AheadGrows
<1>7. \A x, y \in others : turn[x] < turn[y] => Ahead(turn, others, x) < Ahead(turn, others, y)
  BY <1>1, <1>2, AheadGrows
<1>8. ASSUME NEW x \in D, NEW y \in D, x # y
      PROVE  turn[x] < turn[y] \/ turn[y] < turn[x]
  BY <1>1, <1>8
<1>9. new \in [D -> Nat]
  <2>1. new = [x \in D |-> new[x]]
    BY <1>1 DEF Turned
  <2> HIDE DEF new
  <2>2. \A x \in D : new[x] \in Nat
    BY <1>2, <1>3, <1>4, <1>5
  <2> QED BY <2>1, <2>2
<1> HIDE DEF new
<1>10. ASSUME NEW x \in D, NEW y \in D, x # y
       PROVE  new[x] # new[y]
  <2>1. CASE x \in T /\ y \in T
    BY <2>1, <1>2, <1>3, <1>4, <1>6, <1>8, <1>10
  <2>2. CASE x \in others /\ y \in others
    BY <2>2, <1>3, <1>5, <1>7, <1>8, <1>10, SMTT(30)
  <2>3. CASE x \in T /\ y \in others
    BY <2>3, <1>2, <1>3, <1>4, <1>5
  <2>4. CASE x \in others /\ y \in T
    BY <2>4, <1>2, <1>3, <1>4, <1>5
  <2> QED BY <2>1, <2>2, <2>3, <2>4
<1> QED BY <1>9, <1>10 DEF Injection, IsInjective, new

\* There are finitely many roots and paths.
LEMMA RootsFinite == IsFiniteSet(Root) /\ IsFiniteSet(Path)
<1>1. Order \in [1..Len(Order) -> Root] /\ Len(Order) \in Nat
  BY PublisherAssumption DEF Root, ToSet
<1>2. Order \in Surjection(1..Len(Order), Root)
  BY <1>1 DEF Surjection, Root, ToSet
<1>3. IsFiniteSet(Root)
  BY <1>1, <1>2, FS_Interval, FS_Surjection
<1> DEFINE closures == {Closure[r] : r \in Root}
           f == [r \in Root |-> Closure[r]]
<1>4. f \in Surjection(Root, closures)
  BY DEF Surjection
<1>5. IsFiniteSet(closures)
  BY <1>3, <1>4, FS_Surjection
<1>6. \A T \in closures : IsFiniteSet(T)
  BY PublisherAssumption DEF Root
<1>7. IsFiniteSet(UNION closures)
  BY <1>5, <1>6, FS_UNION
<1> QED BY <1>3, <1>7 DEF Path

-----------------------------------------------------------------------------
\* The database: an artifact that an earlier version queued is still observed
\* when the first run starts, and is dropped then.
ArtifactsDropped ==
  \A r \in DOMAIN outputs \cap SwaOnly :
    run.pc = "off" /\ r \in available /\ outputs[r].published = "never"

\* What the push command has ended well on got there.
PushedAll == run.pc = "done" => Wanted \subseteq cache \cup evicted

PublisherInv ==
  TypeOK /\ ArtifactsDropped /\ PushedAll /\ ReceiptsEarned /\ ArtifactsStayOut

\* No run has begun, and nothing is in the cache that was not there.
LEMMA PublisherInit == Init => PublisherInv
<1> SUFFICES ASSUME Init PROVE PublisherInv
  OBVIOUS
<1> PICK old \in SUBSET (Early \cap SwaOnly) : outputs = [r \in old |-> Fresh]
  BY DEF Init
<1>1. old \subseteq Root /\ Early \subseteq Root
  BY PublisherAssumption DEF Root
<1>2. rootTurn \in Injection(Root, Nat)
  <2>1. \A r \in Root : IndexOf(r) \in DOMAIN Order /\ Order[IndexOf(r)] = r
    BY DEF Root, ToSet, IndexOf
  <2>2. DOMAIN Order \subseteq Nat
    BY PublisherAssumption
  <2> QED BY <2>1, <2>2 DEF Init, Injection, IsInjective
<1>3. pathTurn \in Injection(Path, Nat)
  <2>1. ExistsBijection(1..Cardinality(Path), Path) /\ Cardinality(Path) \in Nat
    BY RootsFinite, FS_CardinalityType
  <2>2. ExistsBijection(Path, 1..Cardinality(Path))
    BY <2>1, Fun_ExistsBijSymmetric
  <2>3. Injection(Path, 1..Cardinality(Path)) # {}
    BY <2>2 DEF ExistsBijection, Bijection
  <2>4. pathTurn \in Injection(Path, 1..Cardinality(Path))
    BY <2>3 DEF Init
  <2>5. 1..Cardinality(Path) \subseteq Nat
    BY <2>1
  <2> QED BY <2>4, <2>5 DEF Injection
<1>4. \A n \in Name : deployed[n] \in DOMAIN Extra[n]
  <2>1. \A n \in Name : 1 \in DOMAIN Extra[n]
    BY PublisherAssumption DEF Name
  <2> QED BY <2>1 DEF Init
<1>5. TypeOK
  <2>1. Fresh \in Row
    BY PublisherAssumption DEF Fresh, Row
  <2>2. \A r \in DOMAIN outputs : outputs[r] \in Row
    BY <2>1
  <2>3. run \in [pc : {"off", "verify", "pick", "push", "failed", "done"},
                batch : SUBSET DOMAIN outputs, left : 0..Batches]
    BY PublisherAssumption DEF Init, Off
  <2>4. available \subseteq Root /\ DOMAIN outputs \subseteq Root /\ cache \cap evicted = {}
    BY <1>1 DEF Init
  <2>5. \A n \in DOMAIN current : current[n] \in Root
    BY DEF Init
  <2> QED BY <1>2, <1>3, <1>4, <2>2, <2>3, <2>4, <2>5 DEF TypeOK
<1>6. PushedAll /\ ArtifactsStayOut
  BY DEF Init, Off, PushedAll, ArtifactsStayOut
<1>7. ArtifactsDropped /\ ReceiptsEarned
  BY DEF Init, Off, Fresh, ArtifactsDropped, ReceiptsEarned, Published
<1> QED BY <1>5, <1>6, <1>7 DEF PublisherInv

\* Min of two numbers is at most the first.
LEMMA MinOfTwo ==
  ASSUME NEW a \in Nat, NEW b \in Nat
  PROVE  Min({a, b}) \in 0..a
<1>1. \E x \in {a, b} : \A y \in {a, b} : x <= y
  OBVIOUS
<1>2. Min({a, b}) \in {a, b} /\ \A y \in {a, b} : Min({a, b}) <= y
  BY <1>1 DEF Min
<1> QED BY <1>2

\* The newest output of a name is a root.
LEMMA NewestIsRoot == TypeOK => \A n \in Name : Newest(n) \in Root
BY PublisherAssumption DEF TypeOK, Newest, Name, Root

\* A run begins: what it queues are roots and no artifacts.
LEMMA StartInv ==
  ASSUME PublisherInv, NEW again \in SUBSET Root, Start(again)
  PROVE  PublisherInv'
<1> DEFINE named == available \cup {Newest(n) : n \in Name} \cup again
           queued == Queued(named)
           kept == {r \in DOMAIN outputs : r \notin named \cap SwaOnly \/ outputs[r].published # "never"}
           extra == {n \in Name : Newest(n) \notin SwaOnly}
<1>1. /\ outputs' = [r \in kept \cup queued |->
                       IF r \in again \/ r \notin kept THEN Fresh ELSE outputs[r]]
      /\ run' = [Off EXCEPT !.pc = "verify", !.left = Batches]
      /\ UNCHANGED <<available, deployed, rootTurn, pathTurn, cache, evicted, evictions>>
  BY DEF Start
<1>2. queued \subseteq Root /\ queued \cap SwaOnly = {}
  <2>1. named \subseteq Root
    BY NewestIsRoot DEF PublisherInv, TypeOK
  <2> QED BY <2>1, PublisherAssumption DEF Queued, Root
<1>3. kept \cap SwaOnly = {}
  BY DEF PublisherInv, ArtifactsDropped
<1> HIDE DEF queued, kept
<1>4. kept \subseteq DOMAIN outputs
  BY DEF kept
<1>5. run'.pc = "verify" /\ run'.batch = {}
  BY <1>1 DEF Off
<1>6. \A r \in DOMAIN outputs' : outputs'[r] = Fresh \/ (r \in DOMAIN outputs /\ outputs'[r] = outputs[r])
  BY <1>1, <1>4
<1>7. DOMAIN outputs' = kept \cup queued
  BY <1>1
<1>8. \A n \in DOMAIN current' : current'[n] \in Root
  <2>1. current' = [n \in DOMAIN current \cup extra \cup {NameOf(r) : r \in again} |->
                       IF \E r \in again : NameOf(r) = n
                       THEN CHOOSE r \in again : NameOf(r) = n
                       ELSE IF n \in extra THEN Newest(n) ELSE current[n]]
    BY DEF Start
  <2>2. TAKE n \in DOMAIN current'
  <2>3. CASE \E r \in again : NameOf(r) = n
    <3>1. (CHOOSE r \in again : NameOf(r) = n) \in again
      BY <2>3
    <3> QED BY <2>1, <2>3, <3>1
  <2>4. CASE (~\E r \in again : NameOf(r) = n) /\ n \in extra
    <3>1. current'[n] = Newest(n)
      BY <2>1, <2>4
    <3> QED BY <2>4, <3>1, NewestIsRoot DEF PublisherInv
  <2>5. CASE (~\E r \in again : NameOf(r) = n) /\ n \notin extra
    <3>1. n \in DOMAIN current
      BY <2>1, <2>5
    <3>2. current'[n] = current[n]
      BY <2>1, <2>5
    <3> QED BY <3>1, <3>2 DEF PublisherInv, TypeOK
  <2> QED BY <2>3, <2>4, <2>5
<1>9. TypeOK'
  <2>1. DOMAIN outputs' \subseteq Root
    BY <1>2, <1>4, <1>7 DEF PublisherInv, TypeOK
  <2>0. Fresh \in Row
    BY PublisherAssumption DEF Fresh, Row
  <2>2. \A r \in DOMAIN outputs' : outputs'[r] \in Row
    BY <1>6, <2>0 DEF PublisherInv, TypeOK
  <2>3. run' \in [pc : {"off", "verify", "pick", "push", "failed", "done"},
                 batch : SUBSET DOMAIN outputs', left : 0..Batches]
    <3>1. run' = [pc |-> "verify", batch |-> {}, left |-> Batches]
      BY <1>1 DEF Off
    <3>2. Batches \in 0..Batches
      BY PublisherAssumption
    <3> QED BY ONLY <3>1, <3>2
  <2> QED BY <1>1, <1>8, <2>1, <2>2, <2>3 DEF PublisherInv, TypeOK
<1>10. ArtifactsDropped' /\ PushedAll'
  BY <1>2, <1>3, <1>5, <1>7 DEF ArtifactsDropped, PushedAll
<1>11. ReceiptsEarned'
  <2>1. \A r \in Published' : r \in Published
    BY <1>6 DEF Published, Fresh
  <2> QED BY <1>1, <2>1 DEF PublisherInv, ReceiptsEarned
<1>12. ArtifactsStayOut'
  BY <1>1 DEF PublisherInv, ArtifactsStayOut
<1> QED BY <1>9, <1>10, <1>11, <1>12 DEF PublisherInv

\* A check of the cache: receipts are only withdrawn.
LEMMA VerifyInv == ASSUME PublisherInv, NEW missing, Verify(missing) PROVE PublisherInv'
<1> DEFINE roots == Turn(rootTurn, Published \ SwaOnly, VerifyRoots)
           paths == Turn(pathTurn, UNION {Closure[current[n]] : n \in DOMAIN current}, VerifyPaths)
           gone == Lost(roots, paths, missing)
<1>1. /\ run.pc = "verify"
      /\ outputs' = [r \in DOMAIN outputs |->
                       IF r \in gone THEN [outputs[r] EXCEPT !.published = "never"] ELSE outputs[r]]
      /\ rootTurn' = Turned(rootTurn, roots) /\ pathTurn' = Turned(pathTurn, paths)
      /\ run' = [run EXCEPT !.pc = "pick"]
      /\ UNCHANGED <<available, deployed, current, cache, evicted, evictions>>
  BY DEF Verify
<1>2. roots \subseteq Root /\ paths \subseteq Path
  <2>1. Published \subseteq Root
    BY DEF PublisherInv, TypeOK, Published
  <2>2. \A n \in DOMAIN current : current[n] \in Root
    BY DEF PublisherInv, TypeOK
  <2> QED BY <2>1, <2>2 DEF Turn, Path
<1> HIDE DEF roots, paths, gone
<1>3. rootTurn' \in Injection(Root, Nat) /\ pathTurn' \in Injection(Path, Nat)
  BY <1>1, <1>2, RootsFinite, RotationKept DEF PublisherInv, TypeOK
<1>4. /\ DOMAIN outputs' = DOMAIN outputs
      /\ \A r \in DOMAIN outputs : outputs'[r] \in {outputs[r], [outputs[r] EXCEPT !.published = "never"]}
  BY <1>1
<1>5. TypeOK'
  <2>1. \A r \in DOMAIN outputs' : outputs'[r] \in Row
    BY <1>4 DEF PublisherInv, TypeOK, Row
  <2>2. run' \in [pc : {"off", "verify", "pick", "push", "failed", "done"},
                 batch : SUBSET DOMAIN outputs', left : 0..Batches]
    BY <1>1, <1>4 DEF PublisherInv, TypeOK
  <2> QED BY <1>1, <1>3, <1>4, <2>1, <2>2 DEF PublisherInv, TypeOK
<1>6. ArtifactsDropped' /\ PushedAll'
  BY <1>1, <1>4 DEF PublisherInv, TypeOK, ArtifactsDropped, PushedAll
<1>7. ReceiptsEarned'
  <2>1. \A r \in Published' : r \in Published
    BY <1>4 DEF Published, PublisherInv, TypeOK, Row
  <2> QED BY <1>1, <2>1 DEF PublisherInv, ReceiptsEarned
<1> QED BY <1>1, <1>5, <1>6, <1>7 DEF PublisherInv, ArtifactsStayOut

\* The queue: a batch is taken from it while no artifact is in it.
LEMMA BatchIsQueued == Batch \subseteq Due
BY DEF Batch

\* A run picks the next batch, or ends.
LEMMA PickInv == ASSUME PublisherInv, Pick PROVE PublisherInv'
<1>1. run.pc = "pick" /\ UNCHANGED <<available, deployed, outputs, current, rootTurn, pathTurn, cache, evicted>>
  BY DEF Pick
<1>2. run' = Off \/ (run.left # 0 /\ run' = [pc |-> "push", batch |-> Batch, left |-> run.left - 1])
  BY DEF Pick
<1>3. Batch \subseteq DOMAIN outputs
  BY BatchIsQueued DEF Due
<1>4. run' \in [pc : {"off", "verify", "pick", "push", "failed", "done"},
               batch : SUBSET DOMAIN outputs', left : 0..Batches]
  <2>1. run.left \in 0..Batches /\ Batches \in Nat
    BY PublisherAssumption DEF PublisherInv, TypeOK
  <2>2. run.left # 0 => run.left - 1 \in 0..Batches
    BY <2>1
  <2>3. 0 \in 0..Batches
    BY <2>1
  <2> QED BY <1>1, <1>2, <1>3, <2>2, <2>3 DEF Off
<1>5. TypeOK'
  BY <1>1, <1>4 DEF PublisherInv, TypeOK
<1>6. ArtifactsDropped' /\ PushedAll'
  BY <1>1, <1>2 DEF PublisherInv, ArtifactsDropped, PushedAll, Off
<1>7. ReceiptsEarned' /\ ArtifactsStayOut'
  BY <1>1 DEF PublisherInv, ReceiptsEarned, ArtifactsStayOut, Published
<1> QED BY <1>5, <1>6, <1>7 DEF PublisherInv

\* The push command: what it copies is of no artifact.
LEMMA CopyInv == ASSUME PublisherInv, Copy PROVE PublisherInv'
<1>1. PICK p \in Wanted \ cache : cache' = cache \cup {p} /\ evicted' = evicted \ {p}
  BY DEF Copy
<1>2. run.pc = "push" /\ UNCHANGED <<available, deployed, outputs, current, rootTurn, pathTurn, run>>
  BY DEF Copy
<1>3. p \notin SwaOnly
  <2>1. PICK r \in run.batch : p \in Closure[r]
    BY DEF Wanted
  <2>2. r \in DOMAIN outputs /\ r \in Root
    BY DEF PublisherInv, TypeOK
  <2>3. r \notin SwaOnly
    BY <1>2, <2>2 DEF PublisherInv, ArtifactsDropped
  <2> QED BY <2>1, <2>2, <2>3, PublisherAssumption DEF Root
<1>4. TypeOK'
  BY <1>1, <1>2 DEF PublisherInv, TypeOK
<1>5. cache \cup evicted \subseteq cache' \cup evicted'
  BY <1>1
<1>6. ArtifactsDropped' /\ PushedAll' /\ ReceiptsEarned'
  BY <1>2, <1>5 DEF PublisherInv, ArtifactsDropped, PushedAll, ReceiptsEarned, Published, Wanted
<1>7. ArtifactsStayOut'
  BY <1>1, <1>3 DEF PublisherInv, ArtifactsStayOut
<1> QED BY <1>4, <1>6, <1>7 DEF PublisherInv

\* A receipt is written for a batch that is there.
LEMMA RecordInv == ASSUME PublisherInv, Record PROVE PublisherInv'
<1> DEFINE done == run.pc = "done"
           tried(r) == [published |-> IF run.pc = "done" THEN "recent" ELSE outputs[r].published,
                        attempts |-> Min({MaxAttempts, outputs[r].attempts + 1}),
                        ready |-> run.pc = "done"]
<1>1. /\ run.pc \in {"done", "failed"}
      /\ outputs' = [r \in DOMAIN outputs |-> IF r \notin run.batch THEN outputs[r] ELSE tried(r)]
      /\ run' = [run EXCEPT !.pc = "pick", !.batch = {}]
      /\ UNCHANGED <<available, deployed, current, rootTurn, pathTurn, cache, evicted>>
  BY DEF Record
<1>2. \A r \in DOMAIN outputs : tried(r) \in Row
  <2> TAKE r \in DOMAIN outputs
  <2>1. outputs[r].published \in {"never", "recent", "old"} /\ outputs[r].attempts \in Nat
    BY PublisherAssumption DEF PublisherInv, TypeOK, Row
  <2>2. Min({MaxAttempts, outputs[r].attempts + 1}) \in 0..MaxAttempts
    <3>1. MaxAttempts \in Nat /\ outputs[r].attempts + 1 \in Nat
      BY <2>1, PublisherAssumption
    <3> QED BY <3>1, MinOfTwo
  <2>3. (run.pc = "done") \in BOOLEAN
    OBVIOUS
  <2> QED BY <2>1, <2>2, <2>3 DEF Row
<1> HIDE DEF tried
<1>3. TypeOK'
  <2>1. \A r \in DOMAIN outputs' : outputs'[r] \in Row
    BY <1>1, <1>2 DEF PublisherInv, TypeOK
  <2>2. run' \in [pc : {"off", "verify", "pick", "push", "failed", "done"},
                 batch : SUBSET DOMAIN outputs', left : 0..Batches]
    BY <1>1 DEF PublisherInv, TypeOK
  <2>3. DOMAIN outputs' = DOMAIN outputs
    BY <1>1
  <2> QED BY <1>1, <2>1, <2>2, <2>3 DEF PublisherInv, TypeOK
<1>4. ArtifactsDropped' /\ PushedAll'
  <2>1. run'.pc = "pick" /\ DOMAIN outputs' = DOMAIN outputs
    BY <1>1 DEF PublisherInv, TypeOK
  <2> QED BY <1>1, <2>1 DEF PublisherInv, ArtifactsDropped, PushedAll
<1>5. ReceiptsEarned'
  <2> SUFFICES ASSUME NEW r \in Published' PROVE Closure[r] \subseteq cache \cup evicted
    BY <1>1 DEF ReceiptsEarned
  <2>1. r \in DOMAIN outputs /\ outputs'[r].published # "never"
    BY <1>1 DEF Published
  <2>2. CASE r \notin run.batch \/ run.pc # "done"
    <3>1. outputs'[r].published = outputs[r].published
      BY <1>1, <2>1, <2>2 DEF tried
    <3> QED BY <2>1, <3>1 DEF PublisherInv, ReceiptsEarned, Published
  <2>3. CASE r \in run.batch /\ run.pc = "done"
    BY <2>3 DEF PublisherInv, PushedAll, Wanted
  <2> QED BY <2>2, <2>3
<1>6. ArtifactsStayOut'
  BY <1>1 DEF PublisherInv, ArtifactsStayOut
<1> QED BY <1>3, <1>4, <1>5, <1>6 DEF PublisherInv

\* Every step keeps the invariant.
LEMMA PublisherStep == PublisherInv /\ [Next]_vars => PublisherInv'
<1> SUFFICES ASSUME PublisherInv, [Next]_vars PROVE PublisherInv'
  OBVIOUS
<1>1. ASSUME NEW r \in Root, Observe(r) PROVE PublisherInv'
  BY <1>1 DEF Observe, PublisherInv, TypeOK, ArtifactsDropped, PushedAll, Wanted,
     ReceiptsEarned, ArtifactsStayOut, Published
<1>2. ASSUME NEW n \in Name, Deploy(n) PROVE PublisherInv'
  <2>1. TypeOK'
    <3>1. \A m \in Name : deployed'[m] \in DOMAIN Extra[m]
      <4> TAKE m \in Name
      <4>1. deployed[m] \in DOMAIN Extra[m] /\ DOMAIN Extra[m] = 1..Len(Extra[m]) /\ Len(Extra[m]) \in Nat
        BY PublisherAssumption DEF PublisherInv, TypeOK, Name
      <4>2. deployed'[m] = deployed[m] \/ (m = n /\ deployed'[m] = deployed[m] + 1)
        BY <1>2 DEF Deploy
      <4> QED BY <1>2, <4>1, <4>2 DEF Deploy
    <3> QED BY <1>2, <3>1 DEF Deploy, PublisherInv, TypeOK
  <2> QED BY <1>2, <2>1 DEF Deploy, PublisherInv, ArtifactsDropped, PushedAll, Wanted,
     ReceiptsEarned, ArtifactsStayOut, Published
<1>3. ASSUME NEW p \in Path, Evict(p) PROVE PublisherInv'
  <2>1. cache' \cup evicted' = cache \cup evicted /\ cache' \subseteq cache /\ cache' \cap evicted' = {}
    BY <1>3 DEF Evict, PublisherInv, TypeOK
  <2> QED BY <1>3, <2>1 DEF Evict, PublisherInv, TypeOK, ArtifactsDropped, PushedAll, Wanted,
     ReceiptsEarned, ArtifactsStayOut, Published
<1>4. ASSUME NEW r \in Root, Elapse(r) \/ Age(r) PROVE PublisherInv'
  <2>1. /\ r \in DOMAIN outputs /\ UNCHANGED <<available, deployed, current, rootTurn, pathTurn, cache, evicted, run>>
        /\ DOMAIN outputs' = DOMAIN outputs
        /\ \A s \in DOMAIN outputs : s # r => outputs'[s] = outputs[s]
    BY <1>4 DEF Elapse, Age
  <2>2. outputs[r] \in Row
    BY <2>1 DEF PublisherInv, TypeOK
  <2>3. outputs'[r] \in Row /\ (outputs'[r].published = "never" <=> outputs[r].published = "never")
    <3>1. CASE Elapse(r)
      BY <2>1, <2>2, <3>1 DEF Elapse, Row
    <3>2. CASE Age(r)
      BY <2>1, <2>2, <3>2 DEF Age, Row
    <3> QED BY <1>4, <3>1, <3>2
  <2>4. \A s \in DOMAIN outputs :
          outputs'[s] \in Row /\ (outputs'[s].published = "never" <=> outputs[s].published = "never")
    BY <2>1, <2>3 DEF PublisherInv, TypeOK
  <2>5. TypeOK'
    BY <2>1, <2>4 DEF PublisherInv, TypeOK
  <2>6. Published' = Published
    BY <2>1, <2>4 DEF Published
  <2> QED BY <2>1, <2>4, <2>5, <2>6 DEF PublisherInv, ArtifactsDropped, PushedAll, Wanted,
     ReceiptsEarned, ArtifactsStayOut
<1>5. ASSUME Copied \/ Fail \/ Kill \/ UNCHANGED vars PROVE PublisherInv'
  <2>1. /\ UNCHANGED <<available, deployed, outputs, current, rootTurn, pathTurn, cache, evicted>>
        /\ \/ run.pc # "off" /\ run' = Off
           \/ run' = run
           \/ run.pc = "push" /\ run' = [run EXCEPT !.pc = "failed"]
           \/ run.pc = "push" /\ run' = [run EXCEPT !.pc = "done"] /\ Wanted \subseteq cache
    BY <1>5 DEF Copied, Fail, Kill, vars
  <2>2. TypeOK'
    BY <2>1, PublisherAssumption DEF PublisherInv, TypeOK, Off
  <2>3. ArtifactsDropped'
    BY <2>1 DEF PublisherInv, TypeOK, ArtifactsDropped, Off
  <2>4. PushedAll'
    BY <2>1 DEF PublisherInv, TypeOK, PushedAll, Wanted, Off
  <2> QED BY <2>1, <2>2, <2>3, <2>4 DEF PublisherInv, ReceiptsEarned, ArtifactsStayOut, Published
<1>6. ASSUME NEW r \in Root, Start({r}) PROVE PublisherInv'
  BY <1>6, StartInv
<1>7. ASSUME Start({}) PROVE PublisherInv'
  BY <1>7, StartInv
<1> QED BY <1>1, <1>2, <1>3, <1>4, <1>5, <1>6, <1>7, VerifyInv, PickInv, CopyInv, RecordInv DEF Next

\* A receipt is only there for a closure that got to the cache, and no release
\* artifact is ever pushed, for any roots, closures and bounds, whatever fails, is
\* killed or evicted (the receipts that scripts/publish-cache.py keeps).
THEOREM PushesStaySound == Spec => []PushesSound
<1>1. PublisherInv => PushesSound
  BY DEF PublisherInv, PushesSound
<1> QED BY <1>1, PublisherInit, PublisherStep, PTL DEF Spec
=============================================================================
