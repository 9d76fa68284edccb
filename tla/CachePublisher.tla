--------------------------- MODULE CachePublisher ---------------------------
(***************************************************************************)
(* The binary cache publisher (scripts/publish-cache.py): runs that push   *)
(* the closures of observed outputs to a cache, keep a receipt for every   *)
(* root that got there, retry with a delay what failed, and look in turn   *)
(* for paths the cache has evicted since.                                  *)
(*                                                                         *)
(* The rotation of the checks is the place of each in the order in which   *)
(* they come round, the least recently checked first; a retry delay is     *)
(* over or not.  Artifacts are in no closure but their own: nothing that   *)
(* is pushed refers to one.                                                *)
(***************************************************************************)
EXTENDS Naturals, Sequences, FiniteSets, SequencesExt, FiniteSetsExt, Functions

CONSTANTS
  Order,            \* the roots in the order of (discovered, path)
  Closure,          \* paths of a root's closure, by root
  Early,            \* roots that are there from the start
  Extra,            \* extra roots by name, the older one first
  Poison,           \* roots whose push always fails
  SwaOnly,          \* release artifacts that do not go to Cachix
  References,       \* roots published in the place of such an artifact
  BatchSize, Batches, VerifyRoots, VerifyPaths,   \* arguments of a run
  MaxAttempts,      \* where the counter of attempts saturates
  MaxEvictions, MaxFailures   \* bounds on the environment

ASSUME PublisherAssumption ==
  /\ Poison \cup Early \cup References \subseteq ToSet(Order)
  /\ Order \in Seq(ToSet(Order)) /\ IsInjective(Order)
  /\ SwaOnly \subseteq ToSet(Order) /\ References \cap SwaOnly = {}
  /\ \A r \in ToSet(Order) : IsFiniteSet(Closure[r]) /\ Closure[r] \cap SwaOnly \subseteq {r}
  /\ \A n \in DOMAIN Extra : Extra[n] \in Seq(ToSet(Order)) \ {<<>>}
  /\ {BatchSize, Batches, VerifyRoots, VerifyPaths, MaxAttempts} \subseteq Nat \ {0}
  /\ {MaxEvictions, MaxFailures} \subseteq Nat

VARIABLES
  available,    \* outputs the campaign has observed
  deployed,     \* how many of each name's extra roots have been deployed
  outputs,      \* the table outputs, by root
  current,      \* the table current: root by name
  rootTurn, pathTurn,   \* columns checked, as places in the rotation
  cache,        \* paths the cache has
  evicted,      \* paths it had once and has lost
  run,          \* the run in progress
  evictions, failures

vars == <<available, deployed, outputs, current, rootTurn, pathTurn, cache,
          evicted, run, evictions, failures>>

Root == ToSet(Order)
Path == UNION {Closure[r] : r \in Root}
Name == DOMAIN Extra
IndexOf(r) == CHOOSE i \in DOMAIN Order : Order[i] = r
Off == [pc |-> "off", batch |-> {}, left |-> 0]
Fresh == [published |-> "never", attempts |-> 0, ready |-> TRUE]

Row == [published : {"never", "recent", "old"}, attempts : 0..MaxAttempts, ready : BOOLEAN]

TypeOK ==
  /\ available \subseteq Root
  /\ DOMAIN outputs \subseteq Root
  /\ \A r \in DOMAIN outputs : outputs[r] \in Row
  /\ rootTurn \in Injection(Root, Nat) /\ pathTurn \in Injection(Path, Nat)
  /\ \A n \in Name : deployed[n] \in DOMAIN Extra[n]
  /\ \A n \in DOMAIN current : current[n] \in Root
  /\ cache \cap evicted = {}
  /\ run \in [pc : {"off", "verify", "pick", "push", "failed", "done"},
             batch : SUBSET DOMAIN outputs, left : 0..Batches]

\* The database is new, or has artifacts that were queued before they were
\* kept out.
Init ==
  /\ available = Early /\ deployed = [n \in Name |-> 1]
  /\ \E old \in SUBSET (Early \cap SwaOnly) : outputs = [r \in old |-> Fresh]
  /\ current = <<>>
  /\ rootTurn = [r \in Root |-> IndexOf(r)]
  /\ pathTurn = CHOOSE turn \in Injection(Path, 1..Cardinality(Path)) : TRUE
  /\ cache = {} /\ evicted = {}
  /\ run = Off /\ evictions = 0 /\ failures = 0

-----------------------------------------------------------------------------
(* The environment.                                                        *)

\* The campaign realizes an output.  The toolchains are none of its outputs: the
\* deployment names them.
Observe(r) ==
  /\ r \notin available /\ \A n \in Name : r \notin ToSet(Extra[n])
  /\ available' = available \cup {r}
  /\ UNCHANGED <<deployed, outputs, current, rootTurn, pathTurn, cache, evicted, run, evictions, failures>>

Deploy(n) ==
  /\ deployed[n] < Len(Extra[n])
  /\ deployed' = [deployed EXCEPT ![n] = @ + 1]
  /\ UNCHANGED <<available, outputs, current, rootTurn, pathTurn, cache, evicted, run, evictions, failures>>

Evict(p) ==
  /\ p \in cache /\ evictions < MaxEvictions
  /\ cache' = cache \ {p} /\ evicted' = evicted \cup {p}
  /\ evictions' = evictions + 1
  /\ UNCHANGED <<available, deployed, outputs, current, rootTurn, pathTurn, run, failures>>

\* Time passes: a retry comes due, a receipt grows older than max_age.
Elapse(r) ==
  /\ r \in DOMAIN outputs /\ ~outputs[r].ready
  /\ outputs' = [outputs EXCEPT ![r].ready = TRUE]
  /\ UNCHANGED <<available, deployed, current, rootTurn, pathTurn, cache, evicted, run, evictions, failures>>
Age(r) ==
  /\ r \in DOMAIN outputs /\ outputs[r].published = "recent"
  /\ outputs' = [outputs EXCEPT ![r].published = "old"]
  /\ UNCHANGED <<available, deployed, current, rootTurn, pathTurn, cache, evicted, run, evictions, failures>>

-----------------------------------------------------------------------------
(* A run, under a lock that it does not wait for.                          *)

Newest(n) == Extra[n][deployed[n]]
NameOf(r) == IF \E n \in Name : r \in ToSet(Extra[n])
             THEN CHOOSE n \in Name : r \in ToSet(Extra[n]) ELSE r

\* What is queued of the roots a run has heard of: the references of an
\* artifact in its place.
Queued(named) ==
  (named \ SwaOnly) \cup (IF named \cap SwaOnly = {} THEN {} ELSE References)

\* main, up to the pushes: what is observed or named is queued, pending
\* artifacts are dropped, and the newest root of each name is the current one.
\* A root that an operator names to be sent again is current for this run, and
\* stays so if no deployment has its name.
Start(again) ==
  LET named == available \cup {Newest(n) : n \in Name} \cup again
      queued == Queued(named)
      kept == {r \in DOMAIN outputs : r \notin named \cap SwaOnly \/ outputs[r].published # "never"}
      extra == {n \in Name : Newest(n) \notin SwaOnly}
  IN  /\ run.pc = "off" /\ again \cap SwaOnly = {}
      /\ outputs' = [r \in kept \cup queued |->
                       IF r \in again \/ r \notin kept THEN Fresh ELSE outputs[r]]
      /\ again # {} => failures < MaxFailures
      /\ failures' = IF again = {} THEN failures ELSE failures + 1
      /\ current' = [n \in DOMAIN current \cup extra \cup {NameOf(r) : r \in again} |->
                       IF \E r \in again : NameOf(r) = n
                       THEN CHOOSE r \in again : NameOf(r) = n
                       ELSE IF n \in extra THEN Newest(n) ELSE current[n]]
      /\ run' = [Off EXCEPT !.pc = "verify", !.left = Batches]
      /\ UNCHANGED <<available, deployed, rootTurn, pathTurn, cache, evicted, evictions>>

Published == {r \in DOMAIN outputs : outputs[r].published # "never"}

\* The n members of S that come first in a rotation, and the rotation once the
\* members of T have been looked at: they go to its end.
Ahead(turn, S, x) == Cardinality({y \in S : turn[y] < turn[x]})
Turn(turn, S, n) == {x \in S : Ahead(turn, S, x) < n}
Turned(turn, T) ==
  LET others == DOMAIN turn \ T
  IN  [x \in DOMAIN turn |->
         IF x \in T THEN Cardinality(others) + Ahead(turn, T, x) ELSE Ahead(turn, others, x)]

\* The current root that is answerable for a path of its closure.
Owner(p) ==
  LET owners == {current[n] : n \in {m \in DOMAIN current : p \in Closure[current[m]]}}
  IN  CHOOSE r \in owners : TRUE

\* Receipts to clear: of recent roots that are gone, and of the owners of gone
\* paths.  A root's own path is named like the root.
Lost(roots, paths, unknown) ==
  {r \in roots \ unknown : outputs[r].published = "recent" /\ r \notin cache}
    \cup ({Owner(p) : p \in {q \in paths \ unknown : q \notin cache}} \cap Published)

\* verify: some narinfos get no answer, which counts as checked.
Verify(unknown) ==
  LET roots == Turn(rootTurn, Published \ SwaOnly, VerifyRoots)
      paths == Turn(pathTurn, UNION {Closure[current[n]] : n \in DOMAIN current}, VerifyPaths)
      lost == Lost(roots, paths, unknown)
  IN  /\ run.pc = "verify"
      /\ unknown # {} => failures < MaxFailures
      /\ failures' = IF unknown = {} THEN failures ELSE failures + 1
      /\ outputs' = [r \in DOMAIN outputs |->
                       IF r \in lost THEN [outputs[r] EXCEPT !.published = "never"] ELSE outputs[r]]
      /\ rootTurn' = Turned(rootTurn, roots) /\ pathTurn' = Turned(pathTurn, paths)
      /\ run' = [run EXCEPT !.pc = "pick"]
      /\ UNCHANGED <<available, deployed, current, cache, evicted, evictions>>

Due == {r \in DOMAIN outputs : outputs[r].published = "never" /\ outputs[r].ready}
\* ORDER BY attempts, discovered, path
Before(r, s) ==
  \/ outputs[r].attempts < outputs[s].attempts
  \/ outputs[r].attempts = outputs[s].attempts
     /\ IndexOf(r) < IndexOf(s)

\* Mutant: retries are sent together, like roots that never failed.
BatchTogether ==
  {r \in Due : Cardinality({s \in Due : Before(s, r)}) < BatchSize}
\* The first rows of the queue, or the first alone if it has been tried before.
Batch ==
  LET first == {r \in Due : \A s \in Due \ {r} : Before(r, s)}
  IN  IF \E r \in first : outputs[r].attempts > 0 THEN first
      ELSE {r \in Due : Cardinality({s \in Due : Before(s, r)}) < BatchSize}

Pick ==
  /\ run.pc = "pick"
  /\ run' = IF run.left = 0 \/ Due = {} THEN Off
            ELSE [pc |-> "push", batch |-> Batch, left |-> run.left - 1]
  /\ UNCHANGED <<available, deployed, outputs, current, rootTurn, pathTurn, cache, evicted, evictions, failures>>

Wanted == UNION {Closure[r] : r \in run.batch}

\* The push command: path by path; it ends well only when all of them are there.
Copy ==
  /\ run.pc = "push" /\ run.batch \cap Poison = {}
  /\ \E p \in Wanted \ cache : cache' = cache \cup {p} /\ evicted' = evicted \ {p}
  /\ UNCHANGED <<available, deployed, outputs, current, rootTurn, pathTurn, run, evictions, failures>>
Copied ==
  /\ run.pc = "push" /\ run.batch \cap Poison = {} /\ Wanted \subseteq cache
  /\ run' = [run EXCEPT !.pc = "done"]
  /\ UNCHANGED <<available, deployed, outputs, current, rootTurn, pathTurn, cache, evicted, evictions, failures>>
\* Mutant: an error of the push is not seen.
FailUnseen ==
  /\ run.pc = "push"
  /\ \/ run.batch \cap Poison # {} /\ UNCHANGED failures
     \/ failures < MaxFailures /\ failures' = failures + 1
  /\ run' = [run EXCEPT !.pc = "done"]
  /\ UNCHANGED <<available, deployed, outputs, current, rootTurn, pathTurn, cache, evicted, evictions>>
\* It fails for one of the roots, or for want of a network, time or disk space.
Fail ==
  /\ run.pc = "push"
  /\ \/ run.batch \cap Poison # {} /\ UNCHANGED failures
     \/ failures < MaxFailures /\ failures' = failures + 1
  /\ run' = [run EXCEPT !.pc = "failed"]
  /\ UNCHANGED <<available, deployed, outputs, current, rootTurn, pathTurn, cache, evicted, evictions>>

\* record: receipts for the whole batch, or a delay for each of its roots.
Record ==
  /\ run.pc \in {"done", "failed"}
  /\ outputs' = [r \in DOMAIN outputs |->
       IF r \notin run.batch THEN outputs[r]
       ELSE [published |-> IF run.pc = "done" THEN "recent" ELSE outputs[r].published,
             attempts |-> Min({MaxAttempts, outputs[r].attempts + 1}),
             ready |-> run.pc = "done"]]
  /\ run' = [run EXCEPT !.pc = "pick", !.batch = {}]
  /\ UNCHANGED <<available, deployed, current, rootTurn, pathTurn, cache, evicted, evictions, failures>>

\* The run is killed, before or after its receipt is written.
Kill ==
  /\ run.pc # "off" /\ failures < MaxFailures
  /\ failures' = failures + 1
  /\ run' = Off
  /\ UNCHANGED <<available, deployed, outputs, current, rootTurn, pathTurn, cache, evicted, evictions>>

-----------------------------------------------------------------------------
Step ==
  \/ Start({}) \/ Verify({}) \/ Pick \/ Copy \/ Copied \/ Record
  \/ run.batch \cap Poison # {} /\ Fail

Next ==
  \/ \E r \in Root : Observe(r) \/ Elapse(r) \/ Age(r) \/ Start({r})
  \/ \E n \in Name : Deploy(n)
  \/ \E p \in Path : Evict(p)
  \/ \E p \in Path : Verify({p})
  \/ Start({}) \/ Verify({}) \/ Pick \/ Copy \/ Copied \/ Fail \/ Record \/ Kill

\* The timer starts a run again when one has ended; a run goes on unless it is
\* killed; every output is observed and every delay ends.
Spec ==
  /\ Init /\ [][Next]_vars
  /\ WF_vars(Step)
  /\ \A r \in Root : WF_vars(Elapse(r))

-----------------------------------------------------------------------------
\* A receipt means that the whole closure got there: what is missing of it now
\* was evicted since, whatever was killed or failed half-way.
ReceiptsEarned ==
  \A r \in Published : Closure[r] \subseteq cache \cup evicted

\* A release artifact is never pushed, also when it was queued before.
ArtifactsStayOut == \A r \in SwaOnly : r \notin cache

\* "a missing path cannot keep otherwise publishable neighbors permanently
\* behind it": every root that can be pushed gets its receipt.
NeighboursGetOut ==
  <>[](DOMAIN outputs \ (Poison \cup SwaOnly) \subseteq Published)

\* What the cache has lost of the closures that machines substitute is sent
\* again, in whatever order the checks come round.
EvictedComesBack == <>[](\A n \in Name : Closure[Newest(n)] \subseteq cache)

\* Receipts are earned, and what must not be pushed is not.
PushesSound == TypeOK /\ ReceiptsEarned /\ ArtifactsStayOut

\* Everything that can be pushed gets out, and comes back when it is evicted.
CacheFills == NeighboursGetOut /\ EvictedComesBack
=============================================================================
