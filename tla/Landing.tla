------------------------------ MODULE Landing ------------------------------
(***************************************************************************)
(* How commits get to main and releases are tagged (scripts/ship,          *)
(* scripts/release) on the evidence of a fleet of workers (scripts/        *)
(* nanofil-fleet) and of the public caches.  A commit is the sequence of   *)
(* the changes it is made of, so that an ancestor is a prefix.  Landers    *)
(* race for main; workers get lost, check out what they should not, and    *)
(* report twice.  A lander runs one script at a time.                      *)
(***************************************************************************)
EXTENDS Naturals, Sequences, FiniteSets, SequencesExt

CONSTANTS
  Lander,        \* those who ship, each with a change
  ModeOf,        \* lander -> "rebase", or "exact" for the tested commit
  Relevant,      \* changes to what the Rocq model covers
  Shards,        \* shards that a receipt must have
  CheckSteps,    \* the steps of the check
  ShardSteps,    \* the split: [n |-> [i |-> steps]], for every number of shards
  JobChoices,    \* the jobs a fleet may be started with: [n, roots]
  MaxReports,    \* bound on the results of one fleet
  MaxFleets      \* bound on the fleets started

ASSUME LandingAssumption == Shards \in Nat \ {0}

VARIABLES
  main,          \* origin/main
  ship,          \* per lander: where it is, its HEAD, and the sha it is shipping
  landed,        \* pushes to main: the commit and the mode
  cachedAt,      \* commits whose foundation is in the caches
  goodAt,        \* pairs of a commit and a step or root that really passed
  fleet,         \* the fleet under way: its commit, jobs and results
  receipts,      \* results.json of all fleets
  reports, fleets,   \* how many there have been
  tagged         \* releases

landingVars ==
  <<main, ship, landed, cachedAt, goodAt, fleet, receipts, reports, fleets, tagged>>

Roots == {"rocq", "rocq-full"}
ShardJob(i, n) == [kind |-> "shard", of |-> n, name |-> i]
RootJob(r) == [kind |-> "root", of |-> 0, name |-> r]
\* run: all shards and the selected roots.
JobsOf(choice) ==
  {ShardJob(i, choice.n) : i \in 1..choice.n} \cup {RootJob(r) : r \in choice.roots}

NoResult == [rev |-> <<"none">>, status |-> "lost", ran |-> {}, listed |-> FALSE]
NoFleet == [rev |-> <<"none">>, jobs |-> {}, results |-> <<>>]
AtRest(l) == ship[l].pc \in {"begin", "stopped", "done"}

LandingInit ==
  /\ main = <<>>
  /\ ship = [l \in Lander |-> [pc |-> "begin", head |-> <<l>>, sha |-> <<>>]]
  /\ landed = {} /\ cachedAt = {<<>>} /\ goodAt = {} /\ fleet = NoFleet /\ receipts = {}
  /\ reports = 0 /\ fleets = 0 /\ tagged = {}

-----------------------------------------------------------------------------
(* The fleet.                                                              *)

\* For the commit that a lander wants to land, or for main.
StartFleet(l, sha, choice) ==
  /\ AtRest(l) /\ fleet = NoFleet /\ fleets < MaxFleets
  /\ fleet' = [rev |-> sha, jobs |-> JobsOf(choice), results |-> [j \in JobsOf(choice) |-> NoResult]]
  /\ fleets' = fleets + 1 /\ reports' = 0
  /\ UNCHANGED <<main, ship, landed, cachedAt, goodAt, receipts, tagged>>

\* What a job checks.
Checks(j) == IF j.kind = "shard" THEN ShardSteps[j.of][j.name] ELSE {j.name}

\* A worker runs a job at the commit that is checked out and sums it up: its
\* checks pass; or some do not, or time runs out, or the caches fail three times;
\* or Nix has the result already and prints nothing.
Summaries(j, at) ==
  { [rev |-> at, status |-> "pass", ran |-> Checks(j), listed |-> TRUE] }
  \cup {[rev |-> at, status |-> "fail", ran |-> ok, listed |-> TRUE] : ok \in (SUBSET Checks(j)) \ {Checks(j)}}
  \cup (IF \A s \in Checks(j) : <<at, s>> \in goodAt
        THEN {[rev |-> at, status |-> "pass", ran |-> {}, listed |-> FALSE]} ELSE {})

\* The last result line of a job is the one that counts.
RunWorker(j, at) ==
  /\ reports < MaxReports
  /\ \E r \in Summaries(j, at) :
       /\ goodAt' = goodAt \cup {<<at, s>> : s \in r.ran}
       /\ fleet' = [fleet EXCEPT !.results[j] = r]
  /\ reports' = reports + 1
  /\ UNCHANGED <<main, ship, landed, cachedAt, receipts, fleets, tagged>>

\* collect_dir, when all workers have ended or their time is up: a job without a
\* result is lost.
Collect ==
  /\ fleet # NoFleet
  /\ receipts' = receipts \cup {fleet} /\ fleet' = NoFleet /\ reports' = 0
  /\ UNCHANGED <<main, ship, landed, cachedAt, goodAt, fleets, tagged>>

\* A result of another commit is an error.
Statuses(receipt) ==
  {LET r == receipt.results[j] IN IF r.rev = receipt.rev THEN r.status ELSE "error" : j \in receipt.jobs}

\* "every shard saw the same step list, and together they ran each of its steps
\* once"
Covered(receipt) ==
  LET shards == {j \in receipt.jobs : j.kind = "shard"}
      ran(j) == receipt.results[j].ran
  IN  shards # {} =>
        /\ \A j \in shards : receipt.results[j].listed
        /\ UNION {ran(j) : j \in shards} = CheckSteps
        /\ \A j, k \in shards : j # k => ran(j) \cap ran(k) = {}

assess(receipt) == receipt.jobs # {} /\ Statuses(receipt) = {"pass"} /\ Covered(receipt)

\* verify: for this commit, with all its shards and the roots that are required.
verify(receipt, sha, required) ==
  /\ receipt.rev = sha /\ assess(receipt)
  /\ Cardinality({j \in receipt.jobs : j.kind = "shard"}) = Shards
  /\ \A j \in receipt.jobs : j.kind = "shard" => j.of = Shards
  /\ \A r \in required : RootJob(r) \in receipt.jobs

\* The changes since the common ancestor decide: those whose commits main is not
\* made of.
required_roots(base, sha) ==
  IF \E i \in DOMAIN sha : sha[i] \in Relevant /\ ~IsPrefix(SubSeq(sha, 1, i), base)
  THEN {"rocq"} ELSE {}

-----------------------------------------------------------------------------
(* Shipping.                                                               *)

\* What ci-cache-check.py exits with.
CacheStatus(sha) == {IF sha \in cachedAt THEN "cached" ELSE "missing", "error"}

Ships(l, pc) == ship' = [ship EXCEPT ![l].pc = pc]

\* Mutant: the receipt is checked for the commit that it names.
BeginStale(l) ==
  LET rebased == Append(main, l)
      at == IF ModeOf[l] = "rebase" THEN rebased ELSE ship[l].head
      tested == \E r \in receipts : verify(r, r.rev, required_roots(main, at))
  IN  /\ ship[l].pc = "begin"
      /\ IF ModeOf[l] = "rebase" \/ (tested /\ IsPrefix(main, at))
         THEN ship' = [ship EXCEPT ![l] = [pc |-> "check", head |-> at, sha |-> at]]
         ELSE Ships(l, "stopped")
      /\ UNCHANGED <<main, landed, cachedAt, goodAt, fleet, receipts, reports, fleets, tagged>>
\* An ordinary landing is rebased; an exact one needs a receipt for its HEAD, which
\* main must lead to.
BeginShip(l) ==
  LET rebased == Append(main, l)
      at == IF ModeOf[l] = "rebase" THEN rebased ELSE ship[l].head
      tested == \E r \in receipts : verify(r, at, required_roots(main, at))
  IN  /\ ship[l].pc = "begin"
      /\ IF ModeOf[l] = "rebase" \/ (tested /\ IsPrefix(main, at))
         THEN ship' = [ship EXCEPT ![l] = [pc |-> "check", head |-> at, sha |-> at]]
         ELSE Ships(l, "stopped")
      /\ UNCHANGED <<main, landed, cachedAt, goodAt, fleet, receipts, reports, fleets, tagged>>

\* What is missing is built and queued with the publisher, where there is one.
CheckCache(l) ==
  /\ ship[l].pc \in {"check", "wait"}
  /\ \E status \in CacheStatus(ship[l].sha) :
       CASE status = "cached" -> Ships(l, "final")
         [] status = "error" -> Ships(l, "stopped")
         [] OTHER -> Ships(l, "wait") \/ Ships(l, "stopped")
  /\ UNCHANGED <<main, landed, cachedAt, goodAt, fleet, receipts, reports, fleets, tagged>>

\* The publisher has uploaded what a lander queued.
Upload(l) ==
  /\ ship[l].pc = "wait" /\ cachedAt' = cachedAt \cup {ship[l].sha}
  /\ UNCHANGED <<main, ship, landed, goodAt, fleet, receipts, reports, fleets, tagged>>

\* The lander works on while it waits.
Amend(l) ==
  /\ ship[l].pc = "wait" /\ ship[l].head = ship[l].sha
  /\ ship' = [ship EXCEPT ![l].head = Append(@, l)]
  /\ UNCHANGED <<main, landed, cachedAt, goodAt, fleet, receipts, reports, fleets, tagged>>

\* Nothing may have moved, here or on main.
Final(l) ==
  LET sha == ship[l].sha
  IN  /\ ship[l].pc = "final"
      /\ Ships(l, IF ship[l].head # sha \/ ~IsPrefix(main, sha) THEN "stopped"
                  ELSE IF sha = main THEN "done"
                  ELSE IF ModeOf[l] = "rebase" /\ required_roots(main, sha) # {} THEN "gate"
                  ELSE "push")
      /\ UNCHANGED <<main, landed, cachedAt, goodAt, fleet, receipts, reports, fleets, tagged>>

\* The quick gate of an ordinary landing.
Gate(l, passes) ==
  /\ ship[l].pc = "gate"
  /\ Ships(l, IF passes THEN "push" ELSE "stopped")
  /\ goodAt' = IF passes THEN goodAt \cup {<<ship[l].sha, "rocq">>} ELSE goodAt
  /\ UNCHANGED <<main, landed, cachedAt, fleet, receipts, reports, fleets, tagged>>

\* The hook checks the commit once more, and origin takes only what main leads to.
Push(l) ==
  LET sha == ship[l].sha
  IN  /\ ship[l].pc = "push"
      /\ \E status \in CacheStatus(sha) :
           IF status = "cached" /\ IsPrefix(main, sha)
           THEN /\ main' = sha /\ landed' = landed \cup {[sha |-> sha, mode |-> ModeOf[l]]}
                /\ Ships(l, "done")
           ELSE Ships(l, "stopped") /\ UNCHANGED <<main, landed>>
      /\ UNCHANGED <<cachedAt, goodAt, fleet, receipts, reports, fleets, tagged>>

\* "stop, rebase and rerun the fleet"
StartOver(l) ==
  /\ ship[l].pc = "stopped" /\ \A i \in DOMAIN main : main[i] # l
  /\ ship' = [ship EXCEPT ![l] = [pc |-> "begin", head |-> Append(main, l), sha |-> <<>>]]
  /\ UNCHANGED <<main, landed, cachedAt, goodAt, fleet, receipts, reports, fleets, tagged>>

\* scripts/release: an earlier commit of main, or main.
Release(sha) ==
  /\ IsPrefix(sha, main) /\ sha \notin tagged
  /\ \E r \in receipts : verify(r, sha, {"rocq-full"})
  /\ "cached" \in CacheStatus(sha)
  /\ tagged' = tagged \cup {sha}
  /\ UNCHANGED <<main, ship, landed, cachedAt, goodAt, fleet, receipts, reports, fleets>>

LandingNext ==
  \/ \E l \in Lander, choice \in JobChoices : ModeOf[l] = "exact" /\ StartFleet(l, ship[l].head, choice)
  \/ \E l \in Lander, choice \in JobChoices : ModeOf[l] = "exact" /\ StartFleet(l, main, choice)
  \/ \E j \in fleet.jobs, at \in {fleet.rev, main} : RunWorker(j, at)
  \/ Collect
  \/ \E l \in Lander : BeginShip(l)
  \/ \E l \in Lander : CheckCache(l)
  \/ \E l \in Lander : Upload(l)
  \/ \E l \in Lander : Amend(l)
  \/ \E l \in Lander : Final(l)
  \/ \E l \in Lander, passes \in BOOLEAN : Gate(l, passes)
  \/ \E l \in Lander : Push(l)
  \/ \E l \in Lander : StartOver(l)
  \/ \E sha \in Prefixes(main) : Release(sha)

LandingSpec == LandingInit /\ [][LandingNext]_landingVars

-----------------------------------------------------------------------------
Good(sha, what) == \A s \in what : <<sha, s>> \in goodAt

\* A receipt that is accepted for a commit says the truth: every step of the
\* check, and every root it was started with, passed at that very commit,
\* whatever the workers had checked out and the agents left out.
ReceiptIsSound ==
  \A r \in receipts : verify(r, r.rev, {}) =>
    Good(r.rev, CheckSteps \cup {j.name : j \in {k \in r.jobs : k.kind = "root"}})

\* "it requires the foundation outputs to be in the public caches": whatever is
\* pushed to main was cached, also when others land while one waits for it.
LandedIsCached == \A x \in landed : x.sha \in cachedAt

\* What lands is what was tested: the commit itself, on top of the main it lands
\* on, with the Rocq gate whenever it touches the model.
LandedIsTested ==
  \A x \in landed :
    /\ x.mode = "exact" => Good(x.sha, CheckSteps)
    /\ x.sha[Len(x.sha)] \in Relevant => Good(x.sha, {"rocq"})

\* A release is of main, cached, and passed the full proofs with all the checks.
ReleaseIsProven ==
  \A sha \in tagged :
    IsPrefix(sha, main) /\ sha \in cachedAt /\ Good(sha, CheckSteps \cup {"rocq-full"})
=============================================================================
