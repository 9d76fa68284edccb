--------------------------- MODULE CampaignTables ---------------------------
(***************************************************************************)
(* The experiment database (experiment/model.py) and what the controller   *)
(* asks of it (controller.py, scheduling.py, scope.py): campaigns,         *)
(* candidates, derivations, attempts and queued replans, the state of the  *)
(* worker behind each attempt, the store, and the controller's place in a  *)
(* tick.                                                                   *)
(*                                                                         *)
(* Candidates are numbered in the order of their labels, which is the      *)
(* order of admission.  Every output path is recorded, so the metadata     *)
(* backfill of prepare_graph has nothing to fill in.  How many jobs and    *)
(* cores a build gets is the subject of Lanes; here a lane is free or not. *)
(***************************************************************************)
EXTENDS BuildGraph, Naturals, FiniteSets

CONSTANTS
  Edges,            \* the input derivations of every derivation
  Candidate,        \* candidates, numbered by label
  CampaignId,       \* campaigns
  CampaignOf,       \* the campaign of a candidate
  Attempt,          \* attempts, numbered; as many as a run may use
  NoDrv,            \* candidates.drv IS NULL
  NoAttempt,
  Recipe,           \* what a candidate evaluates to at a revision, or NoDrv
  Policies,         \* scheduling policies an operator may choose
  Commands,         \* commands an operator may issue
  Releases,         \* releases of the scope rules: "old" has none
  MaxJobs,          \* local rolling lanes
  RemoteSlots,      \* capacity of the remote builders
  RemoteCapable,    \* derivations whose features some remote builder offers
  Fragile,          \* derivations whose builder may fail
  Cached,           \* derivations a binary cache offers
  Checked,          \* derivations with a check phase
  KernelDrv,        \* kernel builders, by their flags
  ToolchainDrv,     \* compilers and the other out-of-scope names
  KernelCandidate   \* kernels by selection metadata

ASSUME CampaignAssumption ==
  /\ Edges \subseteq Edge
  /\ Candidate \subseteq Nat /\ Attempt \subseteq Nat /\ IsFiniteSet(Attempt)
  /\ CampaignOf \in [Candidate -> CampaignId]
  /\ NoDrv \notin Drv /\ NoAttempt \notin Attempt
  /\ Recipe \in [Candidate -> [{"base", "fix"} -> Drv \cup {NoDrv}]]
  /\ \A p \in Policies : /\ p.rolling => p.ahead # 0
                         /\ p.lanes \in 1..2 /\ p.batch \in Nat \ {0}
  /\ Releases \subseteq {"old", "new"}
  /\ MaxJobs \in Nat /\ RemoteSlots \in Nat
  /\ \A d \in Drv : /\ DOMAIN Outputs[d] # {}
                    /\ \A o \in DOMAIN Outputs[d] : Outputs[d][o] # NoPath
  /\ KernelDrv \cup ToolchainDrv \subseteq Drv
  /\ KernelCandidate \subseteq Candidate

VARIABLES
  release,      \* the installed release
  mode,         \* campaigns.mode
  policy,       \* the scheduling part of campaigns.policy
  cand,         \* the candidates table
  replans,      \* candidates with a queued replan at the fixed revision
  known,        \* derivations on record, closed under inputs
  available, failure, exclusion,   \* derivations with that column set
  localOnly,    \* derivations routed locally after a remote rejection
  origin,       \* derivations.origin
  evidence,     \* derivations.evidence_attempt
  tests,        \* the tests table: attempt, derivation
  att,          \* the attempts table and what its worker left behind
  store,        \* valid store paths
  ctl           \* the controller's place in a tick, with what it remembers

graphVars == <<known, available, failure, exclusion, localOnly, origin,
               evidence, tests>>
vars == <<release, mode, policy, cand, replans, graphVars, att, store, ctl>>

State == {"unplanned", "queued", "running", "available", "failed", "blocked",
          "inconclusive", "excluded", "evaluation-error"}
Error == {"none", "scope", "inherited", "cancelled", "other"}
Reason == {"none", "completed", "build-error", "unsupported", "cancelled",
           "log-limit", "stopped", "excluded"}

\* Rows of candidates and attempts, and what the controller remembers.
CandidateRow == [state : State, drv : Drv \cup {NoDrv}, error : Error]
AttemptRow ==
  [state : {"none", "active", "finished"},
   campaign : CampaignId \cup {NoAttempt},
   kind : {"none", "plan", "build"},
   targets : SUBSET Drv,
   ids : SUBSET Candidate,
   location : {"any", "local", "remote"},
   revision : {"base", "fix"},
   before : SUBSET Path,
   phase : {"waiting", "working", "ended"},
   begun : BOOLEAN,
   rows : SUBSET Candidate,
   activities : SUBSET Drv, broken : SUBSET Drv,
   reason : Reason,
   outcomes : [Drv -> {"none", "tested", "built", "failed", "unknown"}]]
Position ==
  [pc : {"idle", "rolling", "skip", "plan", "raised"},
   campaign : CampaignId \cup {NoAttempt},
   builds : SUBSET Attempt, avail : SUBSET Path, list : SUBSET Drv]

TypeOK ==
  /\ release \in {"old", "new"}
  /\ mode \in [CampaignId -> {"paused", "running"}]
  /\ policy \in [CampaignId -> Policies]
  /\ cand \in [Candidate -> CandidateRow]
  /\ replans \subseteq Candidate
  /\ known \subseteq Drv
  /\ available \subseteq known /\ failure \subseteq known
  /\ exclusion \subseteq known /\ localOnly \subseteq known
  /\ origin \in [Drv -> {"unknown", "local", "pre-existing"}]
  /\ evidence \in [Drv -> Attempt \cup {NoAttempt}]
  /\ tests \subseteq Attempt \X Drv
  /\ store \subseteq Path
  /\ att \in [Attempt -> AttemptRow]
  /\ ctl \in Position

Unused ==
  [state |-> "none", campaign |-> NoAttempt, kind |-> "none", targets |-> {},
   ids |-> {},   location |-> "any", revision |-> "base", before |-> {},
   phase |-> "waiting", begun |-> FALSE, rows |-> {}, activities |-> {},
   broken |-> {}, reason |-> "none", outcomes |-> [d \in Drv |-> "none"]]
Idle ==
  [pc |-> "idle", campaign |-> NoAttempt, builds |-> {}, avail |-> {},
   list |-> {}]

-----------------------------------------------------------------------------
(* What the code asks of the database.                                     *)

Members(k) == {c \in Candidate : CampaignOf[c] = k}
Active == {a \in Attempt : att[a].state = "active"}
Builds == {a \in Active : att[a].kind = "build"}
Plans == {a \in Active : att[a].kind = "plan"}

\* The recursive walk over edges, in either direction.
Deps == [d \in Drv |-> Closure(Edges, d)]
\* Mutant: only the derivations themselves, not what is built from them.
ReachesDirectly(ds) == ds
Reaches(ds) == {d \in Drv : Deps[d] \cap ds # {}}
ClosureOf(targets) == UNION {Deps[t] : t \in targets}

\* Derivations in the specs of active builds.
ActiveDrvs(builds) == UNION {ClosureOf(att[a].targets) : a \in builds}

\* check_scope
InScope(targets) == ClosureOf(targets) \cap exclusion = {}

\* scope.exclusion under the installed release.
OutOfScope == IF release = "new" THEN KernelDrv \cup ToolchainDrv ELSE {}
Kernels == IF release = "new" THEN KernelCandidate ELSE {}

\* Mutant: any excluded candidate may be replanned.
ReplanEligibleExcluded(c) ==
  IF cand[c].drv = NoDrv THEN cand[c].state \in {"unplanned", "evaluation-error"}
  ELSE cand[c].state \in {"failed", "blocked", "inconclusive", "excluded"}

\* replan_eligible
ReplanEligible(c) ==
  IF cand[c].drv = NoDrv THEN cand[c].state \in {"unplanned", "evaluation-error"}
  ELSE \/ cand[c].state \in {"failed", "blocked", "inconclusive"}
       \/ cand[c].state = "excluded" /\ cand[c].error = "inherited"

\* The n first of a set of derivations, by the least label of a candidate.
Label(k, d) ==
  CHOOSE c \in Members(k) : /\ cand[c].drv = d
                            /\ \A b \in Members(k) : cand[b].drv = d => c <= b
First(k, n, ds) ==
  {d \in ds : Cardinality({e \in ds : Label(k, e) < Label(k, d)}) < n}

Queued(k) == {cand[c].drv : c \in {b \in Members(k) : cand[b].state = "queued"}}
Greater(m, n) == IF m > n THEN m ELSE n
Listed(k) == First(k, Greater(policy[k].batch, policy[k].ahead), Queued(k))

\* build_policy is not None: a lane is free.
LocalLane(k) ==
  IF policy[k].rolling
  THEN Cardinality({a \in Builds : att[a].location # "remote"}) < MaxJobs
  ELSE /\ Cardinality(Builds) < (IF policy[k].ahead # 0 THEN policy[k].lanes ELSE 1)
       /\ \A a \in Builds : att[a].location # "remote"
RemoteLane(k) ==
  /\ policy[k].rolling
  /\ Cardinality({a \in Builds : att[a].location = "remote"}) < RemoteSlots

\* reservations: paths seen to be valid, and the derivations that the active
\* builds still own.
Seen(observed) ==
  LET first == UNION {Needed(Edges, att[a].targets, att[a].before) : a \in Builds}
  IN  observed \cup Paths(available) \cup (UNION {att[a].before : a \in Builds})
        \cup (store \cap Paths(first))
\* Mutant: an active build only owns its roots.
HeldRoots(avail) == UNION {att[a].targets : a \in Builds}
Held(avail) == UNION {Needed(Edges, att[a].targets, avail) : a \in Builds}

\* prepare_graph: probe what the candidates and the active builds need.
Prepared(targets) ==
  LET all == targets \cup UNION {att[a].targets : a \in Builds}
      seen == Seen({})
  IN  seen \cup (store \cap Paths(Needed(Edges, all, seen)))

Conflicts(targets, avail) ==
  LET needed == Needed(Edges, targets, avail)
      held == Held(avail)
  IN  needed \cap held # {} \/ Paths(needed) \cap Paths(held) # {}

\* Mutant: an earlier rejection is not remembered.
RemoteEligibleAgain(targets, avail) ==
  Needed(Edges, targets, avail) \subseteq RemoteCapable

\* remote_eligible
RemoteEligible(targets, avail) ==
  Needed(Edges, targets, avail) \subseteq RemoteCapable \ localOnly

\* The checks of intent that every attempt has to pass.
MayIntend(k, kind) ==
  /\ \A a \in Active : att[a].campaign = k
  /\ kind = "plan" => Plans = {}
  /\ Active # {} => policy[k].ahead # 0

\* Mutant: inconclusive candidates are recomputed like the others.
KeptButInconclusive == {"running", "excluded"}
\* States that a refresh does not recompute.
Kept == {"running", "inconclusive", "excluded"}

\* model.refresh_candidates: recompute a campaign's candidates from the graph.
\* Running, inconclusive and excluded candidates keep their state, except that
\* a derivation which is itself out of scope excludes them all; depending on
\* one only excludes what is queued or blocked.
Refreshed(k, table, av, fl, ex) ==
  [c \in Candidate |->
    LET r == table[c]
        observed ==
          IF r.drv = NoDrv \/ r.state \in Kept
          THEN r.state
          ELSE IF r.drv \in av THEN "available"
          ELSE IF r.drv \in fl THEN "failed"
          ELSE IF r.drv \in Reaches(fl \ ex) THEN "blocked"
          ELSE "queued"
    IN  IF CampaignOf[c] # k THEN r
        ELSE IF r.drv \in ex
             THEN [r EXCEPT !.state = "excluded", !.error = "scope"]
        ELSE IF observed \in {"queued", "blocked"} /\ r.drv \in Reaches(ex)
             THEN [r EXCEPT !.state = "excluded", !.error = "inherited"]
        ELSE [r EXCEPT !.state = observed]]

\* Rewrite the candidates of a campaign that have one of the derivations.
Rewritten(k, table, ds, from, to, error) ==
  [c \in Candidate |->
    IF CampaignOf[c] = k /\ table[c].drv \in ds /\ table[c].state \in from
    THEN [table[c] EXCEPT !.state = to, !.error = error] ELSE table[c]]
=============================================================================
