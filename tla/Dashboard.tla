----------------------------- MODULE Dashboard -----------------------------
(***************************************************************************)
(* The live build graph of the dashboard (experiment/graph.py) over a      *)
(* campaign whose build workers are seen in detail: a builder starts,      *)
(* enters a phase and stops in the log of its attempt, each tick of the    *)
(* controller ingests what the log holds by then (reconcile), and the      *)
(* graph is drawn from the ingested rows, from before.json and from the    *)
(* derivations, never from the store.  The walk behind the graph is taken  *)
(* as fresh; its age is the subject of RankingCache.  Plans succeed; what  *)
(* else they may come to is left to Campaign.                              *)
(***************************************************************************)
EXTENDS Views

VARIABLES
  log,    \* what the log of an attempt says of each derivation
  rows    \* the activities table: how much of it was ingested

dashVars == <<vars, log, rows>>

\* A builder that ends may never have announced a phase.
Stage == {"none", "started", "phase", "ended", "silent"}
Silence == [a \in Attempt |-> [d \in Drv |-> "none"]]

DInit == Init /\ log = Silence /\ rows = Silence

-----------------------------------------------------------------------------
(* The worker: builders write to the log of their attempt.                 *)

Start(a, d) ==
  /\ Buildable(a, d) /\ log[a][d] = "none"
  /\ log' = [log EXCEPT ![a][d] = "started"]
  /\ UNCHANGED <<vars, rows>>

\* setPhase: the inputs are in place.
EnterPhase(a, d) ==
  /\ Working(a) /\ log[a][d] = "started"
  /\ log' = [log EXCEPT ![a][d] = "phase"]
  /\ UNCHANGED <<vars, rows>>

Stopped(stage) == IF stage = "phase" THEN "ended" ELSE "silent"

\* The builder stops, and its outputs are valid, or it failed.
Finish(a, d) ==
  /\ Working(a) /\ log[a][d] \in {"started", "phase"}
  /\ log' = [log EXCEPT ![a][d] = Stopped(@)]
  /\ \/ store' = store \cup Paths({d}) /\ UNCHANGED att
     \/ /\ d \in Fragile
        /\ att' = [att EXCEPT ![a].broken = @ \cup {d}]
        /\ UNCHANGED store
  /\ UNCHANGED <<release, mode, policy, cand, replans, graphVars, ctl, rows>>

\* A binary cache provides one output that is wanted; it is asked before
\* anything is built for that output.
SubstituteOne(a, d, o) ==
  /\ Working(a) /\ d \in Cached /\ log[a][d] = "none"
  /\ d \in Needed(Edges, att[a].targets, store)
  /\ \A e \in Edges : e[1] = d => log[a][e[2]] = "none"
  /\ \E e \in Edges : e[2] = d /\ o \in e[3]
  /\ store' = store \cup {OutputPath(d, o)}
  /\ UNCHANGED <<release, mode, policy, cand, replans, graphVars, att, ctl, log, rows>>

-----------------------------------------------------------------------------
(* reconcile.                                                              *)

\* One tick ingests what the log of an active build holds.
Ingest(a) ==
  /\ ctl.pc = "idle" /\ a \in Builds /\ rows[a] # log[a]
  /\ rows' = [rows EXCEPT ![a] = log[a]]
  /\ att' = [att EXCEPT ![a].activities = {d \in Drv : log[a][d] # "none"}]
  /\ UNCHANGED <<release, mode, policy, cand, replans, graphVars, store, ctl, log>>

\* A result is settled when all of the log is ingested; a worker that may have
\* left none, killed or cancelled, is settled as it is.
CaughtUp(a) == att[a].reason \in {"stopped", "cancelled"} \/ rows[a] = log[a]

SettleBuild(a) == CaughtUp(a) /\ FinishBuild(a) /\ UNCHANGED <<log, rows>>

-----------------------------------------------------------------------------
(* live_graph.                                                             *)

InFlight(k) == {a \in Builds : att[a].campaign = k}

\* Paths that the active builds found valid when they began.
Existing(k) == UNION {att[a].before : a \in {b \in InFlight(k) : att[b].begun}}

\* "A consumer's build phase establishes availability of its required input
\* outputs."
Provided(k) ==
  UNION {{OutputPath(e[2], o) : o \in e[3]} :
           e \in {f \in Edges : \E a \in InFlight(k) : rows[a][f[1]] \in {"phase", "ended"}}}

\* The activity shown for a derivation: of several, that of the oldest build.
Activity(k, d) ==
  LET as == {a \in InFlight(k) : rows[a][d] # "none"}
  IN  IF as = {} THEN "none" ELSE rows[CHOOSE a \in as : \A b \in as : a <= b][d]

Requested(k) == ClosureOf(UNION {att[a].targets : a \in InFlight(k)})

\* node: what is shown of a derivation, or of the outputs that a consumer wants.
NodeState(k, d, wanted) ==
  LET paths == {OutputPath(d, o) : o \in wanted}
      within(S) == paths # {} /\ NoPath \notin paths /\ paths \subseteq S
      activity == Activity(k, d)
      labels == {c \in Members(k) : cand[c].drv = d}
  IN  IF activity \in {"started", "phase"} THEN "building"
      ELSE IF d \in exclusion THEN "excluded"
      ELSE IF within(Existing(k) \cup Provided(k)) THEN "available"
      ELSE IF activity # "none" THEN "settling"
      ELSE IF d \in available THEN "available"
      ELSE IF d \in failure THEN "failed"
      ELSE IF d \in Bad(k) THEN "blocked"
      ELSE IF d \in Requested(k) THEN "waiting"
      ELSE IF \E c \in labels : cand[c].state = "queued" THEN "queued" ELSE "unknown"

\* The batches on the page: the active builds, or the last build.
Shown(k) ==
  LET builds == {a \in Attempts(k) : att[a].kind = "build"}
  IN  IF InFlight(k) # {} \/ builds = {} THEN InFlight(k) ELSE {Latest(builds)}

Building(k) ==
  {d \in Scope(k) : Activity(k, d) \in {"started", "phase"}}

\* What the page opens on: something being built, else a root in trouble, else a
\* root not available yet, else any root, else anything planned.
Focus(k) ==
  LET roots == UNION {att[a].targets : a \in Shown(k)}
      state(d) == NodeState(k, d, DOMAIN Outputs[d])
      choices == << Building(k),
                    {d \in roots : state(d) \in {"failed", "blocked"}},
                    {d \in roots : state(d) # "available"}, roots, Scope(k) >>
      found == {i \in DOMAIN choices : choices[i] # {}}
  IN  IF found = {} THEN {} ELSE choices[CHOOSE i \in found : \A j \in found : i <= j]

\* work["stage"]
WorkStage(k) ==
  IF Building(k) # {} THEN "building"
  ELSE IF \A a \in InFlight(k) : ~att[a].begun THEN "preflight" ELSE "resolving"

\* The inputs of a node, each shown as far as the node wants it.
Inputs(k, d) == {<<e, NodeState(k, e[2], e[3])>> : e \in {f \in Edges : f[1] = d}}

-----------------------------------------------------------------------------
Controller(k) == Admit(k) \/ (\E m \in {"paused", "running"} : SetMode(k, m))
                   \/ (\E d \in Drv : RetryDerivation(k, d))
BuildWorker(a) ==
  \/ BuildBegin(a) /\ UNCHANGED <<log, rows>>
  \/ BuildEnd(a) /\ UNCHANGED <<log, rows>>
  \/ \E d \in Drv : Start(a, d)
  \/ \E d \in Drv : EnterPhase(a, d)
  \/ \E d \in Drv : Finish(a, d)
  \/ \E d \in Drv, o \in OutName : SubstituteOne(a, d, o)
DNext ==
  \/ \E a \in Attempt : BuildWorker(a)
  \/ \E a \in Attempt : Ingest(a)
  \/ \E a \in Attempt : SettleBuild(a)
  \/ \E a \in Attempt : FinishPlan(a) /\ UNCHANGED <<log, rows>>
  \/ \E a \in Attempt : PlanEnd(a, att[a].ids) /\ UNCHANGED <<log, rows>>
  \/ \E k \in CampaignId : Controller(k) /\ UNCHANGED <<log, rows>>
  \/ Tick /\ UNCHANGED <<log, rows>>
DSpec == DInit /\ [][DNext]_dashVars

-----------------------------------------------------------------------------
\* "A stopped Nix activity does not imply success, and edges describe required
\* outputs rather than every output": what the graph shows as available, from
\* before.json, from the phase of a consumer or from a derivation's row, is
\* valid in the store, for a node and for each input as its consumer wants it,
\* however far the log, the rows and the settlement are apart.
GraphTruthful ==
  \A k \in CampaignId :
    /\ \A d \in Scope(k) :
         NodeState(k, d, DOMAIN Outputs[d]) = "available" => Paths({d}) \subseteq store
    /\ \A d \in Scope(k) : \A n \in Inputs(k, d) :
         n[2] = "available" => Satisfied(n[1][2], n[1][3], store)

\* What the page says of a build in flight is so: it is in preflight only while
\* no builder has started in any lane, it is building only when one has, and it
\* opens on something finished only when every root is valid.
PageShowsWork ==
  \A k \in CampaignId : InFlight(k) # {} =>
    /\ WorkStage(k) = "preflight" => \A a \in InFlight(k) : log[a] = Silence[a]
    /\ WorkStage(k) = "building" => \E a \in InFlight(k) : log[a] # Silence[a]
    /\ \/ \A a \in InFlight(k) : Paths(att[a].targets) \subseteq store
       \/ \A d \in Focus(k) : NodeState(k, d, DOMAIN Outputs[d]) # "available"

\* The outcomes frozen with a settled result are what its builders did, although
\* the controller only knows what it had ingested: nothing built is missing and
\* nothing that was cut short counts as built.
OutcomesSurviveLag ==
  \A a \in Attempt, d \in Drv :
    /\ att[a].state = "finished" /\ att[a].kind = "build"
    /\ att[a].reason \notin {"stopped", "cancelled"}
    => (att[a].outcomes[d] \in {"built", "tested"} <=>
          log[a][d] \in {"ended", "silent"} /\ d \notin att[a].broken)

\* What the pages say of a campaign at work is so: the graph, the stage, frozen
\* outcomes, and the reasons why packages are blocked.
PagesTruthful ==
  /\ GraphTruthful /\ PageShowsWork /\ OutcomesSurviveLag
  /\ BlockedIsExplained /\ SoleBlockerSuffices
=============================================================================
