------------------------------ MODULE Campaign ------------------------------
(***************************************************************************)
(* The controller (experiment/controller.py): one tick after another it    *)
(* settles attempts and admits builds and plans, an operator issues        *)
(* commands between ticks, and workers realize store paths all the while.  *)
(* One action is one database transaction, one step of a worker, or one    *)
(* command.                                                                *)
(***************************************************************************)
EXTENDS CampaignWork

\* Imported campaigns, paused and scheduled.  Selection metadata excludes
\* kernels at once.
Init ==
  /\ release \in Releases
  /\ mode = [k \in CampaignId |-> "paused"]
  /\ policy \in [CampaignId -> Policies]
  /\ cand = [c \in Candidate |->
       IF c \in Kernels
       THEN [state |-> "excluded", drv |-> NoDrv, error |-> "scope"]
       ELSE [state |-> "unplanned", drv |-> NoDrv, error |-> "none"]]
  /\ replans = {} /\ known = {} /\ available = {} /\ failure = {}
  /\ exclusion = {} /\ localOnly = {} /\ tests = {} /\ store = {}
  /\ origin = [d \in Drv |-> "unknown"]
  /\ evidence = [d \in Drv |-> NoAttempt]
  /\ att = [a \in Attempt |-> Unused]
  /\ ctl = Idle

-----------------------------------------------------------------------------
(* admit, for one running campaign of a tick.                              *)

CanBuild(k) == LocalLane(k) \/ RemoteLane(k)

MayAdmit(k) ==
  /\ ctl.pc = "idle" /\ ~UsedUp
  /\ mode[k] = "running"
  /\ \A a \in Active : att[a].campaign = k
  /\ Active # {} => policy[k].ahead # 0 /\ (CanBuild(k) \/ Plans = {})

Observed(k) == Seen(Prepared(Listed(k)))
BatchTargets(k) ==
  LET avail == Observed(k)
  IN  First(k, policy[k].batch, {d \in Listed(k) : ~Conflicts({d}, avail)})

\* Nothing catches an exception of admission: the process ends.
Raise == /\ ctl' = [Idle EXCEPT !.pc = "raised"]
         /\ UNCHANGED <<cand, replans, att>>

\* Batched: one attempt for as many free roots as the batch holds.  The list
\* of active builds that planning will consult was read before.
AdmitBatch(k) ==
  /\ MayAdmit(k) /\ ~policy[k].rolling /\ LocalLane(k)
  /\ LET targets == BatchTargets(k) IN
       /\ targets # {}
       /\ \/ /\ InScope(targets)
             /\ \E a \in Attempt : OpenBuild(a, k, targets, "any", Observed(k))
             /\ ctl' = [Idle EXCEPT !.pc = "skip", !.campaign = k,
                                    !.builds = Builds]
          \/ ~InScope(targets) /\ Raise
  /\ UNCHANGED <<release, mode, policy, graphVars, store>>

\* Rolling: the candidates and the store are observed once.
AdmitRolling(k) ==
  /\ MayAdmit(k) /\ policy[k].rolling /\ CanBuild(k)
  /\ ctl' = [Idle EXCEPT !.pc = "rolling", !.campaign = k,
                         !.avail = Observed(k), !.list = Listed(k)]
  /\ UNCHANGED <<release, mode, policy, cand, replans, graphVars, att, store>>

\* Where a rolling root may go; remote builders are preferred.
Locations(k, d, avail) ==
  IF RemoteLane(k) /\ RemoteEligible({d}, avail) THEN {"remote"}
  ELSE IF LocalLane(k) THEN {"local"} ELSE {}

Admissible ==
  {d \in ctl.list : /\ ~Conflicts({d}, ctl.avail)
                    /\ Locations(ctl.campaign, d, ctl.avail) # {}}

\* One attempt per root, in order, while a lane is free.
RollingBuild ==
  /\ ctl.pc = "rolling" /\ ~UsedUp
  /\ \E d \in First(ctl.campaign, 1, Admissible) :
       \/ /\ InScope({d})
          /\ \E a \in Attempt, location \in Locations(ctl.campaign, d, ctl.avail) :
               OpenBuild(a, ctl.campaign, {d}, location, ctl.avail)
          /\ ctl' = [ctl EXCEPT !.list = @ \ {d}]
       \/ ~InScope({d}) /\ Raise
  /\ UNCHANGED <<release, mode, policy, graphVars, store>>

RollingEnd ==
  /\ ctl.pc = "rolling" /\ (Admissible = {} \/ UsedUp)
  /\ ctl' = [Idle EXCEPT !.pc = "skip", !.campaign = ctl.campaign,
                         !.builds = Builds]
  /\ UNCHANGED <<release, mode, policy, cand, replans, graphVars, att, store>>

\* No lane is free, or no root.
AdmitNoBuild(k) ==
  /\ MayAdmit(k)
  /\ \/ ~CanBuild(k)
     \/ ~policy[k].rolling /\ BatchTargets(k) = {}
  /\ ctl' = [Idle EXCEPT !.pc = "skip", !.campaign = k, !.builds = Builds]
  /\ UNCHANGED <<release, mode, policy, cand, replans, graphVars, att, store>>

\* Room for planning ahead; without lookahead, one chunk.
PlanChunk == 32
Quota(k) ==
  LET ready == Cardinality(Queued(k))
  IN  IF policy[k].ahead = 0 THEN PlanChunk
      ELSE IF ready >= policy[k].ahead THEN 0
      ELSE IF policy[k].ahead - ready > PlanChunk THEN PlanChunk
      ELSE policy[k].ahead - ready

\* Requests that something overtook are dropped.
AdmitSkip ==
  LET k == ctl.campaign
      stops == Plans # {} \/ (Builds # {} /\ policy[k].ahead = 0) \/ Quota(k) = 0
      overtaken == {c \in replans \cap Members(k) :
                      \/ ~ReplanEligible(c)
                      \/ cand[c].drv \in ActiveDrvs(ctl.builds)}
  IN  /\ ctl.pc = "skip"
      /\ \/ stops /\ ctl' = Idle /\ UNCHANGED replans
         \/ /\ ~stops
            /\ ctl' = [ctl EXCEPT !.pc = "plan"]
            /\ replans' = replans \ overtaken
      /\ UNCHANGED <<release, mode, policy, cand, graphVars, att, store>>

\* Queued requests first, then the inventory in the order of its labels.  Which
\* candidates were queued by one command is not kept, so any of them that fit
\* may be the oldest request.
AdmitPlan ==
  LET k == ctl.campaign
      pending == replans \cap Members(k)
      unplanned == {c \in Members(k) : cand[c].state = "unplanned"}
      next == {c \in unplanned :
                 Cardinality({b \in unplanned : b < c}) < Quota(k)}
      requests == {ids \in SUBSET pending : /\ ids # {}
                                            /\ Cardinality(ids) <= Quota(k)}
  IN  /\ ctl.pc = "plan"
      /\ \/ \E ids \in requests, a \in Attempt :
              /\ \A c \in ids : PlanAllowed(k, c, "fix")
              /\ OpenPlan(a, k, ids, "fix")
              /\ ctl' = Idle
         \/ /\ \E ids \in requests : \E c \in ids : ~PlanAllowed(k, c, "fix")
            /\ Raise
         \/ /\ pending = {} /\ next # {}
            /\ \E a \in Attempt : OpenPlan(a, k, next, "base")
            /\ ctl' = Idle
         \/ /\ UsedUp \/ (pending = {} /\ next = {})
            /\ ctl' = Idle
            /\ UNCHANGED <<cand, replans, att>>
      /\ UNCHANGED <<release, mode, policy, graphVars, store>>

\* The controller dies between two transactions, or of an exception, and is
\* started again: what it remembered is gone.
Restart ==
  /\ ctl.pc # "idle"
  /\ ctl' = Idle
  /\ UNCHANGED <<release, mode, policy, cand, replans, graphVars, att, store>>

-----------------------------------------------------------------------------
(* dispatch: the operator's commands.  A refused command changes nothing.  *)

Command(op) == ctl.pc = "idle" /\ op \in Commands

\* plan
Plan(k, ids, revision) ==
  /\ Command("plan")
  /\ ids # {} /\ \A c \in ids : PlanAllowed(k, c, revision)
  /\ MayIntend(k, "plan")
  /\ \E a \in Attempt : OpenPlan(a, k, ids, revision)
  /\ UNCHANGED <<release, mode, policy, graphVars, store, ctl>>

\* queue_replan: all of the request or nothing.
QueueReplan(k, ids) ==
  /\ Command("queue-replan")
  /\ ids # {} /\ ids \subseteq Members(k)
  /\ \A c \in ids : /\ ReplanEligible(c)
                    /\ \A a \in Plans : c \notin att[a].ids
                    /\ cand[c].drv \notin ActiveDrvs(Builds)
  /\ replans' = replans \cup ids
  /\ UNCHANGED <<release, mode, policy, cand, graphVars, att, store, ctl>>

\* build-once: a bounded batch of a paused campaign.
BuildOnce(k, ids) ==
  LET targets == {cand[c].drv : c \in ids}
      avail == Seen({})
  IN  /\ Command("build-once")
      /\ mode[k] = "paused"
      /\ ids # {} /\ Cardinality(ids) <= policy[k].batch
      /\ \A c \in ids : /\ CampaignOf[c] = k /\ cand[c].drv # NoDrv
                        /\ cand[c].state \in {"queued", "available"}
      /\ MayIntend(k, "build") /\ InScope(targets) /\ LocalLane(k)
      /\ ~Conflicts(targets, avail)
      /\ \E a \in Attempt :
           OpenBuild(a, k, targets, IF policy[k].rolling THEN "local" ELSE "any",
             IF policy[k].rolling \/ policy[k].lanes > 1 \/ Builds # {}
             THEN avail ELSE {})
      /\ UNCHANGED <<release, mode, policy, graphVars, store, ctl>>

\* retry: clear the failure of the candidates' own derivations and requeue.
Retry(k, ids) ==
  LET ds == {cand[c].drv : c \in ids}
      requeued == [c \in Candidate |->
        IF CampaignOf[c] = k /\ cand[c].drv \in ds
        THEN [cand[c] EXCEPT !.state = "queued", !.error = "none"] ELSE cand[c]]
  IN  /\ Command("retry")
      /\ ids # {} /\ ids \subseteq Members(k)
      /\ \A c \in ids : /\ cand[c].drv # NoDrv
                        /\ cand[c].state \notin {"running", "excluded"}
      /\ InScope(ds)
      /\ failure' = failure \ ds
      /\ cand' = Refreshed(k, requeued, available, failure', exclusion)
      /\ UNCHANGED <<release, mode, policy, replans, known, available, exclusion,
                     localOnly, origin, evidence, tests, att, store, ctl>>

\* Mutant: what depends on the derivation is not looked at again.
RetryDerivationStale(k, d) ==
  /\ Command("retry-derivation")
  /\ d \in failure
  /\ d \in ClosureOf({cand[c].drv : c \in Members(k)} \ {NoDrv})
  /\ InScope({d})
  /\ failure' = failure \ {d}
  /\ UNCHANGED <<release, mode, policy, cand, replans, known, available, exclusion,
                 localOnly, origin, evidence, tests, att, store, ctl>>

\* retry-derivation: clear the failure of any derivation of the campaign.
RetryDerivation(k, d) ==
  /\ Command("retry-derivation")
  /\ d \in failure
  /\ d \in ClosureOf({cand[c].drv : c \in Members(k)} \ {NoDrv})
  /\ InScope({d})
  /\ failure' = failure \ {d}
  /\ cand' = Refreshed(k, cand, available, failure', exclusion)
  /\ UNCHANGED <<release, mode, policy, replans, known, available, exclusion,
                 localOnly, origin, evidence, tests, att, store, ctl>>

\* run and pause
SetMode(k, m) ==
  /\ Command(IF m = "running" THEN "run" ELSE "pause")
  /\ mode' = [mode EXCEPT ![k] = m]
  /\ UNCHANGED <<release, policy, cand, replans, graphVars, att, store, ctl>>

\* cancel: the attempt's worker is told to stop, and may or may not still get
\* to its result.
Cancel(a) ==
  /\ Command("cancel")
  /\ a \in Active
  /\ mode' = [mode EXCEPT ![att[a].campaign] = "paused"]
  /\ UNCHANGED <<release, policy, cand, replans, graphVars, att, store, ctl>>

\* schedule
Schedule(k, p) ==
  /\ Command("schedule")
  /\ p # policy[k]
  /\ policy' = [policy EXCEPT ![k] = p]
  /\ UNCHANGED <<release, mode, cand, replans, graphVars, att, store, ctl>>

\* What a cancelled attempt left inconclusive.
Collateral(k, a, c) ==
  /\ CampaignOf[c] = k /\ cand[c].drv \in att[a].targets
  /\ cand[c].state = "inconclusive" /\ cand[c].error = "cancelled"

\* exclude-kernels: recorded kernel builders and selected candidates leave the
\* scope; with a cancelled build, its collateral is requeued.  `cancelled` is
\* that attempt, or none.
ExcludeKernels(k, cancelled) ==
  LET selected == Kernels \cap Members(k)
      excluded == exclusion
        \cup (known \cap KernelDrv \cap OutOfScope)
        \cup ({cand[c].drv : c \in selected} \ {NoDrv})
      marked == [c \in Candidate |->
        IF c \in selected
        THEN [cand[c] EXCEPT !.state = "excluded", !.error = "scope"]
        ELSE cand[c]]
      requeued == [c \in Candidate |->
        IF c \notin selected /\ \E a \in cancelled : Collateral(k, a, c)
        THEN [marked[c] EXCEPT !.state = "queued", !.error = "none"]
        ELSE marked[c]]
  IN  /\ Command("exclude-kernels")
      /\ mode[k] = "paused"
      /\ \A a \in cancelled :
           /\ att[a].state = "finished" /\ att[a].kind = "build"
           /\ att[a].campaign = k
           /\ att[a].reason \in {"cancelled", "excluded"}
           /\ att[a].targets \cap excluded # {}
      /\ exclusion' = excluded
      /\ cand' = Refreshed(k, requeued, available, failure, excluded)
      /\ att' = [a \in Attempt |->
           IF a \in cancelled THEN [att[a] EXCEPT !.reason = "excluded"] ELSE att[a]]
      /\ UNCHANGED <<release, mode, policy, replans, known, available, failure,
                     localOnly, origin, evidence, tests, store, ctl>>

\* exclude-toolchains: recorded compilers and engines leave the scope.
ExcludeToolchains(k) ==
  LET excluded == exclusion \cup (known \cap ToolchainDrv \cap OutOfScope)
      unblocked == [c \in Candidate |->
        IF CampaignOf[c] = k /\ cand[c].state = "blocked"
        THEN [cand[c] EXCEPT !.state = "queued"] ELSE cand[c]]
  IN  /\ Command("exclude-toolchains")
      /\ mode[k] = "paused"
      /\ exclusion' = excluded
      /\ cand' = Refreshed(k, unblocked, available, failure, excluded)
      /\ UNCHANGED <<release, mode, policy, replans, known, available, failure,
                     localOnly, origin, evidence, tests, att, store, ctl>>

\* A release with more scope rules is installed.
Upgrade ==
  /\ ctl.pc = "idle"
  /\ release = "old" /\ "new" \in Releases
  /\ release' = "new"
  /\ UNCHANGED <<mode, policy, cand, replans, graphVars, att, store, ctl>>

-----------------------------------------------------------------------------
Worker(a) ==
  \/ \E rows \in SUBSET att[a].ids : PlanEnd(a, rows)
  \/ BuildBegin(a)
  \/ \E d \in Drv : Realize(a, d) \/ Break(a, d) \/ Substitute(a, d)
  \/ BuildEnd(a)

Settle(a) == FinishPlan(a) \/ FinishBuild(a)

Admit(k) == AdmitBatch(k) \/ AdmitRolling(k) \/ AdmitNoBuild(k)
Tick == RollingBuild \/ RollingEnd \/ AdmitSkip \/ AdmitPlan

Operator(k) ==
  \/ \E ids \in SUBSET Candidate :
       \/ \E revision \in {"base", "fix"} : Plan(k, ids, revision)
       \/ QueueReplan(k, ids)
       \/ BuildOnce(k, ids)
       \/ Retry(k, ids)
  \/ \E d \in Drv : RetryDerivation(k, d)
  \/ \E m \in {"paused", "running"} : SetMode(k, m)
  \/ \E p \in Policies : Schedule(k, p)
  \/ \E cancelled \in {{}} \cup {{a} : a \in Attempt} : ExcludeKernels(k, cancelled)
  \/ ExcludeToolchains(k)

Next ==
  \/ \E a \in Attempt : Worker(a) \/ Settle(a) \/ Cancel(a)
  \/ \E k \in CampaignId : Admit(k) \/ Operator(k)
  \/ Tick
  \/ Restart
  \/ Upgrade

Spec == Init /\ [][Next]_vars

\* Workers make progress or run into a limit; every tick first reconciles and
\* then admits, each running campaign in turn; the controller does not die at
\* the same place for ever, and systemd starts it again.
Fairness ==
  /\ WF_vars(\E a \in Attempt : Worker(a))
  /\ SF_vars(\E a \in Attempt : Settle(a))
  /\ \A k \in CampaignId : SF_vars(Admit(k))
  /\ SF_vars(RollingBuild \/ RollingEnd)
  /\ SF_vars(AdmitSkip) /\ SF_vars(AdmitPlan)
  /\ WF_vars(ctl.pc = "raised" /\ Restart)
FairSpec == Spec /\ Fairness

-----------------------------------------------------------------------------
\* Two builds never work on the same derivation or output: what the active
\* builds still have to realize is disjoint, although each was admitted from a
\* snapshot of the store and workers go on changing it.
ExclusiveOwnership ==
  \A a, b \in Builds : a # b =>
    LET own(x) == Needed(Edges, att[x].targets, store)
    IN  /\ own(a) \cap own(b) = {}
        /\ Paths(own(a)) \cap Paths(own(b)) = {}

\* A candidate is running exactly while an active build of its campaign has its
\* derivation as a root (unless the root itself was put out of scope): a retry,
\* a replan or a refresh never lets go of a root that is being built, and no
\* candidate stays running after its attempt was settled.
RunningIsOwned ==
  \A c \in Candidate :
    LET roots == UNION {att[a].targets :
                          a \in {b \in Builds : att[b].campaign = CampaignOf[c]}}
    IN  /\ cand[c].state = "running" => cand[c].drv \in roots
        /\ cand[c].drv \in roots =>
             \/ cand[c].state = "running"
             \/ cand[c].state = "excluded" /\ cand[c].drv \in exclusion

\* Candidates of one campaign that evaluate to the same derivation never
\* disagree, in whatever order their plans and their build are settled, unless
\* one of them was excluded for what it depends on: it stays so, also when a
\* build that had begun before realizes the derivation for the others.
AliasesAgree ==
  \A b, c \in Candidate :
    /\ CampaignOf[b] = CampaignOf[c]
    /\ cand[b].drv = cand[c].drv /\ cand[b].drv # NoDrv
    => \/ cand[b].state = cand[c].state
       \/ \E x \in {b, c} : cand[x].state = "excluded" /\ cand[x].error = "inherited"

\* Active attempts belong to one campaign, with at most one planner.
OneCampaign ==
  /\ \A a, b \in Active : att[a].campaign = att[b].campaign
  /\ Cardinality(Plans) <= 1

\* A derivation is never both available and failed, and what is recorded as
\* available is valid.
FactsConsistent ==
  /\ available \cap failure = {}
  /\ Paths(available) \subseteq store

\* A derivation that some attempt built keeps that provenance: a lane that
\* merely found its outputs valid, settled earlier or later, does not claim it.
ProvenanceKept ==
  \A a \in Attempt, d \in available :
    /\ att[a].state = "finished" /\ d \in att[a].activities \ att[a].broken
    => origin[d] = "local" /\ d \in att[evidence[d]].activities

\* The outcomes frozen with a build are what its worker did, whichever lane
\* was settled first.
OutcomesTrue ==
  \A a \in Attempt, d \in Drv :
    att[a].state = "finished" /\ att[a].kind = "build" =>
      /\ att[a].outcomes[d] \in {"built", "tested"} <=>
           d \in att[a].activities \ att[a].broken
      /\ att[a].outcomes[d] = "failed" => d \in att[a].broken

\* A queued candidate has neither a failed nor an excluded derivation to build.
QueuedIsBuildable ==
  \A c \in Candidate : cand[c].state = "queued" =>
    Deps[cand[c].drv] \cap (failure \cup exclusion) = {}

\* "Inconclusive roots require an explicit retry, never an automatic failure
\* loop": only a command takes a candidate out of the inconclusive state.
NoSilentRetry ==
  [][\A c \in Candidate :
       cand[c].state = "inconclusive" /\ cand'[c].state # "inconclusive" =>
         \/ cand'[c].state = "excluded"
         \/ cand'[c].drv = NoDrv
         \/ \E k \in CampaignId, ids \in SUBSET Candidate : Retry(k, ids)
         \/ /\ cand[c].error = "cancelled"
            /\ \E k \in CampaignId, a \in Attempt : ExcludeKernels(k, {a})]_vars

\* "Routes that root locally once": a root that the remote builders rejected is
\* never theirs to build again, neither as a root nor as an input of another.
FallbackOnce ==
  \A a, b \in Attempt :
    /\ a # b
    /\ att[a].state = "finished" /\ att[a].reason = "unsupported"
    /\ att[b].state = "active" /\ att[b].location = "remote"
    /\ att[a].broken = {}
    => att[a].targets \cap Needed(Edges, att[b].targets, store) = {}

\* A running campaign works off its queue: everything is planned and built or
\* given a verdict, and the controller comes to rest, without an operator.
Quiesces ==
  LET settled(k) ==
        /\ Active = {}
        /\ \A c \in Members(k) : cand[c].state \notin {"unplanned", "queued",
                                                      "running"}
  IN  \A k \in CampaignId : mode[k] = "running" ~> []settled(k)

\* A candidate being planned is detached from its old recipe and has no request
\* left, whatever crash or restart comes between: the recipe under replacement
\* cannot be queued and no request is planned twice.
PlanningDetached ==
  \A a \in Plans : \A c \in att[a].ids :
    cand[c].drv = NoDrv /\ c \notin replans

\* A recipe that an active build includes is never replaced, whether it is
\* replanned by command or from the queue.
RecipeInUseKept ==
  [][\A c \in Candidate :
       cand[c].drv # NoDrv /\ cand'[c].drv = NoDrv =>
         cand[c].drv \notin ActiveDrvs(Builds)]_vars

\* A candidate excluded for its own derivation stays as it is once no build has
\* that derivation as a root: no retry, replan, refresh or plan of an alias brings
\* it back.
OutOfScopeStaysOut ==
  [][\A c \in Candidate :
       /\ cand[c].state = "excluded" /\ cand[c].error = "scope"
       /\ cand[c].drv # NoDrv
       /\ \A a \in Builds : cand[c].drv \notin att[a].targets
       => cand'[c] = cand[c]]_vars

\* Admission passes over what it may not build or replan: it does not end the
\* controller.
AdmissionNeverRaises == ctl.pc # "raised"

\* The lanes do not get into each other's way: active attempts belong to one
\* campaign, with one planner, and no derivation or output has two builders.
LanesExclusive == OneCampaign /\ ExclusiveOwnership

\* The state of a candidate agrees with its aliases and with the builds that own
\* its derivation, through retries, replans, refreshes and settlements.
CandidatesAgree == TypeOK /\ RunningIsOwned /\ AliasesAgree

\* Replanning takes a candidate off its recipe and off the queue of requests at
\* once, and never takes away a recipe that is being built.
ReplansSafe == []PlanningDetached /\ RecipeInUseKept

\* The queue holds only what can be built, and admission never meets anything
\* else in it.
QueueSound == QueuedIsBuildable /\ AdmissionNeverRaises
=============================================================================
