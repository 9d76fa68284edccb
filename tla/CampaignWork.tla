---------------------------- MODULE CampaignWork ----------------------------
(***************************************************************************)
(* The life of an attempt as the database sees it: intent, the worker that *)
(* plans or builds, and the settlement that turns what the worker left     *)
(* behind into candidates, derivations, checks and outcomes (controller.py *)
(* intent, finish_plan, finish_build; attempt.py; outcomes.py;             *)
(* nix.add_graph).  How an attempt is launched, survives crashes and is    *)
(* settled exactly once is the subject of Attempt.                         *)
(***************************************************************************)
EXTENDS CampaignTables

(* Attempts begin.                                                         *)

\* Attempts are numbered as they are created.  Admission finds a run's last
\* number used up the way it finds its resource budget used up.
Fresh(a) ==
  att[a].state = "none" /\ \A b \in Attempt : att[b].state = "none" => a <= b
UsedUp == \A a \in Attempt : att[a].state # "none"

\* Mutant: a recipe that an active build includes may be replaced.
PlanAllowedInUse(k, c, revision) ==
  /\ CampaignOf[c] = k
  /\ cand[c].state = "excluded" => revision # "base" /\ ReplanEligible(c)
  /\ revision = "base" => c \notin replans
  /\ cand[c].drv # NoDrv =>
       /\ revision # "base"
       /\ cand[c].state \in {"queued", "failed", "blocked", "inconclusive",
                             "excluded"}

\* plan: what a candidate must satisfy.  Only an explicit revision may replace
\* a recipe, and never one that an active build includes.
PlanAllowed(k, c, revision) ==
  /\ CampaignOf[c] = k
  /\ cand[c].state = "excluded" => revision # "base" /\ ReplanEligible(c)
  /\ revision = "base" => c \notin replans
  /\ cand[c].drv # NoDrv =>
       /\ revision # "base"
       /\ cand[c].state \in {"queued", "failed", "blocked", "inconclusive",
                             "excluded"}
       /\ cand[c].drv \notin ActiveDrvs(Builds)

\* intent("plan"): a replaced recipe is detached and the pending request is
\* consumed with the intent.
OpenPlan(a, k, ids, revision) ==
  /\ Fresh(a)
  /\ att' = [att EXCEPT ![a] =
       [Unused EXCEPT !.state = "active", !.campaign = k, !.kind = "plan",
                      !.ids = ids, !.revision = revision]]
  /\ cand' = [c \in Candidate |->
       IF revision # "base" /\ c \in ids
       THEN [state |-> "unplanned", drv |-> NoDrv, error |-> "none"]
       ELSE cand[c]]
  /\ replans' = replans \ ids

\* Mutant: the campaign is missing from the WHERE clause.
OpenBuildAnyCampaign(a, k, targets, location, admitted) ==
  /\ Fresh(a)
  /\ att' = [att EXCEPT ![a] =
       [Unused EXCEPT !.state = "active", !.campaign = k, !.kind = "build",
                      !.targets = targets, !.location = location,
                      !.before = admitted]]
  /\ cand' = [c \in Candidate |->
       IF cand[c].drv \in targets
       THEN [cand[c] EXCEPT !.state = "running"] ELSE cand[c]]
  /\ UNCHANGED replans

\* intent("build"): the roots are running from here on.
OpenBuild(a, k, targets, location, admitted) ==
  /\ Fresh(a)
  /\ att' = [att EXCEPT ![a] =
       [Unused EXCEPT !.state = "active", !.campaign = k, !.kind = "build",
                      !.targets = targets, !.location = location,
                      !.before = admitted]]
  /\ cand' = [c \in Candidate |->
       IF CampaignOf[c] = k /\ cand[c].drv \in targets
       THEN [cand[c] EXCEPT !.state = "running"] ELSE cand[c]]
  /\ UNCHANGED replans

-----------------------------------------------------------------------------
(* Workers.                                                                *)

Working(a) == att[a].state = "active" /\ att[a].phase = "working"

\* The planner has evaluated some of its targets when it ends.
PlanEnd(a, rows) ==
  /\ a \in Plans /\ att[a].phase = "waiting"
  /\ att' = [att EXCEPT ![a].phase = "ended", ![a].rows = rows]
  /\ UNCHANGED <<release, mode, policy, cand, replans, graphVars, store, ctl>>

\* attempt.build: before.json is written, then Nix starts.
BuildBegin(a) ==
  /\ a \in Builds /\ att[a].phase = "waiting"
  /\ att' = [att EXCEPT ![a].phase = "working", ![a].begun = TRUE,
               ![a].before = store \cap Paths(ClosureOf(att[a].targets))]
  /\ UNCHANGED <<release, mode, policy, cand, replans, graphVars, store, ctl>>

\* Nix may realize a derivation of the build once its inputs are valid.
Buildable(a, d) ==
  /\ Working(a)
  /\ d \in Needed(Edges, att[a].targets, store) \ att[a].broken
  /\ \A e \in Edges : e[1] = d => Satisfied(e[2], e[3], store)

\* A builder runs and its outputs become valid, or it fails.
Realize(a, d) ==
  /\ Buildable(a, d)
  /\ store' = store \cup Paths({d})
  /\ att' = [att EXCEPT ![a].activities = @ \cup {d}]
  /\ UNCHANGED <<release, mode, policy, cand, replans, graphVars, ctl>>

Break(a, d) ==
  /\ Buildable(a, d) /\ d \in Fragile
  /\ att' = [att EXCEPT ![a].activities = @ \cup {d}, ![a].broken = @ \cup {d}]
  /\ UNCHANGED <<release, mode, policy, cand, replans, graphVars, store, ctl>>

\* The outputs come from a binary cache, without a build activity.
Substitute(a, d) ==
  /\ Working(a) /\ d \in Cached
  /\ d \in Needed(Edges, att[a].targets, store) \ att[a].broken
  /\ store' = store \cup Paths({d})
  /\ UNCHANGED <<release, mode, policy, cand, replans, graphVars, att, ctl>>

\* A build worker ends, with one of the results it may have.
BuildEnd(a) ==
  /\ a \in Builds /\ att[a].phase # "ended"
  /\ \E reason \in Reason \ {"none", "excluded"} :
       /\ att[a].phase = "waiting" => reason \in {"cancelled", "stopped"}
       /\ reason = "completed" =>
            \A t \in att[a].targets : Satisfied(t, DOMAIN Outputs[t], store)
       /\ reason = "unsupported" =>
            /\ att[a].location = "remote"
            /\ Needed(Edges, att[a].targets, store) # {}
       /\ att' = [att EXCEPT ![a].phase = "ended", ![a].reason = reason]
  /\ UNCHANGED <<release, mode, policy, cand, replans, graphVars, store, ctl>>

-----------------------------------------------------------------------------
(* reconcile: an attempt whose worker has ended is settled.  Its files are *)
(* not read again.                                                         *)

\* add_graph: recorded derivations that the rules of the release cover are
\* excluded; an exclusion already recorded stays.
AddGraph(graph) == exclusion \cup (graph \cap OutOfScope)

\* finish_plan.  New recipes enter the queue, unless an alias is held as
\* inconclusive; targets without a row are evaluation errors; an alias of the
\* root of an active build is running.
FinishPlan(a) ==
  LET k == att[a].campaign
      recipe == [c \in att[a].rows |-> Recipe[c][att[a].revision]]
      planned == {c \in att[a].rows : recipe[c] # NoDrv}
      graph == ClosureOf({recipe[c] : c \in planned})
      aliases(c) == {b \in Members(k) : /\ cand[b].drv = recipe[c]
                                        /\ cand[b].state = "inconclusive"}
      table == [c \in Candidate |->
        IF c \in planned
        THEN IF aliases(c) # {}
             THEN cand[CHOOSE b \in aliases(c) : TRUE]
             ELSE [state |-> "queued", drv |-> recipe[c], error |-> "none"]
        ELSE IF c \in att[a].ids
             THEN [cand[c] EXCEPT !.state = "evaluation-error", !.error = "other"]
        ELSE cand[c]]
      excluded == AddGraph(graph)
      fresh == Refreshed(k, table, available, failure, excluded)
      roots == UNION {att[b].targets : b \in {b \in Builds : att[b].campaign = k}}
  IN  /\ ctl.pc = "idle"
      /\ a \in Plans /\ att[a].phase = "ended"
      /\ known' = known \cup graph
      /\ exclusion' = excluded
      /\ cand' = [c \in Candidate |->
           IF CampaignOf[c] = k /\ fresh[c].drv \in roots
           THEN [fresh[c] EXCEPT !.state = "running"] ELSE fresh[c]]
      /\ att' = [att EXCEPT ![a].state = "finished", ![a].rows = {}]
      /\ UNCHANGED <<release, mode, policy, replans, available, failure,
                     localOnly, origin, evidence, tests, store, ctl>>

\* Where the outputs of a derivation come from, as a settled build sees it.
Provenance(a, d) ==
  IF att[a].begun /\ Paths({d}) \subseteq att[a].before THEN "pre-existing"
  ELSE IF d \in att[a].activities THEN "local" ELSE "unknown"

\* Mutant: whoever sees the outputs claims them.
ClaimedAlways(a, complete) == complete
\* What a settled build records as realized: what it built itself, and what
\* nobody recorded before.
Claimed(a, complete) ==
  {d \in complete : Provenance(a, d) = "local" \/ d \notin available}

\* The failure column after the build.
Failures(gained, lost) == (failure \ gained) \cup lost

\* Mutant: a failure does not move the evidence to the attempt that met it.
ProofOfSuccess(a, gained, lost) == [d \in Drv |-> IF d \in gained THEN a ELSE evidence[d]]

\* The attempt that each fact rests on.
Proof(a, gained, lost) == [d \in Drv |-> IF d \in gained \cup lost THEN a ELSE evidence[d]]

\* snapshot: the outcome of every derivation the attempt worked on, from its own
\* checks and from the facts whose evidence it is.
Snapshot(a, checked, proof, nowAvailable, nowFailed) ==
  [d \in Drv |->
    IF d \notin att[a].activities THEN "none"
    ELSE IF d \in checked THEN "tested"
    ELSE IF proof[d] = a /\ d \in nowAvailable THEN "built"
    ELSE IF proof[d] = a /\ d \in nowFailed THEN "failed"
    ELSE "unknown"]

\* finish_build: what the build realized or broke, its checks, the verdict on
\* its roots, the fallback from a remote rejection, and the frozen outcomes.
FinishBuild(a) ==
  LET k == att[a].campaign
      closure == ClosureOf(att[a].targets)
      complete == {d \in closure : Satisfied(d, DOMAIN Outputs[d], store)}
      failures == IF att[a].reason \in {"build-error", "unsupported"}
                  THEN att[a].broken ELSE {}
      local == {d \in complete : Provenance(a, d) = "local"}
      gained == Claimed(a, complete)
      lost == (closure \cap failures) \ complete
      checked == IF att[a].reason = "log-limit" THEN {} ELSE local \cap Checked
      nowAvailable == (available \cup gained) \ lost
      nowFailed == Failures(gained, lost)
      proof == Proof(a, gained, lost)
      drained == [c \in Candidate |->
        IF /\ CampaignOf[c] = k /\ cand[c].drv \in att[a].targets
           /\ cand[c].state = "running"
        THEN [cand[c] EXCEPT !.state = "queued"] ELSE cand[c]]
      fresh == Refreshed(k, drained, nowAvailable, nowFailed, exclusion)
      verdict == Rewritten(k, fresh, att[a].targets, {"queued"}, "inconclusive",
                   IF att[a].reason = "cancelled" THEN "cancelled" ELSE "other")
      rejected == /\ att[a].location = "remote"
                  /\ att[a].reason = "unsupported" /\ failures = {}
  IN  /\ ctl.pc = "idle"
      /\ a \in Builds /\ att[a].phase = "ended"
      /\ available' = nowAvailable
      /\ failure' = nowFailed
      /\ origin' = [d \in Drv |-> IF d \in gained THEN Provenance(a, d)
                                  ELSE origin[d]]
      /\ evidence' = proof
      /\ tests' = tests \cup ({a} \X checked)
      /\ localOnly' = IF rejected THEN localOnly \cup att[a].targets ELSE localOnly
      /\ cand' = IF rejected
                 THEN Rewritten(k, verdict, att[a].targets, {"inconclusive"},
                                "queued", "none")
                 ELSE verdict
      /\ att' = [att EXCEPT ![a].state = "finished",
                            ![a].begun = FALSE, ![a].before = {},
                            ![a].outcomes =
                              Snapshot(a, checked, proof, nowAvailable, nowFailed)]
      /\ UNCHANGED <<release, mode, policy, replans, known, exclusion, store, ctl>>
=============================================================================
