--------------------------- MODULE EvidenceProofs ---------------------------
(***************************************************************************)
(* The record, for any graph, campaigns and number of attempts: a failure  *)
(* rests on a settled attempt that failed, a check on one that passed, an  *)
(* available package has its outputs; what is settled is never rewritten;  *)
(* and the pages of a campaign that is done may stop refreshing.           *)
(***************************************************************************)
EXTENDS CampaignProofs, Views

\* Candidates that are available have valid outputs.
Valid(table, paths) ==
  \A c \in Candidate :
    table[c].state = "available" => Paths({table[c].drv}) \subseteq paths

\* A failure on record is the outcome of a settled attempt, its evidence.
Backed ==
  \A d \in failure : /\ evidence[d] \in Attempt
                     /\ att[evidence[d]].state = "finished"
                     /\ att[evidence[d]].outcomes[d] = "failed"

\* A check on record is the outcome of its attempt, which is settled.
Earned ==
  \A a \in Attempt, d \in Drv : <<a, d>> \in tests =>
    att[a].state = "finished" /\ att[a].outcomes[d] = "tested"

\* Only a builder that ran can break.
Ran == \A a \in Attempt : att[a].broken \subseteq att[a].activities

EInv == available \cap failure = {} /\ Backed /\ Earned /\ Ran /\ Valid(cand, store)

\* A settled attempt keeps its columns, except that a cancelled build may be put
\* out of scope.
Sealed(a) ==
  att[a].state = "finished" =>
    /\ att'[a].state = "finished"
    /\ att'[a].kind = att[a].kind /\ att'[a].campaign = att[a].campaign
    /\ att'[a].targets = att[a].targets /\ att'[a].ids = att[a].ids
    /\ att'[a].activities = att[a].activities
    /\ att'[a].outcomes = att[a].outcomes
    /\ \/ att'[a].reason = att[a].reason
       \/ /\ att[a].reason # "completed" /\ att'[a].reason # "completed"
          /\ \E k \in CampaignId : ExcludeKernels(k, {a})

\* What becomes of the attempts in a step.
Grown ==
  \A a \in Attempt :
    /\ Sealed(a)
    /\ att[a].broken \subseteq att[a].activities =>
         att'[a].broken \subseteq att'[a].activities

\* A step that settles no build: no new fact, no fact lost but a failure that is
\* retried, and no candidate becomes available for nothing.
Harmless ==
  /\ UNCHANGED <<available, evidence, tests>> /\ failure' \subseteq failure
  /\ store \subseteq store'
  /\ Grown
  /\ Valid(cand', store')

\* A step that does not concern a campaign: its candidates keep their states and
\* none of its attempts begins.
Elsewhere(k) ==
  /\ \A c \in Members(k) : cand'[c].state = cand[c].state
  /\ \A a \in Attempt : att'[a].campaign = k /\ att'[a].state = "active" =>
       att[a].campaign = k /\ att[a].state = "active"

\* A campaign with nothing to do.
Resting(k) == Finished(k) /\ replans \cap Members(k) = {}

\* It stays done through steps that do not concern it.
LEMMA ElsewhereRests ==
  ASSUME IInv, IInv', NEW k, Finished(k), Elsewhere(k)
  PROVE  Finished(k)'
<1>1. \A c \in Members(k) : cand'[c].state \notin {"unplanned", "queued", "running"}
  BY DEF Finished, Elsewhere
<1>2. ASSUME NEW a \in Attempt, att'[a].state # "none", att'[a].campaign = k
      PROVE  att'[a].state = "finished"
  <2>1. att'[a].state \in {"none", "active", "finished"}
    BY DEF IInv, TypeOK, AttemptRow
  <2>2. ~(att[a].campaign = k /\ att[a].state = "active")
    BY DEF Finished, Attempts
  <2> QED BY <1>2, <2>1, <2>2 DEF Elsewhere
<1>3. Members(k)' = Members(k)
  BY DEF Members
<1> QED BY <1>1, <1>2, <1>3 DEF Finished, Attempts

\* A step that leaves the facts, the attempts and the candidates alone.
LEMMA StillEffect ==
  ASSUME EInv, UNCHANGED <<available, evidence, tests, failure, store, att, cand>>
  PROVE  Harmless /\ \A k \in CampaignId : Elsewhere(k)
<1>1. Grown
  BY DEF Grown, Sealed
<1>2. Valid(cand', store')
  BY DEF EInv, Valid
<1>3. \A k \in CampaignId : Elsewhere(k)
  BY DEF Elsewhere
<1> QED BY <1>1, <1>2, <1>3 DEF Harmless

\* Workers touch active attempts and add to the store.
LEMMA WorkerEffect ==
  ASSUME IInv, EInv, NEW w \in Attempt, Worker(w)
  PROVE  Harmless /\ \A k \in CampaignId : Elsewhere(k)
<1>1. /\ att \in [Attempt -> AttemptRow] /\ att[w] \in AttemptRow
  BY DEF IInv, TypeOK
<1>2. UNCHANGED <<available, evidence, tests, failure, cand>> /\ store \subseteq store'
  BY DEF Worker, PlanEnd, BuildBegin, Realize, Break, Substitute, BuildEnd, graphVars
<1> DEFINE Went(r) ==
             /\ r.state = "active" /\ r.campaign = att[w].campaign
             /\ att[w].broken \subseteq att[w].activities =>
                  r.broken \subseteq r.activities
           Effect ==
             /\ att[w].state = "active"
             /\ \A a \in Attempt : a # w => att'[a] = att[a]
             /\ Went(att'[w])
<1>3. Effect
  <2> USE <1>1
  <2>1. ASSUME NEW rows \in SUBSET att[w].ids, PlanEnd(w, rows) PROVE Effect
    BY <2>1 DEF PlanEnd, Plans, Active, AttemptRow
  <2>2. ASSUME BuildBegin(w) PROVE Effect
    BY <2>2 DEF BuildBegin, Builds, Active, AttemptRow
  <2>3. ASSUME NEW d \in Drv, Realize(w, d) PROVE Effect
    BY <2>3 DEF Realize, Buildable, Working, AttemptRow
  <2>4. ASSUME NEW d \in Drv, Break(w, d) PROVE Effect
    BY <2>4 DEF Break, Buildable, Working, AttemptRow
  <2>5. ASSUME NEW d \in Drv, Substitute(w, d) PROVE Effect
    BY <2>5 DEF Substitute, Working
  <2>6. ASSUME BuildEnd(w) PROVE Effect
    BY <2>6 DEF BuildEnd, Builds, Active, AttemptRow
  <2> QED BY <2>1, <2>2, <2>3, <2>4, <2>5, <2>6 DEF Worker
<1>4. Grown
  <2> SUFFICES ASSUME NEW a \in Attempt
               PROVE  /\ Sealed(a)
                      /\ att[a].broken \subseteq att[a].activities =>
                           att'[a].broken \subseteq att'[a].activities
    BY DEF Grown
  <2>1. CASE a = w
    BY <1>3, <2>1 DEF Sealed
  <2>2. CASE a # w
    BY <1>3, <2>2 DEF Sealed
  <2> QED BY <2>1, <2>2
<1>5. Valid(cand', store')
  BY <1>2 DEF EInv, Valid
<1>6. ASSUME NEW k \in CampaignId PROVE Elsewhere(k)
  <2>1. ASSUME NEW a \in Attempt, att'[a].campaign = k, att'[a].state = "active"
        PROVE  att[a].campaign = k /\ att[a].state = "active"
    <3>1. CASE a = w
      BY <1>3, <2>1, <3>1
    <3>2. CASE a # w
      BY <1>3, <2>1, <3>2
    <3> QED BY <3>1, <3>2
  <2> QED BY <1>2, <2>1 DEF Elsewhere
<1> QED BY <1>2, <1>4, <1>5, <1>6 DEF Harmless

\* A planner begins: it takes candidates of its campaign off their recipes.
LEMMA OpenPlanEffect ==
  ASSUME IInv, EInv, NEW p \in Attempt, NEW j \in CampaignId,
         NEW ids \in SUBSET Members(j), NEW revision, OpenPlan(p, j, ids, revision),
         UNCHANGED <<graphVars, store>>
  PROVE  Harmless /\ \A k \in CampaignId : k # j => Elsewhere(k)
<1>1. att \in [Attempt -> AttemptRow] /\ att[p].state = "none"
  BY DEF IInv, TypeOK, OpenPlan, Fresh
<1>2. \A a \in Attempt : a # p => att'[a] = att[a]
  BY <1>1 DEF OpenPlan
<1>3. att'[p].campaign = j /\ att'[p].broken = {}
  BY <1>1 DEF OpenPlan, Unused
<1>4. Grown
  BY <1>1, <1>2, <1>3 DEF Grown, Sealed
<1>5. \A c \in Candidate :
        \/ cand'[c] = cand[c]
        \/ CampaignOf[c] = j /\ cand'[c].state = "unplanned"
  BY DEF OpenPlan, Members
<1>6. Valid(cand', store')
  BY <1>5 DEF EInv, Valid
<1>7. \A k \in CampaignId : k # j => Elsewhere(k)
  BY <1>2, <1>3, <1>5 DEF Elsewhere, Members
<1> QED BY <1>4, <1>6, <1>7 DEF Harmless, graphVars

\* A build begins: candidates of its campaign are running.
LEMMA OpenBuildEffect ==
  ASSUME IInv, EInv, NEW w \in Attempt, NEW j \in CampaignId, NEW targets,
         NEW location, NEW admitted, OpenBuild(w, j, targets, location, admitted),
         UNCHANGED <<graphVars, store>>
  PROVE  Harmless /\ \A k \in CampaignId : k # j => Elsewhere(k)
<1>1. /\ att \in [Attempt -> AttemptRow] /\ att[w].state = "none"
      /\ cand \in [Candidate -> CandidateRow]
  BY DEF IInv, TypeOK, OpenBuild, Fresh
<1>2. \A a \in Attempt : a # w => att'[a] = att[a]
  BY <1>1 DEF OpenBuild
<1>3. att'[w].campaign = j /\ att'[w].broken = {}
  BY <1>1 DEF OpenBuild, Unused
<1>4. Grown
  BY <1>1, <1>2, <1>3 DEF Grown, Sealed
<1>5. \A c \in Candidate :
        \/ cand'[c] = cand[c]
        \/ CampaignOf[c] = j /\ cand'[c].state = "running"
  BY <1>1 DEF OpenBuild, CandidateRow
<1>6. Valid(cand', store')
  BY <1>5 DEF EInv, Valid
<1>7. \A k \in CampaignId : k # j => Elsewhere(k)
  BY <1>2, <1>3, <1>5 DEF Elsewhere, Members
<1> QED BY <1>4, <1>6, <1>7 DEF Harmless, graphVars

-----------------------------------------------------------------------------
(* Refreshing and settling.                                                *)

\* A refresh calls available only what is recorded so.
LEMMA RefreshedValid ==
  ASSUME NEW k, NEW table \in [Candidate -> CandidateRow], NEW av, NEW fl,
         NEW ex \in SUBSET Drv, NEW paths,
         Valid(table, paths), Paths(av) \subseteq paths
  PROVE  Valid(Refreshed(k, table, av, fl, ex), paths)
<1> SUFFICES ASSUME NEW c \in Candidate, NEW n, n = Refreshed(k, table, av, fl, ex)[c],
                    n.state = "available"
             PROVE  Paths({n.drv}) \subseteq paths
  BY DEF Valid
<1>1. table[c] \in CandidateRow /\ n.drv = table[c].drv
  BY RefreshedRow
<1>2. CASE table[c].state = "available"
  BY <1>1, <1>2 DEF Valid
<1>3. CASE table[c].state # "available"
  <2> DEFINE observed ==
        IF table[c].drv = NoDrv \/ table[c].state \in Kept
        THEN table[c].state
        ELSE IF table[c].drv \in av THEN "available"
        ELSE IF table[c].drv \in fl THEN "failed"
        ELSE IF table[c].drv \in Reaches(fl \ ex) THEN "blocked"
        ELSE "queued"
  <2>1. n = IF CampaignOf[c] # k THEN table[c]
            ELSE IF table[c].drv \in ex
                 THEN [table[c] EXCEPT !.state = "excluded", !.error = "scope"]
            ELSE IF observed \in {"queued", "blocked"} /\ table[c].drv \in Reaches(ex)
                 THEN [table[c] EXCEPT !.state = "excluded", !.error = "inherited"]
            ELSE [table[c] EXCEPT !.state = observed]
    BY DEF Refreshed
  <2>2. observed = "available" => table[c].drv \in av
    BY <1>3
  <2> HIDE DEF observed
  <2>3. observed = "available"
    BY <1>1, <1>3, <2>1 DEF CandidateRow
  <2> QED BY <1>1, <2>2, <2>3 DEF Paths
<1> QED BY <1>2, <1>3

\* A plan is settled.
LEMMA FinishPlanEffect ==
  ASSUME IInv, CInv, EInv, NEW p \in Attempt, FinishPlan(p)
  PROVE  Harmless /\ \A k \in CampaignId : k # att[p].campaign => Elsewhere(k)
<1> DEFINE
      j == att[p].campaign
      recipe == [c \in att[p].rows |-> Recipe[c][att[p].revision]]
      planned == {c \in att[p].rows : recipe[c] # NoDrv}
      graph == ClosureOf({recipe[c] : c \in planned})
      aliases(c) == {b \in Members(j) : /\ cand[b].drv = recipe[c]
                                        /\ cand[b].state = "inconclusive"}
      table == [c \in Candidate |->
        IF c \in planned
        THEN IF aliases(c) # {}
             THEN cand[CHOOSE b \in aliases(c) : TRUE]
             ELSE [state |-> "queued", drv |-> recipe[c], error |-> "none"]
        ELSE IF c \in att[p].ids
             THEN [cand[c] EXCEPT !.state = "evaluation-error", !.error = "other"]
        ELSE cand[c]]
      fresh == Refreshed(j, table, available, failure, exclusion')
      roots == UNION {att[b].targets : b \in {b \in Builds : att[b].campaign = j}}
<1>1. /\ p \in Plans
      /\ known' = known \cup graph
      /\ cand' = [c \in Candidate |->
           IF CampaignOf[c] = j /\ fresh[c].drv \in roots
           THEN [fresh[c] EXCEPT !.state = "running"] ELSE fresh[c]]
      /\ att' = [att EXCEPT ![p].state = "finished", ![p].rows = {}]
      /\ UNCHANGED <<available, failure, evidence, tests, store>>
  BY DEF FinishPlan
<1>2. /\ att \in [Attempt -> AttemptRow] /\ att[p] \in AttemptRow
      /\ att[p].state = "active" /\ j \in CampaignId
      /\ cand \in [Candidate -> CandidateRow]
      /\ Sound(cand, known) /\ known \subseteq Drv /\ NoDrv \notin Drv
      /\ Paths(available) \subseteq store
      /\ att[p].ids \subseteq Members(j) /\ att[p].rows \subseteq att[p].ids
  BY <1>1, CampaignAssumption
     DEF IInv, TypeOK, Together, Plans, Active, Shapes, Snapshots, CInv, PlannersOwn
<1>3. /\ \A a \in Attempt : a # p => att'[a] = att[a]
      /\ att'[p].state = "finished"
      /\ att'[p].broken = att[p].broken /\ att'[p].activities = att[p].activities
  BY <1>1, <1>2 DEF AttemptRow
<1>4. Grown
  BY <1>2, <1>3 DEF Grown, Sealed
<1>5. planned \subseteq Members(j) /\ \A c \in planned : recipe[c] \in Drv
  <2>1. att[p].rows \subseteq Candidate /\ att[p].revision \in {"base", "fix"}
    BY <1>2 DEF AttemptRow
  <2>2. ASSUME NEW c \in planned PROVE recipe[c] \in Drv
    <3>1. c \in Candidate /\ recipe[c] = Recipe[c][att[p].revision] /\ recipe[c] # NoDrv
      BY <2>1
    <3>2. Recipe[c] \in [{"base", "fix"} -> Drv \cup {NoDrv}]
      BY <3>1, CampaignAssumption
    <3> HIDE DEF recipe
    <3> QED BY <2>1, <3>1, <3>2
  <2> QED BY <1>2, <2>2
<1> HIDE DEF recipe, planned, graph
<1>6. ASSUME NEW c \in Candidate
      PROVE  /\ table[c] \in CandidateRow
             /\ table[c].drv = NoDrv => table[c].state # "available"
             /\ table[c].state = "available" => table[c] = cand[c]
             /\ CampaignOf[c] # j => table[c] = cand[c]
  <2>1. CASE c \in planned /\ aliases(c) # {}
    <3>1. PICK b \in aliases(c) : table[c] = cand[b]
      BY <2>1
    <3>2. b \in Candidate /\ cand[b].state = "inconclusive" /\ CampaignOf[c] = j
      BY <1>5, <2>1, <3>1 DEF Members
    <3> QED BY <1>2, <3>1, <3>2
  <2>2. CASE c \in planned /\ aliases(c) = {}
    <3>1. table[c] = [state |-> "queued", drv |-> recipe[c], error |-> "none"]
      BY <2>2
    <3>2. recipe[c] \in Drv /\ CampaignOf[c] = j
      BY <1>5, <2>2 DEF Members
    <3> HIDE DEF table
    <3> QED BY <3>1, <3>2 DEF CandidateRow, State, Error
  <2>3. CASE c \notin planned /\ c \in att[p].ids
    <3>1. table[c] = [cand[c] EXCEPT !.state = "evaluation-error", !.error = "other"]
      BY <2>3
    <3>2. CampaignOf[c] = j
      BY <1>2, <2>3 DEF Members
    <3>3. cand[c] \in CandidateRow
      BY <1>2
    <3> HIDE DEF table
    <3>4. table[c] \in CandidateRow /\ table[c].state = "evaluation-error"
      BY <3>1, <3>3 DEF CandidateRow, State, Error
    <3> QED BY <3>2, <3>4
  <2>4. CASE c \notin planned /\ c \notin att[p].ids
    BY <1>2, <2>4 DEF Sound
  <2> QED BY <2>1, <2>2, <2>3, <2>4
<1>7. table \in [Candidate -> CandidateRow] /\ exclusion' \in SUBSET Drv
  <2>1. exclusion' \in SUBSET Drv
    BY FinishPlanInv DEF IInv, TypeOK
  <2>2. table \in [Candidate -> CandidateRow]
    BY <1>6
  <2> QED BY <2>1, <2>2
<1> HIDE DEF table
<1>8. ASSUME NEW c \in Candidate
      PROVE  /\ fresh[c] \in CandidateRow
             /\ CampaignOf[c] # j => fresh[c] = table[c]
             /\ fresh[c].state = "available" => Paths({fresh[c].drv}) \subseteq store
  <2>1. /\ fresh[c] \in CandidateRow
        /\ CampaignOf[c] # j => fresh[c] = table[c]
    BY <1>7, RefreshedRow
  <2>2. Valid(table, store)
    BY <1>6 DEF EInv, Valid
  <2> QED BY <1>2, <1>6, <1>7, <2>1, <2>2, RefreshedValid DEF Valid
<1> HIDE DEF fresh
<1>9. ASSUME NEW c \in Candidate
      PROVE  /\ CampaignOf[c] # j => cand'[c] = cand[c]
             /\ cand'[c].state = "available" => Paths({cand'[c].drv}) \subseteq store
  <2>1. CASE CampaignOf[c] = j /\ fresh[c].drv \in roots
    <3>1. cand'[c] = [fresh[c] EXCEPT !.state = "running"]
      BY <1>1, <2>1
    <3> QED BY <1>8, <2>1, <3>1 DEF CandidateRow
  <2>2. CASE ~(CampaignOf[c] = j /\ fresh[c].drv \in roots)
    <3>1. cand'[c] = fresh[c]
      BY <1>1, <2>2
    <3> QED BY <1>6, <1>8, <3>1
  <2> QED BY <2>1, <2>2
<1>10. Valid(cand', store')
  BY <1>1, <1>9 DEF Valid
<1>11. ASSUME NEW k \in CampaignId, k # j PROVE Elsewhere(k)
  BY <1>3, <1>9, <1>11 DEF Elsewhere, Members
<1> QED BY <1>1, <1>4, <1>10, <1>11 DEF Harmless

\* The checks of a settled attempt are all there.
ChecksKept ==
  \A a \in Attempt, d \in Drv :
    att[a].state = "finished" => (<<a, d>> \in tests' <=> <<a, d>> \in tests)

\* A build is settled: it becomes the evidence of what it gained and lost, and
\* its outcomes say which.
LEMMA FinishBuildEffect ==
  ASSUME IInv, EInv, NEW w \in Attempt, FinishBuild(w)
  PROVE  /\ EInv' /\ Grown /\ ChecksKept
         /\ \A k \in CampaignId : k # att[w].campaign => Elsewhere(k)
<1> DEFINE
      j == att[w].campaign
      targets == att[w].targets
      closure == ClosureOf(att[w].targets)
      complete == {d \in closure : Satisfied(d, DOMAIN Outputs[d], store)}
      failures == IF att[w].reason \in {"build-error", "unsupported"}
                  THEN att[w].broken ELSE {}
      local == {d \in complete : Provenance(w, d) = "local"}
      gained == Claimed(w, complete)
      lost == (closure \cap failures) \ complete
      checked == IF att[w].reason = "log-limit" THEN {} ELSE local \cap Checked
      av == (available \cup gained) \ lost
      fl == Failures(gained, lost)
      proof == Proof(w, gained, lost)
      drained == [c \in Candidate |->
        IF /\ CampaignOf[c] = j /\ cand[c].drv \in targets
           /\ cand[c].state = "running"
        THEN [cand[c] EXCEPT !.state = "queued"] ELSE cand[c]]
      fresh == Refreshed(j, drained, av, fl, exclusion)
      error == IF att[w].reason = "cancelled" THEN "cancelled" ELSE "other"
      verdict == Rewritten(j, fresh, targets, {"queued"}, "inconclusive", error)
      rejected == /\ att[w].location = "remote"
                  /\ att[w].reason = "unsupported" /\ failures = {}
      again == Rewritten(j, verdict, targets, {"inconclusive"}, "queued", "none")
      outcomes == Snapshot(w, checked, proof, av, fl)
<1>1. /\ w \in Builds
      /\ available' = av /\ failure' = fl /\ evidence' = proof
      /\ tests' = tests \cup ({w} \X checked)
      /\ cand' = IF rejected THEN again ELSE verdict
      /\ att' = [att EXCEPT ![w].state = "finished",
                            ![w].begun = FALSE, ![w].before = {},
                            ![w].outcomes = outcomes]
      /\ UNCHANGED <<exclusion, store>>
  BY DEF FinishBuild
<1>2. /\ att \in [Attempt -> AttemptRow] /\ att[w] \in AttemptRow
      /\ att[w].state = "active" /\ j \in CampaignId
      /\ att[w].broken \subseteq att[w].activities
      /\ cand \in [Candidate -> CandidateRow]
      /\ exclusion \in SUBSET Drv /\ known \subseteq Drv
      /\ available \subseteq known /\ failure \subseteq known
      /\ Paths(available) \subseteq store
  BY <1>1 DEF IInv, TypeOK, Together, Builds, Active, Snapshots, EInv, Ran
<1>3. /\ \A a \in Attempt : a # w => att'[a] = att[a]
      /\ att'[w].state = "finished" /\ att'[w].outcomes = outcomes
      /\ att'[w].broken = att[w].broken /\ att'[w].activities = att[w].activities
  BY <1>1, <1>2 DEF AttemptRow
<1>4. Grown
  BY <1>2, <1>3 DEF Grown, Sealed
<1>5. Ran'
  BY <1>3 DEF EInv, Ran
<1>6. ChecksKept
  BY <1>1, <1>2 DEF ChecksKept
<1>7. gained \subseteq complete /\ lost \cap gained = {}
  BY DEF Claimed
<1>8. fl = (failure \ gained) \cup lost
  BY DEF Failures
<1>9. available' \cap failure' = {}
  <2> HIDE DEF gained, lost
  <2> QED BY <1>1, <1>7, <1>8 DEF EInv
<1>10. lost \subseteq Drv /\ complete \subseteq Drv
  <2>1. att[w].targets \in SUBSET Drv
    BY <1>2 DEF AttemptRow
  <2>2. closure \subseteq Drv
    BY <2>1, ClosureClosed
  <2> QED BY <2>2
<1>11. \A d \in Drv : proof[d] = IF d \in gained \cup lost THEN w ELSE evidence[d]
  <2> HIDE DEF gained, lost
  <2> QED BY DEF Proof
<1>12. /\ \A d \in lost : d \in att[w].activities /\ d \notin checked
       /\ \A d \in checked : d \in att[w].activities /\ d \in Drv
  BY <1>2, <1>10 DEF Provenance
<1> HIDE DEF closure, complete, failures, local, gained, lost, checked, rejected, proof
<1>13. /\ \A d \in checked : outcomes[d] = "tested"
       /\ \A d \in lost : outcomes[d] = "failed"
  <2>1. \A d \in Drv : outcomes[d] =
          IF d \notin att[w].activities THEN "none"
          ELSE IF d \in checked THEN "tested"
          ELSE IF proof[d] = w /\ d \in av THEN "built"
          ELSE IF proof[d] = w /\ d \in fl THEN "failed"
          ELSE "unknown"
    BY DEF Snapshot
  <2> HIDE DEF outcomes
  <2>2. \A d \in lost : d \notin av /\ d \in fl /\ proof[d] = w /\ d \in Drv
    BY <1>8, <1>10, <1>11
  <2> QED BY <1>12, <2>1, <2>2
<1> HIDE DEF outcomes
<1>14. Backed'
  <2> SUFFICES ASSUME NEW d \in fl
               PROVE  /\ proof[d] \in Attempt
                      /\ att'[proof[d]].state = "finished"
                      /\ att'[proof[d]].outcomes[d] = "failed"
    BY <1>1 DEF Backed
  <2>1. CASE d \in lost
    BY <1>3, <1>10, <1>11, <1>13, <2>1
  <2>2. CASE d \notin lost
    <3>1. d \in failure /\ d \in Drv /\ proof[d] = evidence[d]
      BY <1>2, <1>8, <1>11, <2>2
    <3>2. /\ evidence[d] \in Attempt /\ att[evidence[d]].state = "finished"
          /\ att[evidence[d]].outcomes[d] = "failed"
      BY <3>1 DEF EInv, Backed
    <3>3. evidence[d] # w
      BY <1>2, <3>2
    <3> QED BY <1>3, <3>1, <3>2, <3>3
  <2> QED BY <2>1, <2>2
<1>15. Earned'
  <2> SUFFICES ASSUME NEW a \in Attempt, NEW d \in Drv, <<a, d>> \in tests'
               PROVE  att'[a].state = "finished" /\ att'[a].outcomes[d] = "tested"
    BY DEF Earned
  <2>1. CASE a = w /\ d \in checked
    BY <1>3, <1>13, <2>1
  <2>2. CASE <<a, d>> \in tests
    <3>1. att[a].state = "finished" /\ att[a].outcomes[d] = "tested"
      BY <2>2 DEF EInv, Earned
    <3>2. a # w
      BY <1>2, <3>1
    <3> QED BY <1>3, <3>1, <3>2
  <2> QED BY <1>1, <2>1, <2>2
<1>16. Paths(av) \subseteq store
  BY <1>1, FinishBuildInv DEF IInv, Snapshots
<1> HIDE DEF av, fl
<1>17. ASSUME NEW c \in Candidate
       PROVE  /\ drained[c] \in CandidateRow
              /\ drained[c].state = "available" => drained[c] = cand[c]
              /\ CampaignOf[c] # j => drained[c] = cand[c]
  BY <1>2 DEF CandidateRow, State
<1>18. drained \in [Candidate -> CandidateRow]
  BY <1>17
<1> HIDE DEF drained, j, targets
<1>19. /\ Valid(fresh, store)
       /\ \A c \in Candidate : /\ CampaignOf[c] # j => fresh[c] = cand[c]
                               /\ fresh[c] \in CandidateRow
  <2>1. Valid(drained, store)
    BY <1>17 DEF EInv, Valid
  <2>2. Valid(fresh, store)
    BY <1>2, <1>16, <1>18, <2>1, RefreshedValid
  <2>3. ASSUME NEW c \in Candidate
        PROVE  fresh[c] \in CandidateRow /\ (CampaignOf[c] # j => fresh[c] = drained[c])
    BY <1>2, <1>18, RefreshedRow
  <2> QED BY <1>17, <2>2, <2>3
<1> HIDE DEF fresh
<1>20. ASSUME NEW c \in Candidate
       PROVE  /\ CampaignOf[c] # j => verdict[c] = fresh[c]
              /\ verdict[c] = fresh[c] \/ verdict[c].state = "inconclusive"
  BY <1>19 DEF Rewritten, CandidateRow
<1>21. ASSUME NEW c \in Candidate
       PROVE  /\ CampaignOf[c] # j => again[c] = verdict[c]
              /\ again[c] = verdict[c] \/ again[c].state \in {"queued", "inconclusive"}
  <2> HIDE DEF verdict
  <2>1. again[c] = IF CampaignOf[c] = j /\ verdict[c].drv \in targets
                      /\ verdict[c].state \in {"inconclusive"}
                   THEN [verdict[c] EXCEPT !.state = "queued", !.error = "none"]
                   ELSE verdict[c]
    BY DEF Rewritten
  <2>2. verdict[c] \in CandidateRow
    <3>1. verdict[c] = IF CampaignOf[c] = j /\ fresh[c].drv \in targets
                          /\ fresh[c].state \in {"queued"}
                       THEN [fresh[c] EXCEPT !.state = "inconclusive", !.error = error]
                       ELSE fresh[c]
      BY DEF verdict, Rewritten
    <3> QED BY <1>19, <3>1 DEF CandidateRow, State, Error
  <2> HIDE DEF again
  <2> QED BY <2>1, <2>2 DEF CandidateRow
<1> HIDE DEF verdict, again
<1>22. ASSUME NEW c \in Candidate
       PROVE  /\ CampaignOf[c] # j => cand'[c] = cand[c]
              /\ cand'[c].state = "available" => cand'[c] = fresh[c]
  BY <1>1, <1>19, <1>20, <1>21
<1>23. Valid(cand', store')
  BY <1>1, <1>19, <1>22 DEF Valid
<1>24. ASSUME NEW k \in CampaignId, k # j PROVE Elsewhere(k)
  BY <1>3, <1>22, <1>24 DEF Elsewhere, Members
<1> QED BY <1>4, <1>5, <1>6, <1>9, <1>14, <1>15, <1>23, <1>24 DEF EInv, j

-----------------------------------------------------------------------------
(* Admission and commands.                                                 *)

\* A command that rewrites rows of a campaign and refreshes it.
LEMMA TableEffect ==
  ASSUME IInv, EInv, Grown, NEW j \in CampaignId,
         NEW table \in [Candidate -> CandidateRow], NEW fl, NEW ex \in SUBSET Drv,
         cand' = Refreshed(j, table, available, fl, ex),
         failure' \subseteq failure, UNCHANGED <<available, evidence, tests, store>>,
         \A a \in Attempt : /\ att'[a].state = att[a].state
                            /\ att'[a].campaign = att[a].campaign,
         \A c \in Candidate :
           /\ CampaignOf[c] # j => table[c] = cand[c]
           /\ table[c].state = "available" => table[c] = cand[c]
  PROVE  Harmless /\ \A k \in CampaignId : k # j => Elsewhere(k)
<1>1. Paths(available) \subseteq store
  BY DEF IInv, Snapshots
<1>2. Valid(table, store)
  BY DEF EInv, Valid
<1>3. Valid(cand', store')
  BY <1>1, <1>2, RefreshedValid
<1>4. ASSUME NEW c \in Candidate, CampaignOf[c] # j PROVE cand'[c] = cand[c]
  BY <1>4, RefreshedRow
<1>5. \A k \in CampaignId : k # j => Elsewhere(k)
  BY <1>4 DEF Elsewhere, Members
<1> QED BY <1>3, <1>5 DEF Harmless

\* Admission finds nothing to build in a campaign that is done.
LEMMA AdmitEffect ==
  ASSUME IInv, EInv, NEW j \in CampaignId, Admit(j)
  PROVE  Harmless /\ \A k \in CampaignId : Resting(k) => Elsewhere(k)
<1>1. ASSUME AdmitBatch(j) PROVE Harmless /\ \A k \in CampaignId : Resting(k) => Elsewhere(k)
  <2> DEFINE targets == BatchTargets(j)
  <2>1. UNCHANGED <<graphVars, store>> /\ targets # {}
    BY <1>1 DEF AdmitBatch
  <2>2. PICK t \in targets : t \in Listed(j)
    BY <2>1 DEF BatchTargets, First
  <2>3. ~Resting(j)
    BY <2>2, ListedQueued DEF Resting, Finished
  <2> HIDE DEF targets
  <2>4. CASE Raise
    BY <2>1, <2>4, StillEffect DEF Raise, graphVars
  <2>5. ASSUME NEW w \in Attempt, OpenBuild(w, j, targets, "any", Observed(j))
        PROVE  Harmless /\ \A k \in CampaignId : Resting(k) => Elsewhere(k)
    BY <2>1, <2>3, <2>5, OpenBuildEffect
  <2> QED BY <1>1, <2>4, <2>5 DEF AdmitBatch, targets
<1>2. ASSUME AdmitRolling(j) \/ AdmitNoBuild(j)
      PROVE  Harmless /\ \A k \in CampaignId : Resting(k) => Elsewhere(k)
  BY <1>2, StillEffect DEF AdmitRolling, AdmitNoBuild, graphVars
<1> QED BY <1>1, <1>2 DEF Admit

\* Nor is there anything to plan.
LEMMA TickEffect ==
  ASSUME IInv, EInv, Tick
  PROVE  Harmless /\ \A k \in CampaignId : Resting(k) => Elsewhere(k)
<1> DEFINE Fine == Harmless /\ \A k \in CampaignId : Resting(k) => Elsewhere(k)
           j == ctl.campaign
<1>1. ctl.pc \in {"rolling", "skip", "plan"} => j \in CampaignId
  BY DEF IInv, Turn
<1>2. ASSUME RollingBuild PROVE Fine
  <2>1. UNCHANGED <<graphVars, store>> /\ j \in CampaignId
    BY <1>1, <1>2 DEF RollingBuild
  <2>2. PICK d \in First(j, 1, Admissible) :
          \/ \E w \in Attempt, location \in Locations(j, d, ctl.avail) :
               OpenBuild(w, j, {d}, location, ctl.avail)
          \/ Raise
    BY <1>2 DEF RollingBuild
  <2>3. d \in ctl.list
    BY <2>2 DEF First, Admissible
  <2>4. ~Resting(j)
    BY <2>3 DEF IInv, Turn, Resting, Finished
  <2>5. CASE Raise
    BY <2>1, <2>5, StillEffect DEF Raise, graphVars
  <2>6. ASSUME NEW w \in Attempt, NEW location \in Locations(j, d, ctl.avail),
               OpenBuild(w, j, {d}, location, ctl.avail)
        PROVE  Fine
    <3>1. Harmless /\ \A k \in CampaignId : k # j => Elsewhere(k)
      <4> HIDE DEF j
      <4> QED BY <2>1, <2>6, OpenBuildEffect
    <3> QED BY <2>4, <3>1
  <2> QED BY <2>2, <2>5, <2>6
<1>3. ASSUME RollingEnd \/ AdmitSkip PROVE Fine
  BY <1>3, StillEffect DEF RollingEnd, AdmitSkip, graphVars
<1>4. ASSUME AdmitPlan PROVE Fine
  <2>1. UNCHANGED <<graphVars, store>> /\ j \in CampaignId
    BY <1>1, <1>4 DEF AdmitPlan
  <2>2. \/ \E ids \in SUBSET (replans \cap Members(j)), p \in Attempt :
             ids # {} /\ OpenPlan(p, j, ids, "fix")
        \/ \E ids \in SUBSET Members(j), p \in Attempt :
             /\ ids # {} /\ \A c \in ids : cand[c].state = "unplanned"
             /\ OpenPlan(p, j, ids, "base")
        \/ UNCHANGED <<cand, att>>
    BY <1>4 DEF AdmitPlan, Raise
  <2>3. CASE UNCHANGED <<cand, att>>
    BY <2>1, <2>3, StillEffect DEF graphVars
  <2>4. ASSUME NEW ids \in SUBSET (replans \cap Members(j)), NEW p \in Attempt,
               ids # {}, OpenPlan(p, j, ids, "fix")
        PROVE  Fine
    <3>1. ~Resting(j)
      BY <2>4 DEF Resting
    <3>2. Harmless /\ \A k \in CampaignId : k # j => Elsewhere(k)
      <4> HIDE DEF j
      <4> QED BY <2>1, <2>4, OpenPlanEffect
    <3> QED BY <3>1, <3>2
  <2>5. ASSUME NEW ids \in SUBSET Members(j), NEW p \in Attempt,
               ids # {}, \A c \in ids : cand[c].state = "unplanned",
               OpenPlan(p, j, ids, "base")
        PROVE  Fine
    <3>1. ~Resting(j)
      BY <2>5 DEF Resting, Finished
    <3>2. Harmless /\ \A k \in CampaignId : k # j => Elsewhere(k)
      <4> HIDE DEF j
      <4> QED BY <2>1, <2>5, OpenPlanEffect
    <3> QED BY <3>1, <3>2
  <2> QED BY <2>2, <2>3, <2>4, <2>5
<1> QED BY <1>2, <1>3, <1>4 DEF Tick

\* Commands change one campaign, and no settled attempt but a cancelled build.
LEMMA OperatorEffect ==
  ASSUME IInv, CInv, EInv, NEW j \in CampaignId, Operator(j)
  PROVE  Harmless /\ \A k \in CampaignId : k # j => Elsewhere(k)
<1> DEFINE Fine == Harmless /\ \A k \in CampaignId : k # j => Elsewhere(k)
<1>1. /\ cand \in [Candidate -> CandidateRow] /\ exclusion \in SUBSET Drv
      /\ att \in [Attempt -> AttemptRow] /\ known \subseteq Drv
      /\ \A c \in Candidate : cand[c] \in CandidateRow
      /\ Sound(cand, known)
  BY DEF IInv, TypeOK, Shapes
<1>2. UNCHANGED att => Grown
  BY DEF Grown, Sealed
<1>3. ASSUME NEW ids \in SUBSET Candidate, NEW revision \in {"base", "fix"},
             Plan(j, ids, revision)
      PROVE  Fine
  <2>1. /\ UNCHANGED <<graphVars, store>>
        /\ ids \in SUBSET Members(j)
        /\ \E p \in Attempt : OpenPlan(p, j, ids, revision)
    BY <1>3 DEF Plan, PlanAllowed, Members
  <2> QED BY <2>1, OpenPlanEffect
<1>4. ASSUME NEW ids \in SUBSET Candidate, QueueReplan(j, ids) PROVE Fine
  BY <1>4, StillEffect DEF QueueReplan, graphVars
<1>5. ASSUME NEW ids \in SUBSET Candidate, BuildOnce(j, ids) PROVE Fine
  <2>1. /\ UNCHANGED <<graphVars, store>>
        /\ \E w \in Attempt, targets \in {{cand[c].drv : c \in ids}},
              location \in {IF policy[j].rolling THEN "local" ELSE "any"},
              admitted \in {Seen({}), {}} :
              OpenBuild(w, j, targets, location, admitted)
    BY <1>5 DEF BuildOnce
  <2> QED BY <2>1, OpenBuildEffect
<1>6. ASSUME NEW ids \in SUBSET Candidate, Retry(j, ids) PROVE Fine
  <2> DEFINE ds == {cand[c].drv : c \in ids}
             table == [c \in Candidate |->
               IF CampaignOf[c] = j /\ cand[c].drv \in ds
               THEN [cand[c] EXCEPT !.state = "queued", !.error = "none"] ELSE cand[c]]
             fl == failure \ ds
  <2>1. /\ cand' = Refreshed(j, table, available, fl, exclusion) /\ failure' = fl
        /\ UNCHANGED <<available, evidence, tests, store, att>>
    BY <1>6 DEF Retry
  <2> HIDE DEF ds
  <2>2. ASSUME NEW c \in Candidate
        PROVE  /\ table[c] \in CandidateRow
               /\ CampaignOf[c] # j => table[c] = cand[c]
               /\ table[c].state = "available" => table[c] = cand[c]
    BY <1>1 DEF CandidateRow, State, Error
  <2>3. table \in [Candidate -> CandidateRow]
    BY <2>2
  <2> HIDE DEF table
  <2> QED BY <1>1, <1>2, <2>1, <2>2, <2>3, TableEffect
<1>7. ASSUME NEW d \in Drv, RetryDerivation(j, d) PROVE Fine
  <2>1. /\ cand' = Refreshed(j, cand, available, failure', exclusion)
        /\ failure' = failure \ {d}
        /\ UNCHANGED <<available, evidence, tests, store, att>>
    BY <1>7 DEF RetryDerivation
  <2> QED BY <1>1, <1>2, <2>1, TableEffect
<1>8. ASSUME NEW m \in {"paused", "running"}, SetMode(j, m) PROVE Fine
  BY <1>8, StillEffect DEF SetMode, graphVars
<1>9. ASSUME NEW p \in Policies, Schedule(j, p) PROVE Fine
  BY <1>9, StillEffect DEF Schedule, graphVars
<1>10. ASSUME NEW cancelled \in {{}} \cup {{a} : a \in Attempt},
              ExcludeKernels(j, cancelled)
       PROVE  Fine
  <2> DEFINE
        selected == Kernels \cap Members(j)
        excluded == exclusion
          \cup (known \cap KernelDrv \cap OutOfScope)
          \cup ({cand[c].drv : c \in selected} \ {NoDrv})
        marked == [c \in Candidate |->
          IF c \in selected
          THEN [cand[c] EXCEPT !.state = "excluded", !.error = "scope"]
          ELSE cand[c]]
        table == [c \in Candidate |->
          IF c \notin selected /\ \E a \in cancelled : Collateral(j, a, c)
          THEN [marked[c] EXCEPT !.state = "queued", !.error = "none"]
          ELSE marked[c]]
  <2>1. /\ \A a \in cancelled : /\ att[a].reason \in {"cancelled", "excluded"}
                                /\ att[a].state = "finished"
        /\ exclusion' = excluded
        /\ cand' = Refreshed(j, table, available, failure, excluded)
        /\ att' = [a \in Attempt |->
             IF a \in cancelled THEN [att[a] EXCEPT !.reason = "excluded"] ELSE att[a]]
        /\ UNCHANGED <<available, failure, evidence, tests, store>>
    BY <1>10 DEF ExcludeKernels
  <2>2. \A a \in Attempt :
          /\ att'[a].state = att[a].state /\ att'[a].campaign = att[a].campaign
          /\ att'[a].kind = att[a].kind /\ att'[a].targets = att[a].targets
          /\ att'[a].ids = att[a].ids /\ att'[a].activities = att[a].activities
          /\ att'[a].broken = att[a].broken /\ att'[a].outcomes = att[a].outcomes
          /\ \/ att'[a].reason = att[a].reason
             \/ a \in cancelled /\ att'[a].reason = "excluded"
    <3> SUFFICES ASSUME NEW a \in Attempt, NEW n, n = att'[a]
                 PROVE  /\ n.state = att[a].state /\ n.campaign = att[a].campaign
                        /\ n.kind = att[a].kind /\ n.targets = att[a].targets
                        /\ n.ids = att[a].ids /\ n.activities = att[a].activities
                        /\ n.broken = att[a].broken /\ n.outcomes = att[a].outcomes
                        /\ \/ n.reason = att[a].reason
                           \/ a \in cancelled /\ n.reason = "excluded"
      OBVIOUS
    <3>1. att[a] \in AttemptRow
      BY <1>1
    <3>2. CASE a \in cancelled
      <4>1. n = [att[a] EXCEPT !.reason = "excluded"]
        BY <2>1, <3>2
      <4> QED BY <3>1, <3>2, <4>1 DEF AttemptRow
    <3>3. CASE a \notin cancelled
      BY <2>1, <3>3
    <3> QED BY <3>2, <3>3
  <2>3. Grown
    <3>1. ASSUME NEW a \in cancelled
          PROVE  att[a].reason # "completed" /\ \E k \in CampaignId : ExcludeKernels(k, {a})
      <4>1. cancelled = {a}
        BY <3>1
      <4> QED BY <1>10, <2>1, <4>1
    <3> QED BY <2>2, <3>1 DEF Grown, Sealed
  <2>4. excluded \in SUBSET Drv
    <3>1. cancelled \in SUBSET Attempt
      OBVIOUS
    <3>2. IInv'
      BY <1>10, <3>1, ExcludeKernelsInv
    <3> QED BY <2>1, <3>2 DEF IInv, TypeOK
  <2>5. ASSUME NEW c \in Candidate
        PROVE  /\ table[c] \in CandidateRow
               /\ CampaignOf[c] # j => table[c] = cand[c]
               /\ table[c].state = "available" => table[c] = cand[c]
    <3>1. \/ table[c] = cand[c]
          \/ /\ table[c] = [cand[c] EXCEPT !.state = "excluded", !.error = "scope"]
             /\ CampaignOf[c] = j
          \/ /\ table[c] = [cand[c] EXCEPT !.state = "queued", !.error = "none"]
             /\ CampaignOf[c] = j
      BY DEF Collateral, Members
    <3> HIDE DEF table
    <3> QED BY <1>1, <3>1 DEF CandidateRow, State, Error
  <2>6. table \in [Candidate -> CandidateRow]
    BY <2>5
  <2> HIDE DEF table, excluded
  <2> QED BY <2>1, <2>2, <2>3, <2>4, <2>5, <2>6, TableEffect
<1>11. ASSUME ExcludeToolchains(j) PROVE Fine
  <2> DEFINE excluded == exclusion \cup (known \cap ToolchainDrv \cap OutOfScope)
             table == [c \in Candidate |->
               IF CampaignOf[c] = j /\ cand[c].state = "blocked"
               THEN [cand[c] EXCEPT !.state = "queued"] ELSE cand[c]]
  <2>1. /\ cand' = Refreshed(j, table, available, failure, excluded)
        /\ UNCHANGED <<available, failure, evidence, tests, store, att>>
    BY <1>11 DEF ExcludeToolchains
  <2>2. excluded \in SUBSET Drv
    BY <1>1
  <2>3. ASSUME NEW c \in Candidate
        PROVE  /\ table[c] \in CandidateRow
               /\ CampaignOf[c] # j => table[c] = cand[c]
               /\ table[c].state = "available" => table[c] = cand[c]
    BY <1>1 DEF CandidateRow, State
  <2>4. table \in [Candidate -> CandidateRow]
    BY <2>3
  <2> HIDE DEF table, excluded
  <2> QED BY <1>2, <2>1, <2>2, <2>3, <2>4, TableEffect
<1> QED BY <1>3, <1>4, <1>5, <1>6, <1>7, <1>8, <1>9, <1>10, <1>11 DEF Operator

-----------------------------------------------------------------------------
(* Every step.                                                             *)

\* A harmless step keeps the record true.
LEMMA HarmlessInv ==
  ASSUME EInv, Harmless
  PROVE  EInv' /\ ChecksKept
<1>1. Ran'
  BY DEF EInv, Ran, Harmless, Grown
<1>2. Backed'
  <2> SUFFICES ASSUME NEW d \in failure'
               PROVE  /\ evidence'[d] \in Attempt
                      /\ att'[evidence'[d]].state = "finished"
                      /\ att'[evidence'[d]].outcomes[d] = "failed"
    BY DEF Backed
  <2>1. /\ evidence[d] \in Attempt /\ att[evidence[d]].state = "finished"
        /\ att[evidence[d]].outcomes[d] = "failed"
    BY DEF Harmless, EInv, Backed
  <2> QED BY <2>1 DEF Harmless, Grown, Sealed
<1>3. Earned'
  <2> SUFFICES ASSUME NEW a \in Attempt, NEW d \in Drv, <<a, d>> \in tests'
               PROVE  att'[a].state = "finished" /\ att'[a].outcomes[d] = "tested"
    BY DEF Earned
  <2>1. att[a].state = "finished" /\ att[a].outcomes[d] = "tested"
    BY DEF EInv, Earned, Harmless
  <2> QED BY <2>1 DEF Harmless, Grown, Sealed
<1>4. available' \cap failure' = {}
  BY DEF EInv, Harmless
<1>5. ChecksKept
  BY DEF ChecksKept, Harmless
<1> QED BY <1>1, <1>2, <1>3, <1>4, <1>5 DEF EInv, Harmless

\* New campaigns have nothing on record.
LEMMA EvidenceInit == Init => EInv
<1> SUFFICES ASSUME Init PROVE EInv
  OBVIOUS
<1>1. \A a \in Attempt : att[a].broken = {}
  BY DEF Init, Unused
<1>2. \A c \in Candidate : cand[c].state # "available"
  BY DEF Init
<1> QED BY <1>1, <1>2 DEF Init, EInv, Backed, Earned, Ran, Valid

\* What every step does: the record stays true, what is settled is kept, and a
\* campaign that is done is left alone unless a command is given to it.
LEMMA EvidenceStep ==
  ASSUME IInv, CInv, EInv, [Next]_vars
  PROVE  /\ EInv' /\ Grown /\ ChecksKept
         /\ \A k \in CampaignId : Resting(k) => Elsewhere(k) \/ Operator(k)
<1> DEFINE Quiet == \A k \in CampaignId : Resting(k) => Elsewhere(k) \/ Operator(k)
           Fine == EInv' /\ Grown /\ ChecksKept /\ Quiet
<1>1. ASSUME Harmless, Quiet PROVE Fine
  BY <1>1, HarmlessInv DEF Harmless
<1>2. ASSUME NEW a \in Attempt, a \in Active PROVE ~Resting(att[a].campaign)
  BY <1>2 DEF Active, Resting, Finished, Attempts
<1>3. CASE UNCHANGED vars
  BY <1>1, <1>3, StillEffect DEF vars, graphVars
<1>4. ASSUME NEW a \in Attempt, Worker(a) PROVE Fine
  BY <1>1, <1>4, WorkerEffect
<1>5. ASSUME NEW a \in Attempt, FinishPlan(a) PROVE Fine
  <2>1. a \in Active
    BY <1>5 DEF FinishPlan, Plans
  <2> QED BY <1>1, <1>2, <1>5, <2>1, FinishPlanEffect
<1>6. ASSUME NEW a \in Attempt, FinishBuild(a) PROVE Fine
  <2>1. a \in Active
    BY <1>6 DEF FinishBuild, Builds
  <2> QED BY <1>2, <1>6, <2>1, FinishBuildEffect
<1>7. ASSUME NEW a \in Attempt, Cancel(a) PROVE Fine
  BY <1>1, <1>7, StillEffect DEF Cancel, graphVars
<1>8. ASSUME NEW k \in CampaignId, Admit(k) PROVE Fine
  BY <1>1, <1>8, AdmitEffect
<1>9. ASSUME NEW k \in CampaignId, Operator(k) PROVE Fine
  BY <1>1, <1>9, OperatorEffect
<1>10. CASE Tick
  BY <1>1, <1>10, TickEffect
<1>11. CASE Restart
  BY <1>1, <1>11, StillEffect DEF Restart, graphVars
<1>12. CASE Upgrade
  BY <1>1, <1>12, StillEffect DEF Upgrade, graphVars
<1> QED BY <1>3, <1>4, <1>5, <1>6, <1>7, <1>8, <1>9, <1>10, <1>11, <1>12 DEF Next, Settle

\* The record is true in every reachable state.
THEOREM EvidenceInv == Spec => []EInv
<1>1. IInv /\ CInv /\ EInv /\ [Next]_vars => EInv'
  BY EvidenceStep
<1> QED BY <1>1, EvidenceInit, CampaignInv, CandidateInv, PTL DEF Spec

-----------------------------------------------------------------------------
\* What the pages show as failed leads to a settled attempt whose outcome is that
\* failure, what they show as tested was checked and is valid, and no derivation
\* is both available and failed, whatever is retried, settled or excluded.
THEOREM EvidenceStaysTrue == Spec => []EvidenceTrue
<1>1. IInv /\ EInv => EvidenceTrue
  <2> SUFFICES ASSUME IInv, EInv PROVE EvidenceTrue
    OBVIOUS
  <2>1. FactsConsistent
    BY DEF IInv, Snapshots, EInv, FactsConsistent
  <2>2. ASSUME NEW d \in failure
        PROVE  evidence[d] # NoAttempt /\ ActivityStatus(evidence[d], d) = "failed"
    <3>1. /\ evidence[d] \in Attempt /\ att[evidence[d]].state = "finished"
          /\ att[evidence[d]].outcomes[d] = "failed"
      BY DEF EInv, Backed
    <3>2. d \in Drv
      BY DEF IInv, TypeOK
    <3>3. <<evidence[d], d>> \notin tests
      BY <3>1, <3>2 DEF EInv, Earned
    <3> QED BY <3>1, <3>3, CampaignAssumption DEF ActivityStatus
  <2>3. FailureHasEvidence
    <3> SUFFICES ASSUME NEW k \in CampaignId, NEW c \in Candidate, CampaignOf[c] = k
                 PROVE  /\ cand[c].state = "failed" /\ cand[c].drv \in failure =>
                             LET log == Package(k, c).log
                             IN  log # NoAttempt /\ ActivityStatus(log, cand[c].drv) = "failed"
                        /\ \A b \in Package(k, c).blockers :
                             b[1] \in failure => b[2] # NoAttempt /\ ActivityStatus(b[2], b[1]) = "failed"
      BY DEF FailureHasEvidence
    <3>1. ASSUME cand[c].state = "failed", cand[c].drv \in failure
          PROVE  Package(k, c).log = evidence[cand[c].drv]
      BY <2>2, <3>1 DEF Package, Evidence
    <3>2. \A b \in Package(k, c).blockers : b[2] = evidence[b[1]]
      BY DEF Package, Evidence
    <3> QED BY <2>2, <3>1, <3>2
  <2>4. TestedIsReal
    <3> SUFFICES ASSUME NEW k \in CampaignId
                 PROVE  /\ Tested(k) = {cand[c].drv : c \in Packages(k, "tested").rows}
                        /\ \A d \in Tested(k) :
                             /\ Paths({d}) \subseteq store
                             /\ \E a \in Attempts(k) :
                                  att[a].state = "finished" /\ att[a].outcomes[d] = "tested"
      BY DEF TestedIsReal
    <3>1. \A c \in Candidate : cand[c].state = "available" => cand[c].drv \in Drv
      BY DEF IInv, TypeOK, Shapes, Sound
    <3>2. Packages(k, "tested").rows =
            {c \in Members(k) : Row(k, c).state = "available" /\ Row(k, c).checks # {}}
      BY DEF Packages, Selected
    <3>3. ASSUME NEW c \in Members(k)
          PROVE  /\ Row(k, c).state = cand[c].state
                 /\ cand[c].state = "available" => Row(k, c).checks = ChecksOf(k, cand[c].drv)
      BY DEF Row
    <3>4. Packages(k, "tested").rows =
            {c \in Members(k) : cand[c].state = "available" /\ ChecksOf(k, cand[c].drv) # {}}
      BY <3>2, <3>3
    <3>5. Tested(k) = {cand[c].drv : c \in Packages(k, "tested").rows}
      BY <3>1, <3>4 DEF Tested, Members
    <3>6. ASSUME NEW d \in Tested(k)
          PROVE  /\ Paths({d}) \subseteq store
                 /\ \E a \in Attempts(k) :
                      att[a].state = "finished" /\ att[a].outcomes[d] = "tested"
      <4>1. PICK c \in Members(k) : cand[c].drv = d /\ cand[c].state = "available"
        BY DEF Tested
      <4>2. Paths({d}) \subseteq store
        BY <4>1 DEF EInv, Valid, Members
      <4>3. PICK a \in Attempts(k) : <<a, d>> \in tests
        BY DEF Tested, ChecksOf
      <4>4. a \in Attempt /\ d \in Drv
        BY DEF Attempts, Tested
      <4> QED BY <4>2, <4>3, <4>4 DEF EInv, Earned
    <3> QED BY <3>5, <3>6
  <2> QED BY <2>1, <2>3, <2>4 DEF EvidenceTrue
<1> QED BY <1>1, CampaignInv, EvidenceInv, PTL

\* A settled attempt is in the same totals, on the same page and in the same row
\* of the ledger after any step; only the exclusion of a cancelled kernel changes
\* its status.
LEMMA SettledStep ==
  ASSUME IInv, EInv, Grown, ChecksKept
  PROVE  /\ \A k \in CampaignId, o \in {"complete", "error"} : Totals(k)'[o] >= Totals(k)[o]
         /\ \A a \in Attempt :
              /\ att[a].state = "finished"
              /\ ~\E k \in CampaignId : ExcludeKernels(k, {a})
              => LET k == att[a].campaign
                 IN  Detail(a)' = Detail(a) /\ Ledger(k)'[a] = Ledger(k)[a]
<1>1. ASSUME NEW a \in Attempt, att[a].state = "finished"
      PROVE  /\ att'[a].state = "finished" /\ att'[a].campaign = att[a].campaign
             /\ att'[a].targets = att[a].targets /\ att'[a].ids = att[a].ids
             /\ att'[a].activities = att[a].activities
             /\ att'[a].outcomes = att[a].outcomes
             /\ Outcome(a)' = Outcome(a)
  BY <1>1 DEF Grown, Sealed, Outcome
<1>2. ASSUME NEW k \in CampaignId, NEW o \in {"complete", "error"}
      PROVE  Totals(k)'[o] >= Totals(k)[o]
  <2> DEFINE S == {a \in Attempts(k) : Outcome(a) = o}
             T == {a \in Attempts(k)' : Outcome(a)' = o}
  <2>1. ASSUME NEW a \in S PROVE a \in T
    <3>1. a \in Attempt /\ att[a].state = "finished" /\ att[a].campaign = k
      BY DEF Attempts, Outcome
    <3> QED BY <1>1, <3>1 DEF Attempts
  <2>2. IsFiniteSet(T)
    <3>1. T \subseteq Attempt
      BY DEF Attempts
    <3> QED BY <3>1, FS_Subset, CampaignAssumption
  <2>3. /\ Cardinality(S) <= Cardinality(T)
        /\ Cardinality(S) \in Nat /\ Cardinality(T) \in Nat
    <3>1. S \subseteq T
      BY <2>1
    <3>2. IsFiniteSet(S) /\ Cardinality(S) <= Cardinality(T)
      BY <2>2, <3>1, FS_Subset
    <3> QED BY <2>2, <3>2, FS_CardinalityType
  <2>4. Totals(k)[o] = Cardinality(S) /\ Totals(k)'[o] = Cardinality(T)
    BY DEF Totals
  <2> HIDE DEF S, T
  <2> QED BY <2>3, <2>4
<1>3. ASSUME NEW a \in Attempt, att[a].state = "finished",
             ~\E k \in CampaignId : ExcludeKernels(k, {a})
      PROVE  LET k == att[a].campaign
             IN  Detail(a)' = Detail(a) /\ Ledger(k)'[a] = Ledger(k)[a]
  <2>1. att'[a].reason = att[a].reason
    BY <1>3 DEF Grown, Sealed
  <2>2. Status(a)' = Status(a)
    BY <1>1, <1>3, <2>1 DEF Status
  <2>3. \A d \in Drv : <<a, d>> \in tests' <=> <<a, d>> \in tests
    BY <1>3 DEF ChecksKept
  <2>4. {d \in Drv : <<a, d>> \in tests'} = {d \in Drv : <<a, d>> \in tests}
    BY <2>3
  <2>5. att[a].activities \subseteq Drv
    BY DEF IInv, TypeOK, AttemptRow
  <2>6. \A d \in att[a].activities : ActivityStatus(a, d)' = ActivityStatus(a, d)
    BY <1>1, <1>3, <2>3, <2>5 DEF ActivityStatus
  <2>7. [d \in att'[a].activities |-> ActivityStatus(a, d)'] =
          [d \in att[a].activities |-> ActivityStatus(a, d)]
    BY <1>1, <1>3, <2>6
  <2>8. Detail(a)' = Detail(a)
    BY <1>1, <1>3, <2>2, <2>4, <2>7 DEF Detail
  <2> DEFINE k == att[a].campaign
  <2>9. a \in Attempts(k) /\ a \in Attempts(k)'
    BY <1>1, <1>3 DEF Attempts
  <2>10. Ledger(k)'[a] = Ledger(k)[a]
    BY <1>1, <1>3, <2>2, <2>4, <2>9 DEF Ledger
  <2> QED BY <2>8, <2>10
<1> QED BY <1>2, <1>3

\* Nothing is retried and nothing settled is rewritten without a command: outcomes
\* belong to attempts, in whatever order they are settled and whatever is cleared,
\* retried or planned again later.
THEOREM NothingHappensUnasked == Spec => NothingUnasked
<1> DEFINE A == /\ \A k \in CampaignId, o \in {"complete", "error"} :
                     Totals(k)'[o] >= Totals(k)[o]
                /\ \A a \in Attempt :
                     /\ att[a].state = "finished"
                     /\ ~\E k \in CampaignId : ExcludeKernels(k, {a})
                     => LET k == att[a].campaign
                        IN  Detail(a)' = Detail(a) /\ Ledger(k)'[a] = Ledger(k)[a]
<1>1. ASSUME IInv, CInv, EInv, [Next]_vars PROVE A
  BY <1>1, EvidenceStep, SettledStep
<1>2. Spec => DetailFrozen
  BY <1>1, CampaignInv, CandidateInv, EvidenceInv, PTL DEF Spec, DetailFrozen
<1> QED BY <1>2, NeverSilentlyRetried, PTL DEF NothingUnasked

\* A page that stopped refreshing misses nothing: a campaign that is done and has
\* no replan queued stays done until a command is given to it, also while another
\* campaign works on the same derivations.
THEOREM DoneUntilAsked == Spec => DoneStays
<1> DEFINE A == \A k \in CampaignId :
      Finished(k) /\ replans \cap Members(k) = {} /\ ~Finished(k)' => Operator(k)
<1>1. ASSUME IInv, IInv', CInv, EInv, [Next]_vars PROVE A
  BY <1>1, EvidenceStep, ElsewhereRests DEF Resting
<1> QED BY <1>1, CampaignInv, CandidateInv, EvidenceInv, PTL DEF Spec, DoneStays

\* A failure that the ranking counts as the only one in the way of a package is:
\* with it cleared, a refresh does not find the package blocked.
THEOREM SoleBlockersSuffice == Spec => []SoleBlockerSuffices
<1>1. IInv => SoleBlockerSuffices
  <2> SUFFICES ASSUME IInv, NEW k \in CampaignId, NEW f \in Failing(k), NEW c \in Sole(k, f),
                      NEW n, n = Refreshed(k, cand, available, failure \ {f}, exclusion)[c],
                      n.state = "blocked"
               PROVE  FALSE
    BY DEF SoleBlockerSuffices
  <2> DEFINE d == cand[c].drv
             fl == failure \ {f}
  <2>1. /\ c \in Candidate /\ CampaignOf[c] = k /\ cand[c].state = "blocked"
        /\ Causes(k, c) = {f}
    BY DEF Sole, Blocks, Members
  <2>2. /\ cand \in [Candidate -> CandidateRow] /\ cand[c] \in CandidateRow
        /\ exclusion \in SUBSET Drv /\ d \in Drv /\ d # NoDrv /\ failure \subseteq Drv
    BY <2>1, CampaignAssumption DEF IInv, TypeOK, Shapes, Sound
  <2>3. d \notin fl /\ d \in Reaches(fl \ exclusion)
    <3> DEFINE observed ==
          IF d \in available THEN "available"
          ELSE IF d \in fl THEN "failed"
          ELSE IF d \in Reaches(fl \ exclusion) THEN "blocked"
          ELSE "queued"
    <3>1. n = IF d \in exclusion
              THEN [cand[c] EXCEPT !.state = "excluded", !.error = "scope"]
              ELSE IF observed \in {"queued", "blocked"} /\ d \in Reaches(exclusion)
                   THEN [cand[c] EXCEPT !.state = "excluded", !.error = "inherited"]
              ELSE [cand[c] EXCEPT !.state = observed]
      BY <2>1, <2>2 DEF Refreshed, Kept
    <3>2. observed = "blocked" => d \notin fl /\ d \in Reaches(fl \ exclusion)
      OBVIOUS
    <3> HIDE DEF observed, d
    <3>3. observed = "blocked"
      BY <2>2, <3>1 DEF CandidateRow
    <3> QED BY <3>2, <3>3
  <2>4. PICK g \in Deps[d] : g \in fl /\ g \notin exclusion
    BY <2>3 DEF Reaches
  <2>5. g \in Scope(k)
    <3>1. d \in Roots(k)
      BY <2>1, <2>2 DEF Roots, Members
    <3> QED BY <2>4, <3>1 DEF Scope, ClosureOf
  <2>6. g \in Failing(k) /\ c \in Blocks(k, g)
    BY <2>1, <2>3, <2>4, <2>5 DEF Failing, Blocks, Members
  <2>7. g \in Causes(k, c)
    BY <2>6 DEF Causes
  <2> QED BY <2>1, <2>4, <2>7
<1> QED BY <1>1, CampaignInv, PTL

-----------------------------------------------------------------------------
\* The remote lane: what the remote builders rejected once is never again theirs
\* to build.

Own(a) == Needed(Edges, att[a].targets, store)

\* A remote attempt is a build of one root, and has nothing to realize that was
\* rejected before.
RemoteAlone ==
  \A b \in Active : att[b].location = "remote" =>
    /\ b \in Builds
    /\ \E t \in Drv : att[b].targets = {t}
    /\ Own(b) \cap localOnly = {}

\* Only a build that has ended can be unsupported.  As long as it is not settled
\* its root is still its own to realize: nobody else does.
RejectedWaits ==
  \A a \in Attempt : att[a].reason = "unsupported" =>
    /\ att[a].kind = "build" /\ att[a].phase = "ended" /\ att[a].state # "none"
    /\ att[a].state = "active" =>
         att[a].location = "remote" /\ att[a].targets \subseteq Own(a)

\* A settled rejection is remembered.
RejectedStays ==
  \A a \in Attempt :
    /\ att[a].state = "finished" /\ att[a].reason = "unsupported"
    /\ att[a].broken = {}
    => att[a].targets \subseteq localOnly

\* Planners realize nothing.
BuildersWork ==
  \A a \in Active : att[a].phase = "working" => att[a].kind = "build"

FInv == RemoteAlone /\ RejectedWaits /\ RejectedStays /\ BuildersWork

-----------------------------------------------------------------------------
\* A single target that needs anything needs itself.
LEMMA NeedsItself ==
  ASSUME NEW t \in Drv, NEW paths, Needed(Edges, {t}, paths) # {}
  PROVE  t \in Needed(Edges, {t}, paths)
<1>1. CASE Satisfied(t, DOMAIN Outputs[t], paths)
  <2>1. ClosedUnderNeed(Edges, {t}, paths, {})
    BY <1>1 DEF ClosedUnderNeed
  <2> QED BY <2>1 DEF Needed
<1>2. CASE ~Satisfied(t, DOMAIN Outputs[t], paths)
  BY <1>2, NeededClosed DEF ClosedUnderNeed
<1> QED BY <1>1, <1>2

\* What a single target has to realize itself is a path that is not valid yet.
LEMMA MissingPath ==
  ASSUME NEW t \in Drv, NEW paths, t \in Needed(Edges, {t}, paths)
  PROVE  \E p \in Path : p \in Paths({t}) /\ p \notin paths
<1>1. ~Satisfied(t, DOMAIN Outputs[t], paths)
  <2>1. ~ClosedUnderNeed(Edges, {t}, paths, {})
    BY DEF Needed
  <2> QED BY <2>1 DEF ClosedUnderNeed
<1> DEFINE out == {OutputPath(t, o) : o \in DOMAIN Outputs[t]}
<1>2. out # {} /\ NoPath \notin out
  BY CampaignAssumption DEF OutputPath
<1>3. PICK p \in out : p \notin paths
  BY <1>1, <1>2 DEF Satisfied
<1>4. PICK o \in DOMAIN Outputs[t] : p = Outputs[t][o]
  BY <1>3 DEF OutputPath
<1>5. p \in Path
  BY <1>2, <1>3, <1>4, GraphAssumption
<1> QED BY <1>3, <1>4, <1>5 DEF Paths

\* And it stays so as long as that path is not valid.
LEMMA StillNeeded ==
  ASSUME NEW t \in Drv, NEW paths, NEW p \in Path, p \in Paths({t}), p \notin paths
  PROVE  t \in Needed(Edges, {t}, paths)
<1>1. PICK o \in DOMAIN Outputs[t] : Outputs[t][o] = p
  BY DEF Paths
<1>2. ~Satisfied(t, DOMAIN Outputs[t], paths)
  BY <1>1 DEF Satisfied, OutputPath
<1> QED BY <1>2, NeededClosed DEF ClosedUnderNeed

\* A build that realizes a derivation of its own leaves the root of a rejected
\* build as it is: no path has two owners.
LEMMA OthersRealize ==
  ASSUME IInv, NEW a \in Builds, NEW t \in Drv, att[a].targets = {t}, t \in Own(a),
         NEW w \in Builds, w # a, NEW d \in Own(w), store' = store \cup Paths({d})
  PROVE  t \in Needed(Edges, {t}, store')
<1>1. Paths(Own(a)) \cap Paths(Own(w)) = {}
  BY DEF IInv, ExclusiveOwnership, Own
<1>2. PICK p \in Path : p \in Paths({t}) /\ p \notin store
  BY MissingPath DEF Own
<1>3. p \in Paths(Own(a))
  BY <1>2 DEF Paths
<1>4. Paths({d}) \subseteq Paths(Own(w))
  BY DEF Paths
<1>5. p \notin store'
  BY <1>1, <1>2, <1>3, <1>4
<1> QED BY <1>2, <1>5, StillNeeded

-----------------------------------------------------------------------------
\* Steps that leave the attempts and the routing alone.
LEMMA SameFallback ==
  ASSUME FInv, UNCHANGED <<att, store, localOnly>>
  PROVE  FInv'
<1>1. Active' = Active /\ Builds' = Builds /\ \A a : Own(a)' = Own(a)
  BY DEF Active, Builds, Own
<1>2. RemoteAlone'
  BY <1>1 DEF FInv, RemoteAlone
<1>3. RejectedWaits' /\ RejectedStays' /\ BuildersWork'
  BY <1>1 DEF FInv, RejectedWaits, RejectedStays, BuildersWork
<1> QED BY <1>2, <1>3 DEF FInv

\* A step of one active attempt, which stays active, in a growing store: it is
\* enough to look at a rejection that is not settled yet.
LEMMA ActiveFallback ==
  ASSUME IInv, FInv, NEW w \in Active, store \subseteq store', UNCHANGED localOnly,
         \A a \in Attempt : a # w => att'[a] = att[a],
         att'[w].state = "active" /\ att'[w].kind = att[w].kind,
         att'[w].location = att[w].location /\ att'[w].targets = att[w].targets,
         att'[w].phase = "working" => att[w].kind = "build",
         att'[w].reason = "unsupported" =>
           /\ att'[w].kind = "build" /\ att'[w].phase = "ended"
           /\ att'[w].location = "remote" /\ att'[w].targets \subseteq Own(w)',
         \A a \in Builds : \A t \in Drv :
           /\ a # w /\ att[a].targets = {t} /\ t \in Own(a)
           /\ att[a].phase = "ended"
           => t \in Needed(Edges, {t}, store')
  PROVE  FInv'
<1>1. w \in Attempt /\ att[w].state = "active"
  BY DEF Active
<1>2. /\ Active' = Active /\ Builds' = Builds
      /\ \A a \in Attempt : /\ att'[a].targets = att[a].targets
                            /\ att'[a].location = att[a].location
  BY <1>1 DEF Active, Builds
<1>3. \A a \in Attempt : Own(a)' \subseteq Own(a)
  BY <1>2, NeededShrinks DEF Own
<1>4. RemoteAlone'
  BY <1>2, <1>3 DEF FInv, RemoteAlone, Active
<1>5. RejectedStays'
  BY <1>1 DEF FInv, RejectedStays
<1>6. RejectedWaits'
  <2> SUFFICES ASSUME NEW a \in Attempt, att'[a].reason = "unsupported"
               PROVE  /\ att'[a].kind = "build" /\ att'[a].phase = "ended"
                      /\ att'[a].state # "none"
                      /\ att'[a].state = "active" =>
                           /\ att'[a].location = "remote"
                           /\ att'[a].targets \subseteq Own(a)'
    BY DEF RejectedWaits
  <2>1. CASE a = w
    BY <2>1
  <2>2. CASE a # w
    <3>1. att'[a] = att[a]
      BY <2>2
    <3>2. /\ att[a].kind = "build" /\ att[a].phase = "ended" /\ att[a].state # "none"
          /\ att[a].state = "active" =>
               att[a].location = "remote" /\ att[a].targets \subseteq Own(a)
      BY <3>1 DEF FInv, RejectedWaits
    <3>3. ASSUME att[a].state = "active" PROVE att[a].targets \subseteq Own(a)'
      <4>1. a \in Builds
        BY <3>2, <3>3 DEF Builds, Active
      <4>2. PICK t \in Drv : att[a].targets = {t}
        BY <3>2, <3>3, <4>1 DEF FInv, RemoteAlone, Builds
      <4>3. t \in Needed(Edges, {t}, store')
        BY <2>2, <3>2, <3>3, <4>1, <4>2
      <4> QED BY <3>1, <4>2, <4>3 DEF Own
    <3> QED BY <3>1, <3>2, <3>3
  <2> QED BY <2>1, <2>2
<1>7. BuildersWork'
  BY <1>2 DEF FInv, BuildersWork, Active
<1> QED BY <1>4, <1>5, <1>6, <1>7 DEF FInv

\* Workers.
LEMMA WorkerFallback ==
  ASSUME IInv, FInv, NEW w \in Attempt, Worker(w)
  PROVE  FInv'
<1>1. att \in [Attempt -> AttemptRow] /\ att[w] \in AttemptRow
  BY DEF IInv, TypeOK
<1>2. UNCHANGED localOnly /\ store \subseteq store'
  BY DEF Worker, PlanEnd, BuildBegin, Realize, Break, Substitute, BuildEnd, graphVars
<1>3. \A a \in Builds : \A t \in Drv : UNCHANGED store /\ att[a].targets = {t} /\ t \in Own(a) =>
        t \in Needed(Edges, {t}, store')
  BY DEF Own
<1>4. att[w].reason = "unsupported" => att[w].kind = "build" /\ att[w].phase = "ended"
  BY DEF FInv, RejectedWaits
<1>5. ASSUME NEW rows \in SUBSET att[w].ids, PlanEnd(w, rows) PROVE FInv'
  <2>1. /\ w \in Active /\ att[w].phase = "waiting" /\ UNCHANGED store
        /\ att' = [att EXCEPT ![w].phase = "ended", ![w].rows = rows]
    BY <1>5 DEF PlanEnd, Plans
  <2>2. /\ \A a \in Attempt : a # w => att'[a] = att[a]
        /\ att'[w].state = "active" /\ att'[w].kind = att[w].kind
        /\ att'[w].location = att[w].location /\ att'[w].targets = att[w].targets
        /\ att'[w].reason = att[w].reason /\ att'[w].phase = "ended"
    BY <1>1, <2>1 DEF AttemptRow, Active
  <2> QED BY <1>2, <1>3, <1>4, <2>1, <2>2, ActiveFallback
<1>6. ASSUME BuildBegin(w) PROVE FInv'
  <2>1. /\ w \in Active /\ att[w].kind = "build" /\ att[w].phase = "waiting"
        /\ UNCHANGED store
        /\ att' = [att EXCEPT ![w].phase = "working", ![w].begun = TRUE,
                     ![w].before = store \cap Paths(ClosureOf(att[w].targets))]
    BY <1>6 DEF BuildBegin, Builds
  <2>2. /\ \A a \in Attempt : a # w => att'[a] = att[a]
        /\ att'[w].state = "active" /\ att'[w].kind = att[w].kind
        /\ att'[w].location = att[w].location /\ att'[w].targets = att[w].targets
        /\ att'[w].reason = att[w].reason
    BY <1>1, <2>1 DEF AttemptRow, Active
  <2> QED BY <1>2, <1>3, <1>4, <2>1, <2>2, ActiveFallback
<1>7. ASSUME NEW d \in Drv, Realize(w, d) \/ Substitute(w, d) PROVE FInv'
  <2>1. /\ w \in Active /\ att[w].phase = "working" /\ d \in Own(w)
        /\ store' = store \cup Paths({d})
    BY <1>7 DEF Realize, Buildable, Substitute, Working, Active, Own
  <2>2. /\ \A a \in Attempt : a # w => att'[a] = att[a]
        /\ att'[w].state = "active" /\ att'[w].kind = att[w].kind
        /\ att'[w].location = att[w].location /\ att'[w].targets = att[w].targets
        /\ att'[w].reason = att[w].reason
    <3>1. CASE Realize(w, d)
      BY <1>1, <2>1, <3>1 DEF Realize, AttemptRow, Active
    <3>2. CASE Substitute(w, d)
      BY <1>1, <2>1, <3>2 DEF Substitute, Active
    <3> QED BY <1>7, <3>1, <3>2
  <2>3. w \in Builds /\ att[w].kind = "build"
    BY <2>1 DEF FInv, BuildersWork, Builds
  <2>4. \A a \in Builds : \A t \in Drv :
          a # w /\ att[a].targets = {t} /\ t \in Own(a) => t \in Needed(Edges, {t}, store')
    BY <2>1, <2>3, OthersRealize
  <2> QED BY <1>2, <1>4, <2>1, <2>2, <2>3, <2>4, ActiveFallback
<1>8. ASSUME NEW d \in Drv, Break(w, d) PROVE FInv'
  <2>1. /\ w \in Active /\ att[w].phase = "working" /\ UNCHANGED store
        /\ att' = [att EXCEPT ![w].activities = @ \cup {d}, ![w].broken = @ \cup {d}]
    BY <1>8 DEF Break, Buildable, Working, Active
  <2>3. att[w].kind = "build"
    BY <2>1 DEF FInv, BuildersWork
  <2>2. /\ \A a \in Attempt : a # w => att'[a] = att[a]
        /\ att'[w].state = "active" /\ att'[w].kind = att[w].kind
        /\ att'[w].location = att[w].location /\ att'[w].targets = att[w].targets
        /\ att'[w].reason = att[w].reason
    BY <1>1, <2>1 DEF AttemptRow, Active
  <2> QED BY <1>2, <1>3, <1>4, <2>1, <2>2, <2>3, ActiveFallback
<1>9. ASSUME BuildEnd(w) PROVE FInv'
  <2>1. PICK reason \in Reason :
          /\ reason = "unsupported" =>
               /\ att[w].location = "remote"
               /\ Needed(Edges, att[w].targets, store) # {}
          /\ att' = [att EXCEPT ![w].phase = "ended", ![w].reason = reason]
    BY <1>9 DEF BuildEnd
  <2>2. w \in Active /\ w \in Builds /\ att[w].kind = "build" /\ UNCHANGED store
    BY <1>9 DEF BuildEnd, Builds
  <2>3. /\ \A a \in Attempt : a # w => att'[a] = att[a]
        /\ att'[w].state = "active" /\ att'[w].kind = att[w].kind
        /\ att'[w].location = att[w].location /\ att'[w].targets = att[w].targets
        /\ att'[w].reason = reason /\ att'[w].phase = "ended"
    BY <1>1, <2>1, <2>2 DEF AttemptRow, Active
  <2>4. ASSUME reason = "unsupported" PROVE att[w].targets \subseteq Own(w)'
    <3>1. PICK t \in Drv : att[w].targets = {t}
      BY <2>1, <2>2, <2>4 DEF FInv, RemoteAlone
    <3>2. t \in Needed(Edges, {t}, store)
      BY <2>1, <2>4, <3>1, NeedsItself
    <3> QED BY <2>2, <2>3, <3>1, <3>2 DEF Own
  <2> QED BY <1>2, <1>3, <2>1, <2>2, <2>3, <2>4, ActiveFallback
<1> QED BY <1>5, <1>6, <1>7, <1>8, <1>9 DEF Worker

\* An attempt begins.
LEMMA OpenFallback ==
  ASSUME IInv, FInv, NEW w \in Attempt, att[w].state = "none",
         UNCHANGED <<localOnly, store>>,
         \A a \in Attempt : a # w => att'[a] = att[a],
         att'[w].state = "active" /\ att'[w].reason = "none" /\ att'[w].phase = "waiting",
         att'[w].location = "remote" =>
           /\ att'[w].kind = "build"
           /\ \E t \in Drv : att'[w].targets = {t}
           /\ Needed(Edges, att'[w].targets, store) \cap localOnly = {}
  PROVE  FInv'
<1>1. /\ Active' = Active \cup {w} /\ w \notin Active
      /\ \A a \in Active : a # w /\ att'[a] = att[a]
      /\ Builds' \subseteq Builds \cup {w} /\ Builds \subseteq Builds'
      /\ att'[w].kind = "build" => w \in Builds'
  BY DEF Active, Builds
<1>2. \A a \in Attempt : a # w => Own(a)' = Own(a)
  BY DEF Own
<1>3. RemoteAlone'
  <2> SUFFICES ASSUME NEW b \in Active', att'[b].location = "remote"
               PROVE  /\ b \in Builds'
                      /\ \E t \in Drv : att'[b].targets = {t}
                      /\ Own(b)' \cap localOnly = {}
    BY DEF RemoteAlone
  <2>1. CASE b = w
    BY <1>1, <2>1 DEF Own
  <2>2. CASE b # w
    <3>1. b \in Active /\ att'[b] = att[b] /\ b \in Attempt
      BY <1>1, <2>2 DEF Active
    <3> QED BY <1>1, <1>2, <2>2, <3>1 DEF FInv, RemoteAlone
  <2> QED BY <2>1, <2>2
<1>4. RejectedWaits'
  <2> SUFFICES ASSUME NEW a \in Attempt, att'[a].reason = "unsupported"
               PROVE  /\ att'[a].kind = "build" /\ att'[a].phase = "ended"
                      /\ att'[a].state # "none"
                      /\ att'[a].state = "active" =>
                           /\ att'[a].location = "remote"
                           /\ att'[a].targets \subseteq Own(a)'
    BY DEF RejectedWaits
  <2>1. a # w /\ att'[a] = att[a] /\ Own(a)' = Own(a)
    BY <1>2
  <2> QED BY <2>1 DEF FInv, RejectedWaits
<1>5. RejectedStays'
  BY DEF FInv, RejectedStays
<1>6. BuildersWork'
  BY <1>1 DEF FInv, BuildersWork
<1> QED BY <1>3, <1>4, <1>5, <1>6 DEF FInv

\* A planner begins.
LEMMA OpenPlanFallback ==
  ASSUME IInv, FInv, NEW p \in Attempt, NEW k, NEW ids, NEW revision,
         OpenPlan(p, k, ids, revision), UNCHANGED <<graphVars, store>>
  PROVE  FInv'
<1>1. att \in [Attempt -> AttemptRow] /\ att[p].state = "none"
  BY DEF IInv, TypeOK, OpenPlan, Fresh
<1>2. /\ \A a \in Attempt : a # p => att'[a] = att[a]
      /\ att'[p].state = "active" /\ att'[p].reason = "none"
      /\ att'[p].phase = "waiting" /\ att'[p].location = "any"
  BY <1>1 DEF OpenPlan, Unused
<1> QED BY <1>1, <1>2, OpenFallback DEF graphVars

\* A build begins; a remote one has a single root, and needs nothing that was
\* rejected.
LEMMA OpenBuildFallback ==
  ASSUME IInv, FInv, NEW w \in Attempt, NEW k, NEW targets, NEW location, NEW admitted,
         OpenBuild(w, k, targets, location, admitted), UNCHANGED <<graphVars, store>>,
         location = "remote" =>
           /\ \E t \in Drv : targets = {t}
           /\ Needed(Edges, targets, store) \cap localOnly = {}
  PROVE  FInv'
<1>1. att \in [Attempt -> AttemptRow] /\ att[w].state = "none"
  BY DEF IInv, TypeOK, OpenBuild, Fresh
<1>2. /\ \A a \in Attempt : a # w => att'[a] = att[a]
      /\ att'[w].state = "active" /\ att'[w].reason = "none"
      /\ att'[w].phase = "waiting" /\ att'[w].location = location
      /\ att'[w].kind = "build" /\ att'[w].targets = targets
  BY <1>1 DEF OpenBuild, Unused
<1> QED BY <1>1, <1>2, OpenFallback DEF graphVars

\* An attempt is settled: what it leaves behind of a rejection is remembered.
LEMMA SettleFallback ==
  ASSUME IInv, FInv, NEW w \in Attempt, Settle(w)
  PROVE  FInv'
<1>1. /\ att \in [Attempt -> AttemptRow] /\ att[w] \in AttemptRow
      /\ att[w].state = "active" /\ UNCHANGED store
  BY DEF Settle, FinishPlan, FinishBuild, Plans, Builds, Active, IInv, TypeOK
<1>2. /\ \A a \in Attempt : a # w => att'[a] = att[a]
      /\ att'[w].state = "finished" /\ att'[w].kind = att[w].kind
      /\ att'[w].reason = att[w].reason /\ att'[w].phase = att[w].phase
      /\ att'[w].broken = att[w].broken /\ att'[w].targets = att[w].targets
  <2>1. CASE FinishPlan(w)
    <3>1. att' = [att EXCEPT ![w].state = "finished", ![w].rows = {}]
      BY <2>1 DEF FinishPlan
    <3> QED BY <1>1, <3>1 DEF AttemptRow
  <2>2. CASE FinishBuild(w)
    <3>1. \E outcomes : att' = [att EXCEPT ![w].state = "finished",
                            ![w].begun = FALSE, ![w].before = {},
                            ![w].outcomes = outcomes]
      BY <2>2 DEF FinishBuild
    <3> QED BY <1>1, <3>1 DEF AttemptRow
  <2> QED BY <2>1, <2>2 DEF Settle
<1>3. /\ localOnly \subseteq localOnly'
      /\ \/ localOnly' = localOnly
         \/ /\ localOnly' = localOnly \cup att[w].targets
            /\ att[w].reason = "unsupported" /\ w \in Builds
  BY DEF Settle, FinishPlan, FinishBuild
<1>4. att[w].reason = "unsupported" /\ att[w].broken = {} => att[w].targets \subseteq localOnly'
  <2> SUFFICES ASSUME att[w].reason = "unsupported", att[w].broken = {}
               PROVE  att[w].targets \subseteq localOnly'
    OBVIOUS
  <2>1. att[w].kind = "build" /\ att[w].location = "remote"
    BY <1>1 DEF FInv, RejectedWaits
  <2>2. FinishBuild(w)
    BY <2>1 DEF Settle, FinishPlan, Plans
  <2>3. localOnly' = localOnly \cup att[w].targets
    BY <2>1, <2>2 DEF FinishBuild
  <2> QED BY <2>3
<1>5. /\ Active' = Active \ {w} /\ Builds' = Builds \ {w}
      /\ \A a \in Attempt : a # w => Own(a)' = Own(a)
  BY <1>1, <1>2 DEF Active, Builds, Own
<1>6. RemoteAlone'
  <2> SUFFICES ASSUME NEW b \in Active', att'[b].location = "remote"
               PROVE  /\ b \in Builds'
                      /\ \E t \in Drv : att'[b].targets = {t}
                      /\ Own(b)' \cap localOnly' = {}
    BY DEF RemoteAlone
  <2>1. b \in Active /\ b # w /\ b \in Attempt /\ att'[b] = att[b] /\ Own(b)' = Own(b)
    BY <1>2, <1>5 DEF Active
  <2>2. b \in Builds /\ (\E t \in Drv : att[b].targets = {t}) /\ Own(b) \cap localOnly = {}
    BY <2>1 DEF FInv, RemoteAlone
  <2>3. CASE localOnly' = localOnly
    BY <1>5, <2>1, <2>2, <2>3
  <2>4. CASE localOnly' = localOnly \cup att[w].targets /\ att[w].reason = "unsupported" /\ w \in Builds
    <3>1. att[w].targets \subseteq Own(w)
      BY <1>1, <2>4 DEF FInv, RejectedWaits
    <3>2. Own(w) \cap Own(b) = {}
      BY <2>1, <2>2, <2>4 DEF IInv, ExclusiveOwnership, Own
    <3> QED BY <1>5, <2>1, <2>2, <2>4, <3>1, <3>2
  <2> QED BY <1>3, <2>3, <2>4
<1>7. RejectedWaits'
  <2> SUFFICES ASSUME NEW a \in Attempt, att'[a].reason = "unsupported"
               PROVE  /\ att'[a].kind = "build" /\ att'[a].phase = "ended"
                      /\ att'[a].state # "none"
                      /\ att'[a].state = "active" =>
                           /\ att'[a].location = "remote"
                           /\ att'[a].targets \subseteq Own(a)'
    BY DEF RejectedWaits
  <2>1. CASE a = w
    BY <1>2, <2>1 DEF FInv, RejectedWaits
  <2>2. CASE a # w
    <3>1. att'[a] = att[a] /\ Own(a)' = Own(a)
      BY <1>2, <1>5, <2>2
    <3> QED BY <3>1 DEF FInv, RejectedWaits
  <2> QED BY <2>1, <2>2
<1>8. RejectedStays'
  <2> SUFFICES ASSUME NEW a \in Attempt, att'[a].state = "finished",
                      att'[a].reason = "unsupported", att'[a].broken = {}
               PROVE  att'[a].targets \subseteq localOnly'
    BY DEF RejectedStays
  <2>1. CASE a = w
    BY <1>2, <1>4, <2>1
  <2>2. CASE a # w
    <3>1. att'[a] = att[a]
      BY <1>2, <2>2
    <3>2. att[a].targets \subseteq localOnly
      BY <3>1 DEF FInv, RejectedStays
    <3> QED BY <1>3, <3>1, <3>2
  <2> QED BY <2>1, <2>2
<1>9. BuildersWork'
  <2>1. \A a \in Active' : a \in Active /\ att'[a] = att[a]
    BY <1>2, <1>5 DEF Active
  <2> QED BY <2>1 DEF FInv, BuildersWork
<1> QED BY <1>6, <1>7, <1>8, <1>9 DEF FInv

\* exclude-kernels: a rejection may be given another reason, never taken on.
LEMMA ExcludeFallback ==
  ASSUME IInv, FInv, NEW k \in CampaignId, NEW cancelled \in SUBSET Attempt,
         ExcludeKernels(k, cancelled)
  PROVE  FInv'
<1>1. /\ att' = [a \in Attempt |->
           IF a \in cancelled THEN [att[a] EXCEPT !.reason = "excluded"] ELSE att[a]]
      /\ UNCHANGED <<localOnly, store>>
      /\ att \in [Attempt -> AttemptRow]
  BY DEF ExcludeKernels, IInv, TypeOK
<1>2. ASSUME NEW a \in Attempt
      PROVE  /\ att'[a].state = att[a].state /\ att'[a].kind = att[a].kind
             /\ att'[a].location = att[a].location /\ att'[a].targets = att[a].targets
             /\ att'[a].phase = att[a].phase /\ att'[a].broken = att[a].broken
             /\ att'[a].reason = "unsupported" => att[a].reason = "unsupported"
  <2>1. att[a] \in AttemptRow
    BY <1>1
  <2>2. CASE a \in cancelled
    <3>1. att'[a] = [att[a] EXCEPT !.reason = "excluded"]
      BY <1>1, <2>2
    <3> QED BY <2>1, <3>1 DEF AttemptRow
  <2>3. CASE a \notin cancelled
    BY <1>1, <2>3
  <2> QED BY <2>2, <2>3
<1>3. /\ Active' = Active /\ Builds' = Builds
      /\ \A a \in Attempt : Own(a)' = Own(a)
  BY <1>1, <1>2 DEF Active, Builds, Own
<1>4. RemoteAlone'
  BY <1>1, <1>2, <1>3 DEF FInv, RemoteAlone, Active
<1>5. RejectedWaits'
  BY <1>1, <1>2, <1>3 DEF FInv, RejectedWaits
<1>6. RejectedStays' /\ BuildersWork'
  BY <1>1, <1>2, <1>3 DEF FInv, RejectedStays, BuildersWork, Active
<1> QED BY <1>4, <1>5, <1>6 DEF FInv

\* Admission: a batch is never remote, and a rolling root goes to the remote
\* builders only if nothing it needs was rejected.
LEMMA AdmitFallback ==
  ASSUME IInv, FInv, NEW k \in CampaignId, Admit(k)
  PROVE  FInv'
<1>1. ASSUME AdmitBatch(k) PROVE FInv'
  <2>1. UNCHANGED <<graphVars, store>>
    BY <1>1 DEF AdmitBatch
  <2>2. CASE Raise
    BY <2>1, <2>2, SameFallback DEF Raise, graphVars
  <2>3. ASSUME NEW w \in Attempt, NEW location \in {"any"},
               OpenBuild(w, k, BatchTargets(k), location, Observed(k))
        PROVE  FInv'
    BY <2>1, <2>3, OpenBuildFallback
  <2> QED BY <1>1, <2>2, <2>3 DEF AdmitBatch
<1>2. ASSUME AdmitRolling(k) \/ AdmitNoBuild(k) PROVE FInv'
  BY <1>2, SameFallback DEF AdmitRolling, AdmitNoBuild, graphVars
<1> QED BY <1>1, <1>2 DEF Admit

\* The later steps of a tick.
LEMMA TickFallback ==
  ASSUME IInv, FInv, Tick
  PROVE  FInv'
<1>1. ASSUME RollingBuild PROVE FInv'
  <2>1. UNCHANGED <<graphVars, store>>
    BY <1>1 DEF RollingBuild
  <2>2. PICK d \in First(ctl.campaign, 1, Admissible) :
          \/ \E w \in Attempt, location \in Locations(ctl.campaign, d, ctl.avail) :
               OpenBuild(w, ctl.campaign, {d}, location, ctl.avail)
          \/ Raise
    BY <1>1 DEF RollingBuild
  <2>3. d \in Drv
    <3>1. d \in ctl.list
      BY <2>2 DEF First, Admissible
    <3> QED BY <3>1 DEF IInv, TypeOK, Position
  <2>4. CASE Raise
    BY <2>1, <2>4, SameFallback DEF Raise, graphVars
  <2>5. ASSUME NEW w \in Attempt, NEW location \in Locations(ctl.campaign, d, ctl.avail),
               OpenBuild(w, ctl.campaign, {d}, location, ctl.avail)
        PROVE  FInv'
    <3> DEFINE targets == {d}
    <3>1. ASSUME location = "remote"
          PROVE  Needed(Edges, targets, store) \cap localOnly = {}
      <4>1. Needed(Edges, targets, ctl.avail) \subseteq RemoteCapable \ localOnly
        BY <3>1 DEF Locations, RemoteEligible
      <4>2. ctl.avail \subseteq store
        BY DEF IInv, Snapshots
      <4>3. Needed(Edges, targets, store) \subseteq Needed(Edges, targets, ctl.avail)
        <5> HIDE DEF targets
        <5> QED BY <4>2, NeededShrinks
      <4> QED BY <4>1, <4>3
    <3>2. \E t \in Drv : targets = {t}
      BY <2>3
    <3>3. OpenBuild(w, ctl.campaign, targets, location, ctl.avail)
      BY <2>5
    <3> HIDE DEF targets
    <3> QED BY <2>1, <3>1, <3>2, <3>3, OpenBuildFallback
  <2> QED BY <2>2, <2>4, <2>5
<1>2. ASSUME RollingEnd \/ AdmitSkip PROVE FInv'
  BY <1>2, SameFallback DEF RollingEnd, AdmitSkip, graphVars
<1>3. ASSUME AdmitPlan PROVE FInv'
  <2>1. UNCHANGED <<graphVars, store>>
    BY <1>3 DEF AdmitPlan
  <2>2. \/ \E ids \in SUBSET Candidate, p \in Attempt, revision \in {"base", "fix"} :
             OpenPlan(p, ctl.campaign, ids, revision)
        \/ UNCHANGED att
    BY <1>3 DEF AdmitPlan, Raise, Members
  <2>3. CASE UNCHANGED att
    BY <2>1, <2>3, SameFallback DEF graphVars
  <2>4. ASSUME NEW ids \in SUBSET Candidate, NEW p \in Attempt,
               NEW revision \in {"base", "fix"}, OpenPlan(p, ctl.campaign, ids, revision)
        PROVE  FInv'
    BY <2>1, <2>4, OpenPlanFallback
  <2> QED BY <2>2, <2>3, <2>4
<1> QED BY <1>1, <1>2, <1>3 DEF Tick

\* A bounded build is local, and the other commands leave the attempts alone.
LEMMA OperatorFallback ==
  ASSUME IInv, FInv, NEW k \in CampaignId, Operator(k)
  PROVE  FInv'
<1>1. ASSUME NEW ids \in SUBSET Candidate, NEW revision \in {"base", "fix"},
             Plan(k, ids, revision)
      PROVE  FInv'
  <2>1. UNCHANGED <<graphVars, store>> /\ \E p \in Attempt : OpenPlan(p, k, ids, revision)
    BY <1>1 DEF Plan
  <2> QED BY <2>1, OpenPlanFallback
<1>2. ASSUME NEW ids \in SUBSET Candidate, BuildOnce(k, ids) PROVE FInv'
  <2>1. /\ UNCHANGED <<graphVars, store>>
        /\ \E w \in Attempt, targets \in {{cand[c].drv : c \in ids}},
              location \in {"local", "any"}, admitted \in {Seen({}), {}} :
              OpenBuild(w, k, targets, location, admitted)
    BY <1>2 DEF BuildOnce
  <2> QED BY <2>1, OpenBuildFallback
<1>3. ASSUME NEW ids \in SUBSET Candidate, QueueReplan(k, ids) \/ Retry(k, ids) PROVE FInv'
  BY <1>3, SameFallback DEF QueueReplan, Retry, graphVars
<1>4. ASSUME NEW d \in Drv, RetryDerivation(k, d) PROVE FInv'
  BY <1>4, SameFallback DEF RetryDerivation
<1>5. ASSUME NEW m \in {"paused", "running"}, SetMode(k, m) PROVE FInv'
  BY <1>5, SameFallback DEF SetMode, graphVars
<1>6. ASSUME NEW p \in Policies, Schedule(k, p) PROVE FInv'
  BY <1>6, SameFallback DEF Schedule, graphVars
<1>7. ASSUME NEW cancelled \in {{}} \cup {{a} : a \in Attempt}, ExcludeKernels(k, cancelled)
      PROVE  FInv'
  <2>1. cancelled \in SUBSET Attempt
    OBVIOUS
  <2> QED BY <1>7, <2>1, ExcludeFallback
<1>8. ASSUME ExcludeToolchains(k) PROVE FInv'
  BY <1>8, SameFallback DEF ExcludeToolchains
<1> QED BY <1>1, <1>2, <1>3, <1>4, <1>5, <1>6, <1>7, <1>8 DEF Operator

\* New campaigns have no attempts.
LEMMA FallbackInit == Init => FInv
<1> SUFFICES ASSUME Init PROVE FInv
  OBVIOUS
<1>1. \A a \in Attempt : att[a].state = "none" /\ att[a].reason = "none"
  BY DEF Init, Unused
<1> QED BY <1>1 DEF FInv, RemoteAlone, RejectedWaits, RejectedStays, BuildersWork, Active

\* Every step keeps the routing.
LEMMA FallbackStep ==
  ASSUME IInv, FInv, [Next]_vars
  PROVE  FInv'
<1>1. CASE UNCHANGED vars
  BY <1>1, SameFallback DEF vars, graphVars
<1>2. ASSUME NEW a \in Attempt, Worker(a) \/ Settle(a) PROVE FInv'
  BY <1>2, WorkerFallback, SettleFallback
<1>3. ASSUME NEW a \in Attempt, Cancel(a) PROVE FInv'
  BY <1>3, SameFallback DEF Cancel, graphVars
<1>4. ASSUME NEW k \in CampaignId, Admit(k) \/ Operator(k) PROVE FInv'
  BY <1>4, AdmitFallback, OperatorFallback
<1>5. CASE Tick
  BY <1>5, TickFallback
<1>6. CASE Restart \/ Upgrade
  BY <1>6, SameFallback DEF Restart, Upgrade, graphVars
<1> QED BY <1>1, <1>2, <1>3, <1>4, <1>5, <1>6 DEF Next

\* The routing of rejected roots is right in every reachable state.
THEOREM FallbackInv == Spec => []FInv
<1>1. IInv /\ FInv /\ [Next]_vars => FInv'
  BY FallbackStep
<1> QED BY <1>1, FallbackInit, CampaignInv, PTL DEF Spec

\* "Routes that root locally once": what the remote builders rejected is never
\* again theirs to build, neither as a root nor as an input, whichever lanes are
\* active when the rejection is settled and whatever they realize meanwhile.
THEOREM RejectedOnce == Spec => []FallbackOnce
<1>1. FInv => FallbackOnce
  BY DEF FInv, RemoteAlone, RejectedStays, FallbackOnce, Own, Active
<1> QED BY <1>1, FallbackInv, PTL

=============================================================================
