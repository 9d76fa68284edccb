--------------------------- MODULE CampaignProofs ---------------------------
(***************************************************************************)
(* The controller, for any graph, candidates, campaigns, policies and      *)
(* number of attempts: the database stays well formed, what it records as  *)
(* available is in the store, and no two active builds ever have the same  *)
(* derivation or output to realize.  The states of candidates agree with   *)
(* the builds that own their derivations and with their aliases, a planner *)
(* works on detached candidates, and what a command is needed for never    *)
(* happens without it.                                                     *)
(***************************************************************************)
EXTENDS Campaign, FiniteSetTheorems, TLAPS

(* The graph.                                                              *)

\* A derivation is in its own closure, and the closure of an input is part of
\* the closure.
LEMMA ClosureFacts ==
  ASSUME NEW d \in Drv
  PROVE  /\ Deps[d] \subseteq Drv
         /\ d \in Deps[d]
         /\ \A c \in Deps[d] : Deps[c] \subseteq Deps[d]
<1>1. Deps[d] \subseteq Drv /\ d \in Deps[d]
  BY DEF Deps, Closure
<1>2. ASSUME NEW c \in Deps[d] PROVE Deps[c] \subseteq Deps[d]
  <2>1. c \in Drv
    BY <1>1, <1>2
  <2>2. Deps[c] = Closure(Edges, c) /\ Deps[d] = Closure(Edges, d)
    BY <2>1 DEF Deps
  <2> SUFFICES ASSUME NEW x \in Closure(Edges, c) PROVE x \in Closure(Edges, d)
    BY <2>2
  <2> SUFFICES ASSUME NEW S \in SUBSET Drv, d \in S,
                      \A e \in Edges : e[1] \in S => e[2] \in S
               PROVE  x \in S
    BY DEF Closure
  <2>3. c \in S
    BY <1>2, <2>2 DEF Closure
  <2> QED BY <2>3 DEF Closure
<1> QED BY <1>1, <1>2

\* An output requirement met by some paths is met by more.
LEMMA SatisfiedGrows ==
  ASSUME NEW d, NEW required, NEW old, NEW new, old \subseteq new,
         Satisfied(d, required, old)
  PROVE  Satisfied(d, required, new)
BY DEF Satisfied

\* More valid paths never enlarge what has to be built.
LEMMA NeededShrinks ==
  ASSUME NEW targets, NEW old, NEW new, old \subseteq new
  PROVE  Needed(Edges, targets, new) \subseteq Needed(Edges, targets, old)
<1> SUFFICES ASSUME NEW S \in SUBSET Drv,
                    ClosedUnderNeed(Edges, targets, old, S)
             PROVE  ClosedUnderNeed(Edges, targets, new, S)
  BY DEF Needed
<1> QED BY SatisfiedGrows DEF ClosedUnderNeed

\* What has to be built is closed under need itself.
LEMMA NeededClosed ==
  ASSUME NEW targets \in SUBSET Drv, NEW paths
  PROVE  ClosedUnderNeed(Edges, targets, paths, Needed(Edges, targets, paths))
<1> DEFINE N == Needed(Edges, targets, paths)
<1>1. ASSUME NEW t \in targets, ~Satisfied(t, DOMAIN Outputs[t], paths)
      PROVE  t \in N
  BY <1>1 DEF Needed, ClosedUnderNeed
<1>2. ASSUME NEW e \in Edges, e[1] \in N, ~Satisfied(e[2], e[3], paths)
      PROVE  e[2] \in N
  <2>1. e[2] \in Drv
    BY CampaignAssumption DEF Edge
  <2>2. ASSUME NEW S \in SUBSET Drv, ClosedUnderNeed(Edges, targets, paths, S)
        PROVE  e[2] \in S
    <3>1. e[1] \in S
      BY <1>2, <2>2 DEF Needed
    <3> QED BY <1>2, <2>2, <3>1 DEF ClosedUnderNeed
  <2> QED BY <2>1, <2>2 DEF Needed
<1> QED BY <1>1, <1>2 DEF ClosedUnderNeed

\* What several targets need is what each of them needs.
LEMMA NeededByOne ==
  ASSUME NEW targets \in SUBSET Drv, NEW paths
  PROVE  Needed(Edges, targets, paths)
           \subseteq UNION {Needed(Edges, {t}, paths) : t \in targets}
<1> DEFINE U == UNION {Needed(Edges, {t}, paths) : t \in targets}
<1>1. U \in SUBSET Drv
  BY DEF Needed
<1>2. ASSUME NEW t \in targets PROVE ClosedUnderNeed(Edges, {t}, paths, Needed(Edges, {t}, paths))
  BY NeededClosed
<1>3. ClosedUnderNeed(Edges, targets, paths, U)
  <2>1. ASSUME NEW t \in targets, ~Satisfied(t, DOMAIN Outputs[t], paths)
        PROVE  t \in U
    <3>1. t \in Needed(Edges, {t}, paths)
      BY <1>2, <2>1 DEF ClosedUnderNeed
    <3> QED BY <3>1
  <2>2. ASSUME NEW e \in Edges, e[1] \in U, ~Satisfied(e[2], e[3], paths)
        PROVE  e[2] \in U
    <3>1. PICK t \in targets : e[1] \in Needed(Edges, {t}, paths)
      BY <2>2
    <3>2. e[2] \in Needed(Edges, {t}, paths)
      BY <1>2, <2>2, <3>1 DEF ClosedUnderNeed
    <3> QED BY <3>2
  <2> QED BY <2>1, <2>2 DEF ClosedUnderNeed
<1>4. ASSUME NEW d \in Needed(Edges, targets, paths) PROVE d \in U
  BY <1>1, <1>3, <1>4 DEF Needed
<1> QED BY <1>4

\* A derivation with all of its outputs valid has its paths in the store.
LEMMA SatisfiedPaths ==
  ASSUME NEW d \in Drv, NEW paths, Satisfied(d, DOMAIN Outputs[d], paths)
  PROVE  Paths({d}) \subseteq paths
BY DEF Satisfied, OutputPath, Paths

-----------------------------------------------------------------------------
(* The inductive invariant.                                                *)

\* What candidates and attempts refer to is on record, with everything it is
\* built from.
Recorded ==
  /\ \A d \in known : Deps[d] \subseteq known
  /\ \A a \in Attempt : att[a].targets \subseteq known

\* Only candidates that were not planned, could not be evaluated or were
\* excluded have no derivation, and the others have one on record.
Sound(table, recorded) ==
  \A c \in Candidate :
    /\ table[c].drv = NoDrv =>
         table[c].state \in {"unplanned", "evaluation-error", "excluded"}
    /\ table[c].drv # NoDrv =>
         table[c].drv \in recorded /\ table[c].state # "unplanned"
Shapes == Sound(cand, known)

\* Every snapshot anyone remembers is part of the store.
Snapshots ==
  /\ Paths(available) \subseteq store
  /\ \A a \in Attempt : att[a].before \subseteq store
  /\ ctl.avail \subseteq store

\* In the middle of a tick every active attempt belongs to the campaign being
\* served, there is no planner when it comes to planning, and the roots still to
\* be admitted are queued.
Turn ==
  /\ ctl.pc \in {"rolling", "skip", "plan"} =>
       /\ ctl.campaign \in CampaignId
       /\ \A a \in Active : att[a].campaign = ctl.campaign
  /\ ctl.pc = "plan" => Plans = {}
  /\ ctl.pc # "rolling" => ctl.list = {}
  /\ \A d \in ctl.list : \E c \in Members(ctl.campaign) :
       cand[c].drv = d /\ cand[c].state = "queued"

\* Active attempts have a campaign, all the same, and one of them may plan.
Together ==
  /\ \A a \in Active : /\ att[a].campaign \in CampaignId
                       /\ att[a].kind \in {"plan", "build"}
  /\ \A a, b \in Active : att[a].campaign = att[b].campaign
  /\ \A a, b \in Plans : a = b

IInv == TypeOK /\ Recorded /\ Shapes /\ Snapshots /\ Turn /\ Together
          /\ ExclusiveOwnership

\* New campaigns: nothing is recorded and nothing is active.
LEMMA InitInv == Init => IInv
<1> SUFFICES ASSUME Init PROVE IInv
  OBVIOUS
<1> USE CampaignAssumption DEF Init
<1>1. Unused \in AttemptRow
  BY DEF Unused, AttemptRow, Reason
<1>2. TypeOK
  <2>1. cand \in [Candidate -> CandidateRow]
    BY DEF CandidateRow, State, Error
  <2>2. ctl \in Position
    BY DEF Idle, Position
  <2>3. att \in [Attempt -> AttemptRow]
    BY <1>1
  <2>4. release \in {"old", "new"}
    OBVIOUS
  <2> QED BY <2>1, <2>2, <2>3, <2>4 DEF TypeOK
<1>3. \A a \in Attempt : /\ att[a].state = "none" /\ att[a].targets = {}
                         /\ att[a].before = {}
  BY DEF Unused
<1>4. Recorded
  BY <1>3 DEF Recorded
<1>5. Shapes
  BY DEF Shapes, Sound
<1>6. Snapshots
  BY <1>3 DEF Snapshots, Idle, Paths
<1>7. Active = {}
  BY <1>3 DEF Active
<1>8. Turn /\ Together /\ ExclusiveOwnership
  BY <1>7 DEF Turn, Together, ExclusiveOwnership, Plans, Builds, Idle
<1> QED BY <1>2, <1>4, <1>5, <1>6, <1>8 DEF IInv

-----------------------------------------------------------------------------
(* Candidates.                                                             *)

\* A refresh keeps the derivation of a candidate, and touches one campaign.
LEMMA RefreshedRow ==
  ASSUME NEW k, NEW table \in [Candidate -> CandidateRow], NEW av, NEW fl,
         NEW ex \in SUBSET Drv, NEW c \in Candidate,
         NEW n, n = Refreshed(k, table, av, fl, ex)[c]
  PROVE  /\ n \in CandidateRow
         /\ n.drv = table[c].drv
         /\ CampaignOf[c] # k => n = table[c]
         /\ table[c].drv = NoDrv => n.state = table[c].state
         /\ n.state = "unplanned" => table[c].state = "unplanned"
         /\ n.state = "running" => table[c].state = "running"
         /\ table[c].state = "running" /\ n.state # "running" =>
              n.state = "excluded" /\ table[c].drv \in ex
         /\ table[c].drv \in ex /\ CampaignOf[c] = k => n.state = "excluded"
<1>1. table[c] \in CandidateRow /\ table[c].state \in State
  BY DEF CandidateRow
<1>2. NoDrv \notin Drv
  BY CampaignAssumption
<1>3. NoDrv \notin Reaches(ex) /\ NoDrv \notin ex
  BY <1>2 DEF Reaches
<1> DEFINE observed ==
      IF table[c].drv = NoDrv \/ table[c].state \in Kept
      THEN table[c].state
      ELSE IF table[c].drv \in av THEN "available"
      ELSE IF table[c].drv \in fl THEN "failed"
      ELSE IF table[c].drv \in Reaches(fl \ ex) THEN "blocked"
      ELSE "queued"
<1>4. observed \in State
  BY <1>1 DEF State
<1>5. n = IF CampaignOf[c] # k THEN table[c]
          ELSE IF table[c].drv \in ex
               THEN [table[c] EXCEPT !.state = "excluded", !.error = "scope"]
          ELSE IF observed \in {"queued", "blocked"} /\ table[c].drv \in Reaches(ex)
               THEN [table[c] EXCEPT !.state = "excluded", !.error = "inherited"]
          ELSE [table[c] EXCEPT !.state = observed]
  BY DEF Refreshed
<1>6. observed = "unplanned" => table[c].state = "unplanned"
  OBVIOUS
<1>7. observed = "running" <=> table[c].state = "running"
  BY DEF Kept
<1>8. table[c].drv = NoDrv => observed = table[c].state
  OBVIOUS
<1> HIDE DEF observed
<1> QED BY <1>1, <1>3, <1>4, <1>5, <1>6, <1>7, <1>8, ZenonT(30) DEF CandidateRow, State, Error

\* A refreshed table is a sound table.
LEMMA RefreshedSound ==
  ASSUME NEW k, NEW table \in [Candidate -> CandidateRow], NEW av, NEW fl,
         NEW ex \in SUBSET Drv, NEW recorded, Sound(table, recorded)
  PROVE  /\ Refreshed(k, table, av, fl, ex) \in [Candidate -> CandidateRow]
         /\ Sound(Refreshed(k, table, av, fl, ex), recorded)
<1> DEFINE fresh == Refreshed(k, table, av, fl, ex)
<1>1. ASSUME NEW c \in Candidate
      PROVE  /\ fresh[c] \in CandidateRow
             /\ fresh[c].drv = table[c].drv
             /\ table[c].drv = NoDrv => fresh[c].state = table[c].state
             /\ fresh[c].state = "unplanned" => table[c].state = "unplanned"
  BY RefreshedRow
<1>2. fresh = [c \in Candidate |-> fresh[c]]
  BY DEF Refreshed
<1> HIDE DEF fresh
<1>3. fresh \in [Candidate -> CandidateRow]
  BY <1>1, <1>2
<1>4. Sound(fresh, recorded)
  BY <1>1 DEF Sound
<1> QED BY <1>3, <1>4 DEF fresh

\* Rewriting candidates that have one of some derivations is sound.
LEMMA RewrittenSound ==
  ASSUME NEW k, NEW table \in [Candidate -> CandidateRow], NEW ds \in SUBSET Drv,
         NEW from, NEW to \in State \ {"unplanned"}, NEW error \in Error,
         NEW recorded, Sound(table, recorded)
  PROVE  /\ Rewritten(k, table, ds, from, to, error) \in [Candidate -> CandidateRow]
         /\ Sound(Rewritten(k, table, ds, from, to, error), recorded)
<1> DEFINE new == Rewritten(k, table, ds, from, to, error)
<1>1. new \in [Candidate -> CandidateRow]
  BY DEF Rewritten, CandidateRow
<1>2. \A c \in Candidate :
         new[c] = IF CampaignOf[c] = k /\ table[c].drv \in ds /\ table[c].state \in from
                  THEN [table[c] EXCEPT !.state = to, !.error = error] ELSE table[c]
  BY DEF Rewritten
<1> HIDE DEF new
<1>3. \A c \in Candidate : /\ new[c].drv = table[c].drv
                           /\ \/ new[c].state = table[c].state
                              \/ new[c].state = to /\ table[c].drv \in ds
  BY <1>2 DEF CandidateRow
<1>4. Sound(new, recorded)
  BY <1>3, CampaignAssumption DEF Sound
<1> QED BY <1>1, <1>4 DEF new

-----------------------------------------------------------------------------
(* Attempts.                                                               *)

\* A step in which no attempt begins.
AttemptsKept ==
  \A a \in Attempt :
    /\ att'[a].kind = att[a].kind /\ att'[a].campaign = att[a].campaign
    /\ att'[a].targets = att[a].targets /\ att'[a].ids = att[a].ids
    /\ \/ att'[a].state = att[a].state
       \/ att[a].state = "active" /\ att'[a].state = "finished"

\* As long as none begins, the active attempts get along, also while the store
\* grows.
LEMMA KeptTogether ==
  ASSUME IInv, AttemptsKept, store \subseteq store'
  PROVE  /\ Together'
         /\ ExclusiveOwnership'
         /\ Active' \subseteq Active /\ Plans' \subseteq Plans
         /\ Builds' \subseteq Builds
<1>1. /\ Active' \subseteq Active /\ Plans' \subseteq Plans
      /\ Builds' \subseteq Builds
      /\ \A a \in Active' : /\ att'[a].campaign = att[a].campaign
                            /\ att'[a].kind = att[a].kind
                            /\ att'[a].targets = att[a].targets
  BY DEF AttemptsKept, Active, Plans, Builds
<1>2. Together'
  BY <1>1 DEF IInv, Together
<1>3. ASSUME NEW a \in Builds', NEW b \in Builds', a # b
      PROVE  /\ Needed(Edges, att'[a].targets, store')
                  \cap Needed(Edges, att'[b].targets, store') = {}
             /\ Paths(Needed(Edges, att'[a].targets, store'))
                  \cap Paths(Needed(Edges, att'[b].targets, store')) = {}
  <2>1. a \in Builds /\ b \in Builds
    BY <1>1
  <2>2. att'[a].targets = att[a].targets /\ att'[b].targets = att[b].targets
    BY <1>1 DEF Builds
  <2>3. /\ Needed(Edges, att[a].targets, store')
             \subseteq Needed(Edges, att[a].targets, store)
        /\ Needed(Edges, att[b].targets, store')
             \subseteq Needed(Edges, att[b].targets, store)
    BY NeededShrinks
  <2>4. /\ Needed(Edges, att[a].targets, store)
             \cap Needed(Edges, att[b].targets, store) = {}
        /\ Paths(Needed(Edges, att[a].targets, store))
             \cap Paths(Needed(Edges, att[b].targets, store)) = {}
    BY <1>3, <2>1 DEF IInv, ExclusiveOwnership
  <2> QED BY <2>2, <2>3, <2>4 DEF Paths
<1> QED BY <1>1, <1>2, <1>3 DEF ExclusiveOwnership

-----------------------------------------------------------------------------
(* Workers.                                                                *)

\* A step of a worker changes its own attempt and adds to the store.
LEMMA WorkerInv ==
  ASSUME IInv, NEW w \in Attempt, Worker(w)
  PROVE  IInv'
<1> DEFINE Row(r) ==
      /\ r \in AttemptRow
      /\ r.kind = att[w].kind /\ r.campaign = att[w].campaign
      /\ r.targets = att[w].targets /\ r.ids = att[w].ids
      /\ r.state = att[w].state
      /\ r.before \subseteq store'
      Effect ==
      /\ UNCHANGED <<release, mode, policy, cand, replans, graphVars, ctl>>
      /\ store \subseteq store' /\ store' \subseteq Path
      /\ \E r : Row(r) /\ att' = [att EXCEPT ![w] = r]
<1>1. att[w] \in AttemptRow /\ store \subseteq Path /\ att \in [Attempt -> AttemptRow]
  BY DEF IInv, TypeOK
<1>2. att[w].before \subseteq store
  BY DEF IInv, Snapshots
<1>3. ASSUME NEW rows \in SUBSET att[w].ids, PlanEnd(w, rows)
      PROVE  Effect
  <2> DEFINE r == [att[w] EXCEPT !.phase = "ended", !.rows = rows]
  <2>1. r \in AttemptRow
    BY <1>1 DEF AttemptRow
  <2>2. Row(r)
    BY <1>1, <1>2, <1>3, <2>1 DEF PlanEnd, AttemptRow
  <2>3. att' = [att EXCEPT ![w] = r]
    BY <1>1, <1>3 DEF PlanEnd
  <2> QED BY <1>1, <1>3, <2>2, <2>3 DEF PlanEnd
<1>4. ASSUME BuildBegin(w) PROVE Effect
  <2> DEFINE r == [att[w] EXCEPT !.phase = "working", !.begun = TRUE,
                     !.before = store \cap Paths(ClosureOf(att[w].targets))]
  <2>1. r \in AttemptRow
    BY <1>1 DEF AttemptRow
  <2>2. Row(r)
    BY <1>1, <1>2, <1>4, <2>1 DEF BuildBegin, AttemptRow
  <2>3. att' = [att EXCEPT ![w] = r]
    BY <1>1, <1>4 DEF BuildBegin
  <2> QED BY <1>1, <1>4, <2>2, <2>3 DEF BuildBegin
<1>5. ASSUME NEW d \in Drv, Realize(w, d) PROVE Effect
  <2> DEFINE r == [att[w] EXCEPT !.activities = @ \cup {d}]
  <2>1. r \in AttemptRow
    BY <1>1 DEF AttemptRow
  <2>2. Row(r)
    BY <1>1, <1>2, <1>5, <2>1 DEF Realize, AttemptRow
  <2>3. att' = [att EXCEPT ![w] = r]
    BY <1>1, <1>5 DEF Realize
  <2> QED BY <1>1, <1>5, <2>2, <2>3 DEF Realize, Paths
<1>6. ASSUME NEW d \in Drv, Break(w, d) PROVE Effect
  <2> DEFINE r == [att[w] EXCEPT !.activities = @ \cup {d}, !.broken = @ \cup {d}]
  <2>1. r \in AttemptRow
    BY <1>1 DEF AttemptRow
  <2>2. Row(r)
    BY <1>1, <1>2, <1>6, <2>1 DEF Break, AttemptRow
  <2>3. att' = [att EXCEPT ![w] = r]
    BY <1>1, <1>6 DEF Break
  <2> QED BY <1>1, <1>6, <2>2, <2>3 DEF Break
<1>7. ASSUME NEW d \in Drv, Substitute(w, d) PROVE Effect
  <2>1. Row(att[w])
    BY <1>1, <1>2, <1>7 DEF Substitute
  <2>2. att' = [att EXCEPT ![w] = att[w]]
    BY <1>1, <1>7 DEF Substitute
  <2> QED BY <1>1, <1>7, <2>1, <2>2 DEF Substitute, Paths
<1>8. ASSUME BuildEnd(w) PROVE Effect
  <2>1. PICK reason \in Reason :
          att' = [att EXCEPT ![w].phase = "ended", ![w].reason = reason]
    BY <1>8 DEF BuildEnd
  <2> DEFINE r == [att[w] EXCEPT !.phase = "ended", !.reason = reason]
  <2>2. r \in AttemptRow
    BY <1>1 DEF AttemptRow
  <2>3. Row(r)
    BY <1>1, <1>2, <1>8, <2>2 DEF BuildEnd, AttemptRow
  <2>4. att' = [att EXCEPT ![w] = r]
    BY <1>1, <2>1
  <2> QED BY <1>1, <1>8, <2>3, <2>4 DEF BuildEnd
<1>9. Effect
  BY <1>3, <1>4, <1>5, <1>6, <1>7, <1>8 DEF Worker
<1>10. PICK r : Row(r) /\ att' = [att EXCEPT ![w] = r]
  BY <1>9
<1>11. att' \in [Attempt -> AttemptRow]
  BY <1>1, <1>10
<1>12. \A a \in Attempt : att'[a] = IF a = w THEN r ELSE att[a]
  BY <1>1, <1>10
<1>13. /\ UNCHANGED <<release, mode, policy, cand, replans, graphVars, ctl>>
       /\ store \subseteq store' /\ store' \subseteq Path
  BY <1>9
<1> HIDE DEF Effect
<1>14. TypeOK'
  BY <1>11, <1>13 DEF IInv, TypeOK, graphVars
<1>15. AttemptsKept
  BY <1>10, <1>12 DEF AttemptsKept
<1>16. /\ Together' /\ ExclusiveOwnership'
       /\ Active' \subseteq Active /\ Plans' \subseteq Plans
  BY <1>13, <1>15, KeptTogether
<1>17. Recorded' /\ Shapes'
  BY <1>13, <1>15 DEF IInv, Recorded, Shapes, AttemptsKept, graphVars
<1>18. Snapshots'
  BY <1>10, <1>12, <1>13 DEF IInv, Snapshots, graphVars
<1>19. Turn'
  BY <1>13, <1>15, <1>16 DEF IInv, Turn, AttemptsKept, Active
<1> QED BY <1>14, <1>16, <1>17, <1>18, <1>19 DEF IInv

-----------------------------------------------------------------------------
(* Settlement.                                                             *)

\* The closure of recorded derivations is recorded.
LEMMA ClosureRecorded ==
  ASSUME IInv, NEW ds \in SUBSET known
  PROVE  ClosureOf(ds) \subseteq known
BY DEF IInv, Recorded, ClosureOf

\* The closure of any derivations is a closed set of derivations.
LEMMA ClosureClosed ==
  ASSUME NEW ds \in SUBSET Drv
  PROVE  /\ ClosureOf(ds) \subseteq Drv
         /\ ds \subseteq ClosureOf(ds)
         /\ \A d \in ClosureOf(ds) : Deps[d] \subseteq ClosureOf(ds)
BY ClosureFacts DEF ClosureOf

\* Planning adds recipes with everything they are built from.
LEMMA FinishPlanInv ==
  ASSUME IInv, NEW p \in Attempt, FinishPlan(p)
  PROVE  IInv'
<1> DEFINE
      k == att[p].campaign
      recipe == [c \in att[p].rows |-> Recipe[c][att[p].revision]]
      planned == {c \in att[p].rows : recipe[c] # NoDrv}
      graph == ClosureOf({recipe[c] : c \in planned})
      aliases(c) == {b \in Members(k) : /\ cand[b].drv = recipe[c]
                                        /\ cand[b].state = "inconclusive"}
      table == [c \in Candidate |->
        IF c \in planned
        THEN IF aliases(c) # {}
             THEN cand[CHOOSE b \in aliases(c) : TRUE]
             ELSE [state |-> "queued", drv |-> recipe[c], error |-> "none"]
        ELSE IF c \in att[p].ids
             THEN [cand[c] EXCEPT !.state = "evaluation-error", !.error = "other"]
        ELSE cand[c]]
      excluded == AddGraph(graph)
      fresh == Refreshed(k, table, available, failure, excluded)
      roots == UNION {att[b].targets : b \in {b \in Builds : att[b].campaign = k}}
<1>1. /\ ctl.pc = "idle"
      /\ p \in Plans
      /\ known' = known \cup graph
      /\ exclusion' = excluded
      /\ cand' = [c \in Candidate |->
           IF CampaignOf[c] = k /\ fresh[c].drv \in roots
           THEN [fresh[c] EXCEPT !.state = "running"] ELSE fresh[c]]
      /\ att' = [att EXCEPT ![p].state = "finished", ![p].rows = {}]
      /\ UNCHANGED <<release, mode, policy, replans, available, failure,
                     localOnly, origin, evidence, tests, store, ctl>>
  BY DEF FinishPlan
<1>2. /\ att[p] \in AttemptRow /\ att \in [Attempt -> AttemptRow]
      /\ cand \in [Candidate -> CandidateRow] /\ exclusion \subseteq known
      /\ known \subseteq Drv /\ Sound(cand, known) /\ NoDrv \notin Drv
  BY CampaignAssumption DEF IInv, TypeOK, Shapes
<1>3. planned \subseteq Candidate /\ \A c \in planned : recipe[c] \in Drv
  <2>1. att[p].rows \subseteq Candidate /\ att[p].revision \in {"base", "fix"}
    BY <1>2 DEF AttemptRow
  <2>2. ASSUME NEW c \in planned PROVE recipe[c] \in Drv
    <3>1. c \in Candidate /\ recipe[c] = Recipe[c][att[p].revision] /\ recipe[c] # NoDrv
      BY <2>1
    <3>2. Recipe[c] \in [{"base", "fix"} -> Drv \cup {NoDrv}]
      BY <3>1, CampaignAssumption
    <3> HIDE DEF recipe
    <3> QED BY <2>1, <3>1, <3>2
  <2> QED BY <2>1, <2>2
<1>4. /\ graph \subseteq Drv
      /\ \A c \in planned : recipe[c] \in graph
      /\ \A d \in graph : Deps[d] \subseteq graph
  <2>1. {recipe[c] : c \in planned} \in SUBSET Drv
    BY <1>3
  <2> HIDE DEF recipe, planned
  <2> QED BY <2>1, ClosureClosed
<1>5. excluded \subseteq known \cup graph
  BY <1>2 DEF AddGraph
<1> HIDE DEF recipe, planned, graph, excluded, table
<1>6. \A c \in Candidate :
        /\ table[c] \in CandidateRow
        /\ table[c].drv = NoDrv =>
             table[c].state \in {"unplanned", "evaluation-error", "excluded"}
        /\ table[c].drv # NoDrv =>
             /\ table[c].drv \in known \cup graph
             /\ table[c].state # "unplanned"
  <2> SUFFICES ASSUME NEW c \in Candidate
               PROVE  /\ table[c] \in CandidateRow
                      /\ table[c].drv = NoDrv =>
                           table[c].state \in {"unplanned", "evaluation-error", "excluded"}
                      /\ table[c].drv # NoDrv =>
                           /\ table[c].drv \in known \cup graph
                           /\ table[c].state # "unplanned"
    OBVIOUS
  <2>1. CASE c \in planned /\ aliases(c) # {}
    <3>1. PICK b \in aliases(c) : table[c] = cand[b]
      BY <2>1 DEF table
    <3>2. b \in Candidate
      BY <3>1 DEF Members
    <3> QED BY <1>2, <3>1, <3>2 DEF Sound
  <2>2. CASE c \in planned /\ aliases(c) = {}
    <3>1. table[c] = [state |-> "queued", drv |-> recipe[c], error |-> "none"]
      BY <2>2 DEF table
    <3>2. recipe[c] \in Drv /\ recipe[c] \in graph /\ recipe[c] # NoDrv
      BY <1>2, <1>3, <1>4, <2>2
    <3> QED BY <3>1, <3>2 DEF CandidateRow, State, Error
  <2>3. CASE c \notin planned /\ c \in att[p].ids
    <3>1. table[c] = [cand[c] EXCEPT !.state = "evaluation-error", !.error = "other"]
      BY <2>3 DEF table
    <3> QED BY <1>2, <3>1 DEF Sound, CandidateRow, State, Error
  <2>4. CASE c \notin planned /\ c \notin att[p].ids
    BY <1>2, <2>4 DEF Sound, table
  <2> QED BY <2>1, <2>2, <2>3, <2>4
<1>7. table \in [Candidate -> CandidateRow]
  BY <1>6 DEF table
<1>8. Sound(table, known \cup graph)
  BY <1>6 DEF Sound
<1>9. fresh \in [Candidate -> CandidateRow] /\ Sound(fresh, known \cup graph)
  BY <1>2, <1>4, <1>5, <1>7, <1>8, RefreshedSound
<1> HIDE DEF fresh
<1>10. NoDrv \notin roots
  BY <1>2 DEF Builds, Active, AttemptRow
<1> HIDE DEF roots
<1>11. cand' \in [Candidate -> CandidateRow]
  BY <1>1, <1>9 DEF CandidateRow, State
<1>12. \A c \in Candidate :
         /\ cand'[c].drv = fresh[c].drv
         /\ \/ cand'[c].state = fresh[c].state
            \/ cand'[c].state = "running" /\ fresh[c].drv \in roots
  <2> SUFFICES ASSUME NEW c \in Candidate
               PROVE  /\ cand'[c].drv = fresh[c].drv
                      /\ \/ cand'[c].state = fresh[c].state
                         \/ cand'[c].state = "running" /\ fresh[c].drv \in roots
    OBVIOUS
  <2>1. fresh[c] \in CandidateRow
    BY <1>9
  <2>2. cand'[c] = IF CampaignOf[c] = k /\ fresh[c].drv \in roots
                   THEN [fresh[c] EXCEPT !.state = "running"] ELSE fresh[c]
    BY <1>1
  <2> QED BY <2>1, <2>2 DEF CandidateRow
<1>13. Sound(cand', known')
  BY <1>1, <1>9, <1>10, <1>12 DEF Sound
<1>14. /\ att' \in [Attempt -> AttemptRow]
       /\ \A a \in Attempt : att'[a].before = att[a].before
  BY <1>1, <1>2, ZenonT(30) DEF AttemptRow
<1>15. AttemptsKept
  BY <1>1, <1>2 DEF AttemptsKept, AttemptRow, Plans, Active
<1>16. TypeOK'
  BY <1>1, <1>2, <1>4, <1>5, <1>11, <1>14 DEF IInv, TypeOK
<1>17. Together' /\ ExclusiveOwnership'
  BY <1>1, <1>15, KeptTogether
<1>18. Recorded' /\ Shapes'
  BY <1>1, <1>4, <1>13, <1>15 DEF IInv, Recorded, Shapes, AttemptsKept
<1>19. Snapshots'
  BY <1>1, <1>14 DEF IInv, Snapshots
<1>20. Turn'
  BY <1>1 DEF IInv, Turn
<1> QED BY <1>16, <1>17, <1>18, <1>19, <1>20 DEF IInv

\* A build that ends changes the facts about its own closure only.
LEMMA FinishBuildInv ==
  ASSUME IInv, NEW w \in Attempt, FinishBuild(w)
  PROVE  IInv'
<1> DEFINE
      k == att[w].campaign
      closure == ClosureOf(att[w].targets)
      complete == {d \in closure : Satisfied(d, DOMAIN Outputs[d], store)}
      failures == IF att[w].reason \in {"build-error", "unsupported"}
                  THEN att[w].broken ELSE {}
      local == {d \in complete : Provenance(w, d) = "local"}
      gained == Claimed(w, complete)
      lost == (closure \cap failures) \ complete
      checked == IF att[w].reason = "log-limit" THEN {} ELSE local \cap Checked
      nowAvailable == (available \cup gained) \ lost
      nowFailed == Failures(gained, lost)
      proof == Proof(w, gained, lost)
      drained == [c \in Candidate |->
        IF /\ CampaignOf[c] = k /\ cand[c].drv \in att[w].targets
           /\ cand[c].state = "running"
        THEN [cand[c] EXCEPT !.state = "queued"] ELSE cand[c]]
      fresh == Refreshed(k, drained, nowAvailable, nowFailed, exclusion)
      error == IF att[w].reason = "cancelled" THEN "cancelled" ELSE "other"
      verdict == Rewritten(k, fresh, att[w].targets, {"queued"}, "inconclusive", error)
      rejected == /\ att[w].location = "remote"
                  /\ att[w].reason = "unsupported" /\ failures = {}
      outcomes == Snapshot(w, checked, proof, nowAvailable, nowFailed)
<1>1. /\ ctl.pc = "idle"
      /\ w \in Builds
      /\ available' = nowAvailable
      /\ failure' = nowFailed
      /\ origin' = [d \in Drv |-> IF d \in gained THEN Provenance(w, d)
                                  ELSE origin[d]]
      /\ evidence' = proof
      /\ tests' = tests \cup ({w} \X checked)
      /\ localOnly' = IF rejected THEN localOnly \cup att[w].targets ELSE localOnly
      /\ cand' = IF rejected
                 THEN Rewritten(k, verdict, att[w].targets, {"inconclusive"},
                                "queued", "none")
                 ELSE verdict
      /\ att' = [att EXCEPT ![w].state = "finished",
                            ![w].begun = FALSE, ![w].before = {},
                            ![w].outcomes = outcomes]
      /\ UNCHANGED <<release, mode, policy, replans, known, exclusion, store, ctl>>
  BY DEF FinishBuild
<1>2. /\ att[w] \in AttemptRow /\ att \in [Attempt -> AttemptRow]
      /\ cand \in [Candidate -> CandidateRow] /\ exclusion \subseteq known
      /\ known \subseteq Drv /\ Sound(cand, known) /\ NoDrv \notin Drv
      /\ available \subseteq known /\ failure \subseteq known
      /\ Paths(available) \subseteq store
  BY CampaignAssumption DEF IInv, TypeOK, Shapes, Snapshots
<1>3. att[w].targets \subseteq Drv /\ att[w].targets \subseteq known
  BY <1>2 DEF AttemptRow, IInv, Recorded
<1>4. closure \subseteq known
  BY <1>3, ClosureRecorded
<1>5. gained \subseteq complete /\ complete \subseteq known /\ lost \subseteq known
  BY <1>4 DEF Claimed
<1>6. Paths(gained) \subseteq store
  <2>1. \A d \in gained : Paths({d}) \subseteq store
    BY <1>2, <1>5, SatisfiedPaths
  <2> HIDE DEF gained
  <2> QED BY <2>1 DEF Paths
<1>7. Paths(nowAvailable) \subseteq store
  <2> HIDE DEF gained, lost
  <2> QED BY <1>2, <1>6 DEF Paths
<1>8. nowAvailable \subseteq known /\ nowFailed \subseteq known
  BY <1>2, <1>5 DEF Failures
<1>9. checked \subseteq Drv
  BY <1>2, <1>5
<1>10. proof \in [Drv -> Attempt \cup {NoAttempt}]
  <2>1. evidence \in [Drv -> Attempt \cup {NoAttempt}]
    BY DEF IInv, TypeOK
  <2> HIDE DEF gained, lost
  <2> QED BY <2>1 DEF Proof
<1>11. origin' \in [Drv -> {"unknown", "local", "pre-existing"}]
  <2>1. origin \in [Drv -> {"unknown", "local", "pre-existing"}]
    BY DEF IInv, TypeOK
  <2>2. \A d \in Drv : Provenance(w, d) \in {"unknown", "local", "pre-existing"}
    BY DEF Provenance
  <2> HIDE DEF gained
  <2> QED BY <1>1, <2>1, <2>2
<1>12. outcomes \in [Drv -> {"none", "tested", "built", "failed", "unknown"}]
  BY DEF Snapshot
<1>13. /\ att' \in [Attempt -> AttemptRow]
       /\ \A a \in Attempt : att'[a].before \subseteq att[a].before
  <2> HIDE DEF outcomes
  <2>1. att' \in [Attempt -> AttemptRow]
    <3> DEFINE r == [att[w] EXCEPT !.state = "finished", !.begun = FALSE,
                                   !.before = {}, !.outcomes = outcomes]
    <3>1. r \in AttemptRow
      BY <1>2, <1>12 DEF AttemptRow
    <3>2. att' = [att EXCEPT ![w] = r]
      BY <1>1, <1>2
    <3> HIDE DEF r
    <3> QED BY <1>2, <3>1, <3>2
  <2>2. \A a \in Attempt : att'[a].before \subseteq att[a].before
    BY <1>1, <1>2 DEF AttemptRow
  <2> QED BY <2>1, <2>2
<1> HIDE DEF closure, complete, failures, local, gained, lost, checked,
             nowAvailable, nowFailed, proof, rejected, outcomes
<1>14. \A c \in Candidate :
         /\ drained[c] \in CandidateRow
         /\ drained[c].drv = cand[c].drv
         /\ \/ drained[c].state = cand[c].state
            \/ drained[c].state = "queued" /\ cand[c].drv \in att[w].targets
  BY <1>2 DEF CandidateRow, State
<1>15. drained \in [Candidate -> CandidateRow]
  BY <1>14
<1> HIDE DEF drained
<1>16. Sound(drained, known)
  BY <1>2, <1>3, <1>14 DEF Sound
<1>17. fresh \in [Candidate -> CandidateRow] /\ Sound(fresh, known)
  BY <1>2, <1>15, <1>16, RefreshedSound
<1> HIDE DEF fresh
<1>18. verdict \in [Candidate -> CandidateRow] /\ Sound(verdict, known)
  <2>1. error \in Error
    BY DEF Error
  <2>2. "inconclusive" \in State \ {"unplanned"}
    BY DEF State
  <2> HIDE DEF error
  <2> QED BY <1>3, <1>17, <2>1, <2>2, RewrittenSound
<1> HIDE DEF verdict
<1>19. cand' \in [Candidate -> CandidateRow] /\ Sound(cand', known)
  <2> DEFINE to == "queued"
             none == "none"
             final == Rewritten(k, verdict, att[w].targets, {"inconclusive"}, to, none)
  <2>1. none \in Error /\ to \in State \ {"unplanned"}
    BY DEF Error, State
  <2>2. final \in [Candidate -> CandidateRow] /\ Sound(final, known)
    <3> HIDE DEF to, none
    <3> QED BY <1>3, <1>18, <2>1, RewrittenSound
  <2> QED BY <1>1, <1>18, <2>2
<1>20. AttemptsKept
  BY <1>1, <1>2 DEF AttemptsKept, AttemptRow, Builds, Active
<1>21. TypeOK'
  <2>1. tests' \subseteq Attempt \X Drv
    BY <1>1, <1>9 DEF IInv, TypeOK
  <2>2. localOnly' \subseteq known
    BY <1>1, <1>3 DEF IInv, TypeOK
  <2> QED BY <1>1, <1>8, <1>10, <1>11, <1>13, <1>19, <2>1, <2>2 DEF IInv, TypeOK
<1>22. Together' /\ ExclusiveOwnership'
  BY <1>1, <1>20, KeptTogether
<1>23. Recorded' /\ Shapes'
  BY <1>1, <1>19, <1>20 DEF IInv, Recorded, Shapes, AttemptsKept
<1>24. Snapshots'
  BY <1>1, <1>7, <1>13 DEF IInv, Snapshots
<1>25. Turn'
  BY <1>1 DEF IInv, Turn
<1> QED BY <1>21, <1>22, <1>23, <1>24, <1>25 DEF IInv

-----------------------------------------------------------------------------
(* Attempts begin.                                                         *)

\* The targets have nothing to realize that an active build has.
Apart(targets) ==
  \A b \in Builds :
    LET own == Needed(Edges, targets, store)
        other == Needed(Edges, att[b].targets, store)
    IN  own \cap other = {} /\ Paths(own) \cap Paths(other) = {}

\* Targets without a conflict in some snapshot of the store are apart now.
LEMMA ApartNow ==
  ASSUME NEW targets, NEW avail, avail \subseteq store, ~Conflicts(targets, avail)
  PROVE  Apart(targets)
<1> SUFFICES ASSUME NEW b \in Builds
             PROVE  LET own == Needed(Edges, targets, store)
                        other == Needed(Edges, att[b].targets, store)
                    IN  own \cap other = {} /\ Paths(own) \cap Paths(other) = {}
  BY DEF Apart
<1>1. /\ Needed(Edges, targets, store) \subseteq Needed(Edges, targets, avail)
      /\ Needed(Edges, att[b].targets, store)
           \subseteq Needed(Edges, att[b].targets, avail)
  BY NeededShrinks
<1>2. Needed(Edges, att[b].targets, avail) \subseteq Held(avail)
  BY DEF Held
<1>3. /\ Needed(Edges, targets, avail) \cap Held(avail) = {}
      /\ Paths(Needed(Edges, targets, avail)) \cap Paths(Held(avail)) = {}
  BY DEF Conflicts
<1> QED BY <1>1, <1>2, <1>3 DEF Paths

\* What is apart root by root is apart as a batch.
LEMMA ApartTogether ==
  ASSUME NEW targets \in SUBSET Drv, \A t \in targets : Apart({t})
  PROVE  Apart(targets)
<1> SUFFICES ASSUME NEW b \in Builds
             PROVE  LET own == Needed(Edges, targets, store)
                        other == Needed(Edges, att[b].targets, store)
                    IN  own \cap other = {} /\ Paths(own) \cap Paths(other) = {}
  BY DEF Apart
<1>1. \A d \in Needed(Edges, targets, store) :
        \E t \in targets : d \in Needed(Edges, {t}, store)
  <2>1. Needed(Edges, targets, store)
          \subseteq UNION {Needed(Edges, {t}, store) : t \in targets}
    BY NeededByOne
  <2> QED BY <2>1
<1>2. \A t \in targets :
        /\ Needed(Edges, {t}, store) \cap Needed(Edges, att[b].targets, store) = {}
        /\ Paths(Needed(Edges, {t}, store))
             \cap Paths(Needed(Edges, att[b].targets, store)) = {}
  BY DEF Apart
<1> QED BY <1>1, <1>2 DEF Paths

\* An observation of the store is part of it.
LEMMA SeenStore ==
  ASSUME IInv, NEW observed \in SUBSET store
  PROVE  Seen(observed) \subseteq store
<1> DEFINE before == UNION {att[a].before : a \in Builds}
           first == Paths(UNION {Needed(Edges, att[a].targets, att[a].before) : a \in Builds})
<1>1. before \subseteq store
  BY DEF IInv, Snapshots, Builds, Active
<1>2. Paths(available) \subseteq store
  BY DEF IInv, Snapshots
<1>3. Seen(observed) = observed \cup Paths(available) \cup before
                         \cup (store \cap first)
  BY DEF Seen
<1>4. observed \subseteq store
  OBVIOUS
<1> HIDE DEF first, before
<1> QED BY <1>1, <1>2, <1>3, <1>4

\* What admission observes is part of the store.
LEMMA ObservedStore ==
  ASSUME IInv, NEW k
  PROVE  Observed(k) \subseteq store
<1>1. Seen({}) \subseteq store
  BY SeenStore
<1>2. Prepared(Listed(k)) \subseteq store
  BY <1>1 DEF Prepared
<1> QED BY <1>2, SeenStore DEF Observed

\* Roots that are listed are queued and on record.
LEMMA ListedQueued ==
  ASSUME IInv, NEW k, NEW d \in Listed(k)
  PROVE  /\ d \in known
         /\ \E c \in Members(k) : cand[c].drv = d /\ cand[c].state = "queued"
<1>1. d \in Queued(k)
  BY DEF Listed, First
<1>2. PICK c \in Members(k) : cand[c].drv = d /\ cand[c].state = "queued"
  BY <1>1 DEF Queued
<1>3. d \in known
  BY <1>2 DEF IInv, Shapes, Sound, Members
<1> QED BY <1>2, <1>3

\* A planner begins for the campaign of the active attempts when there is none.
LEMMA OpenPlanInv ==
  ASSUME IInv, NEW p \in Attempt, NEW k \in CampaignId,
         NEW ids \in SUBSET Candidate, NEW revision \in {"base", "fix"},
         OpenPlan(p, k, ids, revision),
         \A a \in Active : att[a].campaign = k, Plans = {},
         UNCHANGED <<release, mode, policy, graphVars, store>>,
         ctl' \in Position, ctl'.pc = "idle", ctl'.list = {}, ctl'.avail \subseteq store
  PROVE  IInv'
<1> DEFINE row == [Unused EXCEPT !.state = "active", !.campaign = k,
                     !.kind = "plan", !.ids = ids, !.revision = revision]
<1>1. /\ att' = [att EXCEPT ![p] = row]
      /\ cand' = [c \in Candidate |->
           IF revision # "base" /\ c \in ids
           THEN [state |-> "unplanned", drv |-> NoDrv, error |-> "none"]
           ELSE cand[c]]
      /\ replans' = replans \ ids
      /\ att[p].state = "none"
  BY DEF OpenPlan, Fresh
<1>2. /\ row \in AttemptRow /\ row.state = "active" /\ row.kind = "plan"
      /\ row.campaign = k /\ row.targets = {} /\ row.before = {}
  BY DEF Unused, AttemptRow, Reason
<1> HIDE DEF row
<1>3. /\ att \in [Attempt -> AttemptRow] /\ cand \in [Candidate -> CandidateRow]
      /\ Sound(cand, known)
  BY DEF IInv, TypeOK, Shapes
<1>4. /\ att' \in [Attempt -> AttemptRow]
      /\ \A a \in Attempt : att'[a] = IF a = p THEN row ELSE att[a]
  BY <1>1, <1>2, <1>3
<1>5. cand' \in [Candidate -> CandidateRow] /\ Sound(cand', known)
  <2>1. [state |-> "unplanned", drv |-> NoDrv, error |-> "none"] \in CandidateRow
    BY DEF CandidateRow, State, Error
  <2>2. cand' \in [Candidate -> CandidateRow]
    BY <1>1, <1>3, <2>1
  <2>3. Sound(cand', known)
    BY <1>1, <1>3 DEF Sound
  <2> QED BY <2>2, <2>3
<1>6. /\ Active' = Active \cup {p} /\ Plans' = {p} /\ Builds' = Builds
      /\ p \notin Active
  BY <1>1, <1>2, <1>4 DEF Active, Plans, Builds
<1>7. TypeOK'
  BY <1>1, <1>4, <1>5 DEF IInv, TypeOK, graphVars
<1>8. Recorded' /\ Shapes'
  BY <1>2, <1>4, <1>5 DEF IInv, Recorded, Shapes, graphVars
<1>9. Snapshots'
  BY <1>2, <1>4 DEF IInv, Snapshots, graphVars
<1>10. Turn'
  BY DEF Turn
<1>11. Together'
  BY <1>2, <1>4, <1>6 DEF IInv, Together, Active
<1>12. ExclusiveOwnership'
  <2>1. \A b \in Builds : att'[b].targets = att[b].targets
    BY <1>4, <1>6 DEF Builds, Active
  <2> QED BY <1>6, <2>1 DEF IInv, ExclusiveOwnership
<1> QED BY <1>7, <1>8, <1>9, <1>10, <1>11, <1>12 DEF IInv

\* A build begins, apart from the others, for the campaign of the active
\* attempts.
LEMMA OpenBuildInv ==
  ASSUME IInv, NEW w \in Attempt, NEW k \in CampaignId,
         NEW targets \in SUBSET known, NEW location \in {"any", "local", "remote"},
         NEW admitted \in SUBSET store,
         OpenBuild(w, k, targets, location, admitted), Apart(targets),
         \A a \in Active : att[a].campaign = k,
         UNCHANGED <<release, mode, policy, graphVars, store>>,
         ctl' \in Position, ctl'.avail \subseteq store,
         ctl'.pc \in {"idle", "rolling", "skip"},
         ctl'.pc # "idle" => ctl'.campaign = k,
         ctl'.pc # "rolling" => ctl'.list = {},
         \A d \in ctl'.list :
           /\ d \notin targets
           /\ \E c \in Members(ctl'.campaign) :
                cand[c].drv = d /\ cand[c].state = "queued"
  PROVE  IInv'
<1> DEFINE row == [Unused EXCEPT !.state = "active", !.campaign = k,
                     !.kind = "build", !.targets = targets,
                     !.location = location, !.before = admitted]
<1>1. /\ att' = [att EXCEPT ![w] = row]
      /\ cand' = [c \in Candidate |->
           IF CampaignOf[c] = k /\ cand[c].drv \in targets
           THEN [cand[c] EXCEPT !.state = "running"] ELSE cand[c]]
      /\ replans' = replans
      /\ att[w].state = "none"
  BY DEF OpenBuild, Fresh
<1>2. /\ att \in [Attempt -> AttemptRow] /\ cand \in [Candidate -> CandidateRow]
      /\ Sound(cand, known) /\ known \subseteq Drv /\ store \subseteq Path
      /\ NoDrv \notin Drv
  BY CampaignAssumption DEF IInv, TypeOK, Shapes
<1>3. /\ row \in AttemptRow /\ row.state = "active" /\ row.kind = "build"
      /\ row.campaign = k /\ row.targets = targets /\ row.before = admitted
  <2>1. targets \in SUBSET Drv /\ admitted \in SUBSET Path
    BY <1>2
  <2> QED BY <2>1 DEF Unused, AttemptRow, Reason
<1> HIDE DEF row
<1>4. /\ att' \in [Attempt -> AttemptRow]
      /\ \A a \in Attempt : att'[a] = IF a = w THEN row ELSE att[a]
  BY <1>1, <1>2, <1>3
<1>5. \A c \in Candidate :
        /\ cand'[c] \in CandidateRow /\ cand'[c].drv = cand[c].drv
        /\ cand[c].drv \notin targets => cand'[c] = cand[c]
        /\ \/ cand'[c].state = cand[c].state
           \/ cand'[c].state = "running" /\ cand[c].drv \in targets
  BY <1>1, <1>2 DEF CandidateRow, State
<1>6. cand' \in [Candidate -> CandidateRow] /\ Sound(cand', known)
  <2>1. cand' \in [Candidate -> CandidateRow]
    BY <1>1, <1>5
  <2>2. Sound(cand', known)
    BY <1>2, <1>5 DEF Sound
  <2> QED BY <2>1, <2>2
<1>7. /\ Active' = Active \cup {w} /\ Plans' = Plans /\ Builds' = Builds \cup {w}
      /\ w \notin Active
  BY <1>1, <1>3, <1>4 DEF Active, Plans, Builds
<1>8. TypeOK'
  BY <1>1, <1>4, <1>6 DEF IInv, TypeOK, graphVars
<1>9. Recorded' /\ Shapes'
  BY <1>3, <1>4, <1>6 DEF IInv, Recorded, Shapes, graphVars
<1>10. Snapshots'
  BY <1>3, <1>4 DEF IInv, Snapshots, graphVars
<1>11. Turn'
  <2>1. \A a \in Active' : att'[a].campaign = k
    BY <1>3, <1>4, <1>7 DEF Active
  <2>2. \A d \in ctl'.list : \E c \in Members(ctl'.campaign) :
          cand'[c].drv = d /\ cand'[c].state = "queued"
    BY <1>5 DEF Members
  <2> QED BY <2>1, <2>2 DEF Turn, Members
<1>12. Together'
  BY <1>3, <1>4, <1>7 DEF IInv, Together, Active, Plans
<1>13. ExclusiveOwnership'
  <2>1. \A b \in Builds : att'[b].targets = att[b].targets
    BY <1>4, <1>7 DEF Builds, Active
  <2>2. att'[w].targets = targets
    BY <1>3, <1>4
  <2>3. w \notin Builds
    BY <1>7 DEF Builds
  <2> QED BY <1>7, <2>1, <2>2, <2>3 DEF IInv, ExclusiveOwnership, Apart
<1> QED BY <1>8, <1>9, <1>10, <1>11, <1>12, <1>13 DEF IInv

-----------------------------------------------------------------------------
(* Ticks and commands.                                                     *)

\* A step that leaves candidates, attempts, derivations and the store alone.
LEMMA ControlInv ==
  ASSUME IInv, UNCHANGED <<cand, graphVars, att, store>>,
         release' \in {"old", "new"}, mode' \in [CampaignId -> {"paused", "running"}],
         policy' \in [CampaignId -> Policies], replans' \subseteq Candidate,
         ctl' \in Position, ctl'.avail \subseteq store, Turn'
  PROVE  IInv'
<1>1. TypeOK'
  BY DEF IInv, TypeOK, graphVars
<1>2. AttemptsKept
  BY DEF AttemptsKept
<1>3. Together' /\ ExclusiveOwnership'
  BY <1>2, KeptTogether
<1>4. Recorded' /\ Shapes' /\ Snapshots'
  BY DEF IInv, Recorded, Shapes, Snapshots, graphVars
<1> QED BY <1>1, <1>3, <1>4 DEF IInv

\* The same for a step that leaves the controller in its place as well.
LEMMA IdleInv ==
  ASSUME IInv, UNCHANGED <<cand, graphVars, att, store, ctl>>,
         release' \in {"old", "new"}, mode' \in [CampaignId -> {"paused", "running"}],
         policy' \in [CampaignId -> Policies], replans' \subseteq Candidate
  PROVE  IInv'
<1>1. Turn'
  BY DEF IInv, Turn, Active, Plans
<1>2. ctl' \in Position /\ ctl'.avail \subseteq store
  BY DEF IInv, TypeOK, Snapshots
<1> QED BY <1>1, <1>2, ControlInv

\* A command that rewrites candidates, failures and exclusions.
LEMMA TableInv ==
  ASSUME IInv, ctl.pc = "idle",
         cand' \in [Candidate -> CandidateRow], Sound(cand', known),
         failure' \subseteq known, exclusion' \subseteq known,
         att' \in [Attempt -> AttemptRow], AttemptsKept,
         \A a \in Attempt : att'[a].before = att[a].before,
         UNCHANGED <<release, mode, policy, replans, known, available, localOnly,
                     origin, evidence, tests, store, ctl>>
  PROVE  IInv'
<1>1. TypeOK'
  BY DEF IInv, TypeOK
<1>2. Together' /\ ExclusiveOwnership'
  BY KeptTogether
<1>3. Recorded' /\ Shapes' /\ Snapshots'
  BY DEF IInv, Recorded, Shapes, Snapshots, AttemptsKept
<1>4. Turn'
  BY DEF IInv, Turn
<1> QED BY <1>1, <1>2, <1>3, <1>4 DEF IInv

\* The controller at rest.
LEMMA IdlePosition ==
  /\ Idle \in Position /\ Idle.pc = "idle" /\ Idle.list = {} /\ Idle.avail = {}
  /\ \A k \in CampaignId, bs \in SUBSET Attempt :
       LET next == [Idle EXCEPT !.pc = "skip", !.campaign = k, !.builds = bs]
       IN  /\ next \in Position /\ next.pc = "skip" /\ next.campaign = k
           /\ next.list = {} /\ next.avail = {}
  /\ LET next == [Idle EXCEPT !.pc = "raised"]
     IN  /\ next \in Position /\ next.pc = "raised"
         /\ next.list = {} /\ next.avail = {}
BY DEF Idle, Position

\* An exception of a tick changes nothing but the controller's place.
LEMMA RaiseInv ==
  ASSUME IInv, Raise, UNCHANGED <<release, mode, policy, graphVars, store>>
  PROVE  IInv'
<1>1. /\ ctl' \in Position /\ ctl'.pc = "raised" /\ ctl'.list = {} /\ ctl'.avail = {}
      /\ UNCHANGED <<cand, replans, att>>
  BY IdlePosition DEF Raise
<1>2. Turn'
  BY <1>1 DEF Turn
<1> QED BY <1>1, <1>2, ControlInv DEF IInv, TypeOK

\* Admission begins builds of queued roots that no active build has to realize.
LEMMA AdmitInv ==
  ASSUME IInv, NEW k \in CampaignId, Admit(k)
  PROVE  IInv'
<1>1. ASSUME MayAdmit(k) PROVE \A a \in Active : att[a].campaign = k
  BY <1>1 DEF MayAdmit
<1>2. Builds \in SUBSET Attempt
  BY DEF Builds, Active
<1>3. ASSUME AdmitBatch(k) PROVE IInv'
  <2> DEFINE targets == BatchTargets(k)
  <2>1. \A t \in targets : t \in Listed(k) /\ ~Conflicts({t}, Observed(k))
    BY DEF BatchTargets, First
  <2>2. targets \subseteq known
    BY <2>1, ListedQueued
  <2>3. Apart(targets)
    <3>1. targets \in SUBSET Drv
      BY <2>2 DEF IInv, TypeOK
    <3>2. \A t \in targets : Apart({t})
      BY <2>1, ObservedStore, ApartNow
    <3> HIDE DEF targets
    <3> QED BY <3>1, <3>2, ApartTogether
  <2>4. Observed(k) \in SUBSET store
    BY ObservedStore
  <2>5. MayAdmit(k) /\ UNCHANGED <<release, mode, policy, graphVars, store>>
    BY <1>3 DEF AdmitBatch
  <2> HIDE DEF targets
  <2>6. CASE Raise
    BY <2>5, <2>6, RaiseInv
  <2>7. ASSUME NEW w \in Attempt, OpenBuild(w, k, targets, "any", Observed(k)),
               ctl' = [Idle EXCEPT !.pc = "skip", !.campaign = k, !.builds = Builds]
        PROVE  IInv'
    <3>1. /\ ctl' \in Position /\ ctl'.pc = "skip" /\ ctl'.campaign = k
          /\ ctl'.list = {} /\ ctl'.avail = {}
      BY <1>2, <2>7, IdlePosition
    <3> QED BY <1>1, <2>2, <2>3, <2>4, <2>5, <2>7, <3>1, OpenBuildInv
  <2> QED BY <1>3, <2>6, <2>7 DEF AdmitBatch, targets
<1>4. ASSUME AdmitRolling(k) PROVE IInv'
  <2>1. /\ MayAdmit(k) /\ UNCHANGED <<release, mode, policy, cand, replans, graphVars, att, store>>
        /\ ctl' = [Idle EXCEPT !.pc = "rolling", !.campaign = k,
                               !.avail = Observed(k), !.list = Listed(k)]
    BY <1>4 DEF AdmitRolling
  <2>2. Observed(k) \subseteq store /\ store \subseteq Path
    BY ObservedStore DEF IInv, TypeOK
  <2>3. Listed(k) \subseteq Drv
    BY ListedQueued DEF IInv, TypeOK
  <2>4. /\ ctl' \in Position /\ ctl'.pc = "rolling" /\ ctl'.campaign = k
        /\ ctl'.avail = Observed(k) /\ ctl'.list = Listed(k)
    BY <2>1, <2>2, <2>3 DEF Idle, Position
  <2>5. \A d \in Listed(k) : \E c \in Members(k) :
          cand[c].drv = d /\ cand[c].state = "queued"
    BY ListedQueued
  <2>6. Turn'
    BY <1>1, <2>1, <2>4, <2>5 DEF Turn, Active, Plans, Members
  <2> QED BY <2>1, <2>2, <2>4, <2>6, ControlInv DEF IInv, TypeOK
<1>5. ASSUME AdmitNoBuild(k) PROVE IInv'
  <2>1. /\ MayAdmit(k) /\ UNCHANGED <<release, mode, policy, cand, replans, graphVars, att, store>>
        /\ ctl' \in Position /\ ctl'.pc = "skip" /\ ctl'.campaign = k
        /\ ctl'.list = {} /\ ctl'.avail = {}
    BY <1>2, <1>5, IdlePosition DEF AdmitNoBuild
  <2>2. Turn'
    BY <1>1, <2>1 DEF Turn, Active
  <2> QED BY <2>1, <2>2, ControlInv DEF IInv, TypeOK
<1> QED BY <1>3, <1>4, <1>5 DEF Admit

\* The later steps of a tick work from the snapshot and the list it began with.
LEMMA TickInv ==
  ASSUME IInv, Tick
  PROVE  IInv'
<1> DEFINE k == ctl.campaign
<1>1. ctl \in Position /\ ctl.avail \subseteq store /\ Builds \in SUBSET Attempt
  BY DEF IInv, TypeOK, Snapshots, Builds, Active
<1>2. ASSUME ctl.pc \in {"rolling", "skip", "plan"}
      PROVE  k \in CampaignId /\ \A a \in Active : att[a].campaign = k
  BY <1>2 DEF IInv, Turn
<1>3. ASSUME RollingBuild PROVE IInv'
  <2>1. /\ ctl.pc = "rolling" /\ UNCHANGED <<release, mode, policy, graphVars, store>>
        /\ k \in CampaignId /\ \A a \in Active : att[a].campaign = k
    BY <1>2, <1>3 DEF RollingBuild
  <2>2. PICK d \in First(k, 1, Admissible) :
          \/ /\ \E w \in Attempt, location \in Locations(k, d, ctl.avail) :
                  OpenBuild(w, k, {d}, location, ctl.avail)
             /\ ctl' = [ctl EXCEPT !.list = @ \ {d}]
          \/ Raise
    BY <1>3 DEF RollingBuild
  <2>3. d \in ctl.list /\ ~Conflicts({d}, ctl.avail)
    BY <2>2 DEF First, Admissible
  <2>4. CASE Raise
    BY <2>1, <2>4, RaiseInv
  <2>5. ASSUME NEW w \in Attempt, NEW location \in Locations(k, d, ctl.avail),
               OpenBuild(w, k, {d}, location, ctl.avail),
               ctl' = [ctl EXCEPT !.list = @ \ {d}]
        PROVE  IInv'
    <3>1. location \in {"any", "local", "remote"}
      BY <2>5 DEF Locations
    <3>2. Apart({d})
      BY <1>1, <2>3, ApartNow
    <3>3. PICK c \in Members(k) : cand[c].drv = d /\ cand[c].state = "queued"
      BY <2>3 DEF IInv, Turn
    <3>4. {d} \in SUBSET known
      BY <3>3 DEF IInv, Shapes, Sound, Members
    <3>5. /\ ctl' \in Position /\ ctl'.pc = "rolling" /\ ctl'.campaign = k
          /\ ctl'.avail = ctl.avail /\ ctl'.list = ctl.list \ {d}
      BY <1>1, <2>1, <2>5 DEF Position
    <3>6. \A e \in ctl'.list :
            /\ e \notin {d}
            /\ \E b \in Members(ctl'.campaign) :
                 cand[b].drv = e /\ cand[b].state = "queued"
      BY <3>5 DEF IInv, Turn
    <3> DEFINE targets == {d}
               avail == ctl.avail
    <3>7. avail \in SUBSET store /\ ctl'.avail \subseteq store
      BY <1>1, <3>5
    <3>8. /\ targets \in SUBSET known /\ Apart(targets)
          /\ OpenBuild(w, k, targets, location, avail)
          /\ \A e \in ctl'.list :
               /\ e \notin targets
               /\ \E b \in Members(ctl'.campaign) :
                    cand[b].drv = e /\ cand[b].state = "queued"
      BY <2>5, <3>2, <3>4, <3>6
    <3> HIDE DEF k, targets, avail
    <3> QED BY <2>1, <3>1, <3>5, <3>7, <3>8, OpenBuildInv
  <2> QED BY <2>2, <2>4, <2>5
<1>4. ASSUME RollingEnd PROVE IInv'
  <2>1. /\ UNCHANGED <<release, mode, policy, cand, replans, graphVars, att, store>>
        /\ k \in CampaignId /\ \A a \in Active : att[a].campaign = k
        /\ ctl' \in Position /\ ctl'.pc = "skip" /\ ctl'.campaign = k
        /\ ctl'.list = {} /\ ctl'.avail = {}
    BY <1>1, <1>2, <1>4, IdlePosition DEF RollingEnd
  <2>2. Turn'
    BY <2>1 DEF Turn, Active
  <2> QED BY <2>1, <2>2, ControlInv DEF IInv, TypeOK
<1>5. ASSUME AdmitSkip PROVE IInv'
  <2>1. /\ UNCHANGED <<release, mode, policy, cand, graphVars, att, store>>
        /\ replans' \subseteq replans /\ ctl.pc = "skip"
        /\ \/ ctl' = Idle
           \/ ctl' = [ctl EXCEPT !.pc = "plan"] /\ Plans = {}
    BY <1>5 DEF AdmitSkip
  <2>2. ctl.list = {} /\ k \in CampaignId /\ \A a \in Active : att[a].campaign = k
    BY <1>2, <2>1 DEF IInv, Turn
  <2>3. /\ ctl' \in Position /\ ctl'.list = {} /\ ctl'.avail \subseteq store
        /\ \/ ctl'.pc = "idle"
           \/ ctl'.pc = "plan" /\ ctl'.campaign = k /\ Plans = {}
    <3>1. CASE ctl' = Idle
      BY <3>1, IdlePosition
    <3>2. CASE ctl' = [ctl EXCEPT !.pc = "plan"] /\ Plans = {}
      BY <1>1, <2>2, <3>2 DEF Position
    <3> QED BY <2>1, <3>1, <3>2
  <2>4. Turn'
    BY <2>1, <2>2, <2>3 DEF Turn, Active, Plans
  <2> QED BY <2>1, <2>3, <2>4, ControlInv DEF IInv, TypeOK
<1>6. ASSUME AdmitPlan PROVE IInv'
  <2>1. /\ UNCHANGED <<release, mode, policy, graphVars, store>> /\ ctl.pc = "plan"
        /\ k \in CampaignId /\ \A a \in Active : att[a].campaign = k
        /\ Plans = {}
    BY <1>2, <1>6 DEF AdmitPlan, IInv, Turn
  <2>2. \/ /\ ctl' = Idle
           /\ \E ids \in SUBSET Candidate, p \in Attempt, revision \in {"base", "fix"} :
                OpenPlan(p, k, ids, revision)
        \/ ctl' = Idle /\ UNCHANGED <<cand, replans, att>>
        \/ Raise
    BY <1>6 DEF AdmitPlan, Members
  <2>3. CASE Raise
    BY <2>1, <2>3, RaiseInv
  <2>4. ASSUME ctl' = Idle, NEW ids \in SUBSET Candidate, NEW p \in Attempt,
               NEW revision \in {"base", "fix"}, OpenPlan(p, k, ids, revision)
        PROVE  IInv'
    <3>1. /\ ctl' \in Position /\ ctl'.pc = "idle" /\ ctl'.list = {}
          /\ ctl'.avail \subseteq store
      BY <2>4, IdlePosition
    <3> HIDE DEF k
    <3> QED BY <2>1, <2>4, <3>1, OpenPlanInv
  <2>5. CASE ctl' = Idle /\ UNCHANGED <<cand, replans, att>>
    <3>1. /\ ctl' \in Position /\ ctl'.pc = "idle" /\ ctl'.list = {}
          /\ ctl'.avail \subseteq store
      BY <2>5, IdlePosition
    <3>2. Turn'
      BY <3>1 DEF Turn
    <3> QED BY <2>1, <2>5, <3>1, <3>2, ControlInv DEF IInv, TypeOK
  <2> QED BY <2>2, <2>3, <2>4, <2>5
<1> QED BY <1>3, <1>4, <1>5, <1>6 DEF Tick

\* A restart forgets the place in the tick.
LEMMA RestartInv ==
  ASSUME IInv, Restart
  PROVE  IInv'
<1>1. /\ UNCHANGED <<release, mode, policy, cand, replans, graphVars, att, store>>
      /\ ctl' \in Position /\ ctl'.pc = "idle" /\ ctl'.list = {} /\ ctl'.avail = {}
  BY IdlePosition DEF Restart
<1>2. Turn'
  BY <1>1 DEF Turn
<1> QED BY <1>1, <1>2, ControlInv DEF IInv, TypeOK

\* exclude-kernels: the new exclusions are recorded derivations.
LEMMA ExcludeKernelsInv ==
  ASSUME IInv, NEW k \in CampaignId, NEW cancelled \in SUBSET Attempt,
         ExcludeKernels(k, cancelled)
  PROVE  IInv'
<1> DEFINE
      selected == Kernels \cap Members(k)
      excluded == exclusion
        \cup (known \cap KernelDrv \cap OutOfScope)
        \cup ({cand[c].drv : c \in selected} \ {NoDrv})
      marked == [c \in Candidate |->
        IF c \in selected
        THEN [cand[c] EXCEPT !.state = "excluded", !.error = "scope"]
        ELSE cand[c]]
      requeued == [c \in Candidate |->
        IF c \notin selected /\ \E a \in cancelled : Collateral(k, a, c)
        THEN [marked[c] EXCEPT !.state = "queued", !.error = "none"]
        ELSE marked[c]]
<1>1. /\ ctl.pc = "idle"
      /\ exclusion' = excluded
      /\ cand' = Refreshed(k, requeued, available, failure, excluded)
      /\ att' = [a \in Attempt |->
           IF a \in cancelled THEN [att[a] EXCEPT !.reason = "excluded"] ELSE att[a]]
      /\ UNCHANGED <<release, mode, policy, replans, known, available, failure,
                     localOnly, origin, evidence, tests, store, ctl>>
  BY DEF ExcludeKernels, Command
<1>2. /\ att \in [Attempt -> AttemptRow] /\ cand \in [Candidate -> CandidateRow]
      /\ exclusion \subseteq known /\ failure \subseteq known
      /\ known \subseteq Drv /\ Sound(cand, known) /\ NoDrv \notin Drv
  BY CampaignAssumption DEF IInv, TypeOK, Shapes
<1>3. selected \subseteq Candidate
  BY DEF Members
<1>4. excluded \subseteq known
  BY <1>2, <1>3 DEF Sound
<1>5. \A c \in Candidate :
        /\ requeued[c] \in CandidateRow /\ requeued[c].drv = cand[c].drv
        /\ \/ requeued[c].state = cand[c].state
           \/ requeued[c].state = "excluded"
           \/ requeued[c].state = "queued" /\ cand[c].state = "inconclusive"
  <2> SUFFICES ASSUME NEW c \in Candidate
               PROVE  /\ requeued[c] \in CandidateRow /\ requeued[c].drv = cand[c].drv
                      /\ \/ requeued[c].state = cand[c].state
                         \/ requeued[c].state = "excluded"
                         \/ requeued[c].state = "queued" /\ cand[c].state = "inconclusive"
    OBVIOUS
  <2>1. \/ requeued[c] = cand[c]
        \/ requeued[c] = [cand[c] EXCEPT !.state = "excluded", !.error = "scope"]
        \/ /\ requeued[c] = [cand[c] EXCEPT !.state = "queued", !.error = "none"]
           /\ cand[c].state = "inconclusive"
    BY DEF Collateral
  <2> HIDE DEF requeued
  <2> QED BY <1>2, <2>1 DEF CandidateRow, State, Error
<1>6. requeued \in [Candidate -> CandidateRow]
  BY <1>5
<1> HIDE DEF requeued, excluded
<1>7. Sound(requeued, known)
  BY <1>2, <1>5 DEF Sound
<1>8. cand' \in [Candidate -> CandidateRow] /\ Sound(cand', known)
  BY <1>1, <1>2, <1>4, <1>6, <1>7, RefreshedSound
<1>9. /\ att' \in [Attempt -> AttemptRow]
      /\ AttemptsKept
      /\ \A a \in Attempt : att'[a].before = att[a].before
  <2>1. att' \in [Attempt -> AttemptRow]
    <3>1. \A a \in Attempt : [att[a] EXCEPT !.reason = "excluded"] \in AttemptRow
      BY <1>2 DEF AttemptRow, Reason
    <3> QED BY <1>1, <1>2, <3>1
  <2>2. \A a \in Attempt : /\ att'[a].before = att[a].before
                           /\ att'[a].state = att[a].state
                           /\ att'[a].kind = att[a].kind
                           /\ att'[a].campaign = att[a].campaign
                           /\ att'[a].targets = att[a].targets
                           /\ att'[a].ids = att[a].ids
    BY <1>1, <1>2 DEF AttemptRow
  <2> QED BY <2>1, <2>2 DEF AttemptsKept
<1> QED BY <1>1, <1>2, <1>4, <1>8, <1>9, TableInv

\* The commands: a plan, a build of queued roots, or a change of rows.
LEMMA OperatorInv ==
  ASSUME IInv, NEW k \in CampaignId, Operator(k)
  PROVE  IInv'
<1>1. /\ att \in [Attempt -> AttemptRow] /\ cand \in [Candidate -> CandidateRow]
      /\ exclusion \subseteq known /\ failure \subseteq known
      /\ known \subseteq Drv /\ Sound(cand, known) /\ NoDrv \notin Drv
      /\ ctl \in Position /\ ctl.avail \subseteq store
  BY CampaignAssumption DEF IInv, TypeOK, Shapes, Snapshots
<1>2. ctl.pc = "idle" => ctl.list = {}
  BY DEF IInv, Turn
<1>3. ASSUME NEW ids \in SUBSET Candidate, NEW revision \in {"base", "fix"},
             Plan(k, ids, revision)
      PROVE  IInv'
  <2>1. /\ UNCHANGED <<release, mode, policy, graphVars, store, ctl>>
        /\ ctl.pc = "idle" /\ Plans = {} /\ \A a \in Active : att[a].campaign = k
        /\ \E p \in Attempt : OpenPlan(p, k, ids, revision)
    BY <1>3 DEF Plan, Command, MayIntend
  <2>2. /\ ctl' \in Position /\ ctl'.pc = "idle" /\ ctl'.list = {}
        /\ ctl'.avail \subseteq store
    BY <1>1, <1>2, <2>1
  <2> QED BY <2>1, <2>2, OpenPlanInv
<1>4. ASSUME NEW ids \in SUBSET Candidate, QueueReplan(k, ids) PROVE IInv'
  <2>1. /\ UNCHANGED <<release, mode, policy, cand, graphVars, att, store, ctl>>
        /\ replans' = replans \cup ids
    BY <1>4 DEF QueueReplan
  <2> QED BY <2>1, IdleInv DEF IInv, TypeOK
<1>5. ASSUME NEW ids \in SUBSET Candidate, BuildOnce(k, ids) PROVE IInv'
  <2> DEFINE targets == {cand[c].drv : c \in ids}
             avail == Seen({})
             location == IF policy[k].rolling THEN "local" ELSE "any"
             admitted == IF policy[k].rolling \/ policy[k].lanes > 1 \/ Builds # {}
                         THEN avail ELSE {}
  <2>1. /\ UNCHANGED <<release, mode, policy, graphVars, store, ctl>>
        /\ ctl.pc = "idle" /\ \A a \in Active : att[a].campaign = k
        /\ \A c \in ids : cand[c].drv # NoDrv
        /\ ~Conflicts(targets, avail)
        /\ \E w \in Attempt : OpenBuild(w, k, targets, location, admitted)
    BY <1>5 DEF BuildOnce, Command, MayIntend
  <2>2. targets \in SUBSET known
    BY <1>1, <2>1 DEF Sound
  <2>3. avail \subseteq store
    BY SeenStore
  <2>4. admitted \in SUBSET store /\ location \in {"any", "local", "remote"}
    BY <2>3
  <2>5. Apart(targets)
    <3> HIDE DEF avail, targets
    <3> QED BY <2>1, <2>3, ApartNow
  <2>6. /\ ctl' \in Position /\ ctl'.pc = "idle" /\ ctl'.list = {}
        /\ ctl'.avail \subseteq store
    BY <1>1, <1>2, <2>1
  <2> HIDE DEF targets, avail, location, admitted
  <2> QED BY <2>1, <2>2, <2>4, <2>5, <2>6, OpenBuildInv
<1>6. ASSUME AttemptsKept, UNCHANGED att
      PROVE  \A a \in Attempt : att'[a].before = att[a].before
  BY <1>6
<1>7. ASSUME NEW ids \in SUBSET Candidate, Retry(k, ids) PROVE IInv'
  <2> DEFINE ds == {cand[c].drv : c \in ids}
             requeued == [c \in Candidate |->
               IF CampaignOf[c] = k /\ cand[c].drv \in ds
               THEN [cand[c] EXCEPT !.state = "queued", !.error = "none"] ELSE cand[c]]
  <2>1. /\ ctl.pc = "idle"
        /\ \A c \in ids : cand[c].drv # NoDrv
        /\ failure' = failure \ ds
        /\ cand' = Refreshed(k, requeued, available, failure', exclusion)
        /\ UNCHANGED <<release, mode, policy, replans, known, available, exclusion,
                       localOnly, origin, evidence, tests, att, store, ctl>>
    BY <1>7 DEF Retry, Command
  <2>2. NoDrv \notin ds
    BY <2>1
  <2> HIDE DEF ds
  <2>3. \A c \in Candidate :
          /\ requeued[c] \in CandidateRow /\ requeued[c].drv = cand[c].drv
          /\ \/ requeued[c].state = cand[c].state
             \/ requeued[c].state = "queued" /\ cand[c].drv \in ds
    BY <1>1, ZenonT(30) DEF CandidateRow, State, Error
  <2>4. requeued \in [Candidate -> CandidateRow]
    BY <2>3
  <2> HIDE DEF requeued
  <2>5. Sound(requeued, known)
    BY <1>1, <2>2, <2>3 DEF Sound
  <2>6. cand' \in [Candidate -> CandidateRow] /\ Sound(cand', known)
    BY <1>1, <2>1, <2>4, <2>5, RefreshedSound
  <2>7. AttemptsKept
    BY <2>1 DEF AttemptsKept
  <2> QED BY <1>1, <2>1, <2>6, <2>7, TableInv
<1>8. ASSUME NEW d \in Drv, RetryDerivation(k, d) PROVE IInv'
  <2>1. /\ ctl.pc = "idle"
        /\ failure' = failure \ {d}
        /\ cand' = Refreshed(k, cand, available, failure', exclusion)
        /\ UNCHANGED <<release, mode, policy, replans, known, available, exclusion,
                       localOnly, origin, evidence, tests, att, store, ctl>>
    BY <1>8 DEF RetryDerivation, Command
  <2>2. cand' \in [Candidate -> CandidateRow] /\ Sound(cand', known)
    BY <1>1, <2>1, RefreshedSound
  <2>3. AttemptsKept
    BY <2>1 DEF AttemptsKept
  <2> QED BY <1>1, <2>1, <2>2, <2>3, TableInv
<1>9. ASSUME NEW m \in {"paused", "running"}, SetMode(k, m) PROVE IInv'
  BY <1>9, IdleInv DEF SetMode, IInv, TypeOK
<1>10. ASSUME NEW p \in Policies, Schedule(k, p) PROVE IInv'
  BY <1>10, IdleInv DEF Schedule, IInv, TypeOK
<1>11. ASSUME NEW cancelled \in {{}} \cup {{a} : a \in Attempt},
              ExcludeKernels(k, cancelled)
       PROVE  IInv'
  BY <1>11, ExcludeKernelsInv
<1>12. ASSUME ExcludeToolchains(k) PROVE IInv'
  <2> DEFINE excluded == exclusion \cup (known \cap ToolchainDrv \cap OutOfScope)
             unblocked == [c \in Candidate |->
               IF CampaignOf[c] = k /\ cand[c].state = "blocked"
               THEN [cand[c] EXCEPT !.state = "queued"] ELSE cand[c]]
  <2>1. /\ ctl.pc = "idle"
        /\ exclusion' = excluded
        /\ cand' = Refreshed(k, unblocked, available, failure, excluded)
        /\ UNCHANGED <<release, mode, policy, replans, known, available, failure,
                       localOnly, origin, evidence, tests, att, store, ctl>>
    BY <1>12 DEF ExcludeToolchains, Command
  <2>2. excluded \subseteq known
    BY <1>1
  <2> HIDE DEF excluded
  <2>3. \A c \in Candidate :
          /\ unblocked[c] \in CandidateRow /\ unblocked[c].drv = cand[c].drv
          /\ \/ unblocked[c].state = cand[c].state
             \/ unblocked[c].state = "queued" /\ cand[c].state = "blocked"
    BY <1>1 DEF CandidateRow, State
  <2>4. unblocked \in [Candidate -> CandidateRow]
    BY <2>3
  <2> HIDE DEF unblocked
  <2>5. Sound(unblocked, known)
    BY <1>1, <2>3 DEF Sound
  <2>6. cand' \in [Candidate -> CandidateRow] /\ Sound(cand', known)
    BY <1>1, <2>1, <2>2, <2>4, <2>5, RefreshedSound
  <2>7. AttemptsKept
    BY <2>1 DEF AttemptsKept
  <2> QED BY <1>1, <2>1, <2>2, <2>6, <2>7, TableInv
<1> QED BY <1>3, <1>4, <1>5, <1>7, <1>8, <1>9, <1>10, <1>11, <1>12 DEF Operator

\* Every step keeps the invariant.
LEMMA StepInv == IInv /\ [Next]_vars => IInv'
<1> SUFFICES ASSUME IInv, [Next]_vars PROVE IInv'
  OBVIOUS
<1>1. CASE UNCHANGED vars
  BY <1>1, IdleInv DEF vars, IInv, TypeOK
<1>2. ASSUME NEW a \in Attempt, Worker(a) PROVE IInv'
  BY <1>2, WorkerInv
<1>3. ASSUME NEW a \in Attempt, Settle(a) PROVE IInv'
  BY <1>3, FinishPlanInv, FinishBuildInv DEF Settle
<1>4. ASSUME NEW a \in Attempt, Cancel(a) PROVE IInv'
  <2>1. att[a].campaign \in CampaignId
    BY <1>4 DEF Cancel, IInv, Together
  <2> QED BY <1>4, <2>1, IdleInv DEF Cancel, IInv, TypeOK
<1>5. ASSUME NEW k \in CampaignId, Admit(k) PROVE IInv'
  BY <1>5, AdmitInv
<1>6. ASSUME NEW k \in CampaignId, Operator(k) PROVE IInv'
  BY <1>6, OperatorInv
<1>7. CASE Tick
  BY <1>7, TickInv
<1>8. CASE Restart
  BY <1>8, RestartInv
<1>9. CASE Upgrade
  BY <1>9, IdleInv DEF Upgrade, IInv, TypeOK
<1> QED BY <1>1, <1>2, <1>3, <1>4, <1>5, <1>6, <1>7, <1>8, <1>9 DEF Next

\* The campaign's invariant holds in every reachable state.
THEOREM CampaignInv == Spec => []IInv
BY InitInv, StepInv, PTL DEF Spec

-----------------------------------------------------------------------------
\* The database is well formed after every transaction.
THEOREM CampaignTypeCorrect == Spec => []TypeOK
<1>1. IInv => TypeOK
  BY DEF IInv
<1> QED BY <1>1, CampaignInv, PTL

\* At most one element, so a cardinality of at most one.
LEMMA AtMostOne ==
  ASSUME NEW S, \A a, b \in S : a = b
  PROVE  Cardinality(S) <= 1
<1>1. CASE S = {}
  BY <1>1, FS_EmptySet
<1>2. CASE S # {}
  <2>1. PICK a : S = {a}
    BY <1>2
  <2> QED BY <2>1, FS_Singleton
<1> QED BY <1>1, <1>2

\* The lanes never get into each other's way: active attempts belong to one
\* campaign with at most one planner, and no derivation or output has two active
\* builds that still have to realize it, whatever the snapshots of the store
\* they were admitted from.
THEOREM LanesStayExclusive == Spec => []LanesExclusive
<1>1. IInv => LanesExclusive
  <2> SUFFICES ASSUME IInv PROVE LanesExclusive
    OBVIOUS
  <2>1. Cardinality(Plans) <= 1
    BY AtMostOne DEF IInv, Together
  <2> QED BY <2>1 DEF IInv, Together, LanesExclusive, OneCampaign
<1> QED BY <1>1, CampaignInv, PTL

-----------------------------------------------------------------------------
(* The candidates.                                                         *)

\* The roots that active builds of a campaign work on.
ActiveRoots(k) ==
  UNION {att[a].targets : a \in {b \in Builds : att[b].campaign = k}}

\* RunningIsOwned, in terms of the roots.
OwnedRow(r, ex, roots) ==
  /\ r.state = "running" => r.drv \in roots
  /\ r.drv \in roots =>
       r.state = "running" \/ (r.state = "excluded" /\ r.drv \in ex)
Owned ==
  \A c \in Candidate : OwnedRow(cand[c], exclusion, ActiveRoots(CampaignOf[c]))

\* No root has two active builds.
RootsApart ==
  \A a, b \in Builds : a # b => att[a].targets \cap att[b].targets = {}

\* Rows of aliases that agree: the same state, inconclusive for the same reason,
\* unless one is excluded for what it depends on.
Agree(r, s) ==
  \/ r.state = s.state /\ (r.state = "inconclusive" => r.error = s.error)
  \/ r.state = "excluded" /\ r.error = "inherited"
  \/ s.state = "excluded" /\ s.error = "inherited"
Alias(table, b, c) ==
  /\ CampaignOf[b] = CampaignOf[c]
  /\ table[b].drv = table[c].drv /\ table[b].drv # NoDrv
RowsAgree ==
  \A b, c \in Candidate : Alias(cand, b, c) => Agree(cand[b], cand[c])

\* A candidate with a recipe is excluded for itself or for what it depends on.
ExcludedFor(r, ex) ==
  r.state = "excluded" /\ r.drv # NoDrv => r.drv \in ex \/ r.error = "inherited"
ExcludedWhy == \A c \in Candidate : ExcludedFor(cand[c], exclusion)

\* A planner works for candidates of its own campaign, and answers for no other.
PlannersOwn ==
  \A a \in Plans : /\ att[a].ids \subseteq Members(att[a].campaign)
                   /\ att[a].rows \subseteq att[a].ids

CInv == Owned /\ RootsApart /\ RowsAgree /\ ExcludedWhy /\ PlannersOwn
          /\ PlanningDetached

\* What a step does to a candidate: a recipe in use is kept, an inconclusive
\* candidate stays so, and one that is out of scope itself stays out.
RecipeKept(c) ==
  cand[c].drv # NoDrv /\ cand'[c].drv = NoDrv =>
    cand[c].drv \notin ActiveDrvs(Builds)
StillHeld(c) ==
  cand[c].state = "inconclusive" =>
    cand'[c].state \in {"inconclusive", "excluded"} \/ cand'[c].drv = NoDrv
StillOut(c) ==
  /\ cand[c].state = "excluded" /\ cand[c].error = "scope"
  /\ cand[c].drv # NoDrv /\ cand[c].drv \notin ActiveRoots(CampaignOf[c])
  => cand'[c] = cand[c]
Unasked == \A c \in Candidate : RecipeKept(c) /\ StillHeld(c) /\ StillOut(c)

\* It is that property.
LEMMA OwnedIsRunning == Owned <=> RunningIsOwned
BY DEF Owned, OwnedRow, ActiveRoots, RunningIsOwned

-----------------------------------------------------------------------------
(* Refreshing and rewriting the candidates.                                *)

\* What a refresh makes of a row: its own derivation out of scope decides, states
\* that are kept are kept, and nobody else becomes excluded but by inheritance.
LEMMA RefreshedCases ==
  ASSUME NEW k, NEW table \in [Candidate -> CandidateRow], NEW av, NEW fl,
         NEW ex \in SUBSET Drv, NEW c \in Candidate,
         NEW n, n = Refreshed(k, table, av, fl, ex)[c]
  PROVE  CampaignOf[c] = k =>
         /\ table[c].drv \in ex => n.state = "excluded" /\ n.error = "scope"
         /\ table[c].drv \notin ex /\ table[c].state \in Kept => n = table[c]
         /\ n.state = "excluded" =>
              \/ n.drv \in ex \/ n.error = "inherited"
              \/ table[c].state = "excluded" /\ n = table[c]
<1> HAVE CampaignOf[c] = k
<1>1. table[c] \in CandidateRow
  OBVIOUS
<1> DEFINE observed ==
      IF table[c].drv = NoDrv \/ table[c].state \in Kept
      THEN table[c].state
      ELSE IF table[c].drv \in av THEN "available"
      ELSE IF table[c].drv \in fl THEN "failed"
      ELSE IF table[c].drv \in Reaches(fl \ ex) THEN "blocked"
      ELSE "queued"
<1>2. n = IF table[c].drv \in ex
          THEN [table[c] EXCEPT !.state = "excluded", !.error = "scope"]
          ELSE IF observed \in {"queued", "blocked"} /\ table[c].drv \in Reaches(ex)
               THEN [table[c] EXCEPT !.state = "excluded", !.error = "inherited"]
          ELSE [table[c] EXCEPT !.state = observed]
  BY DEF Refreshed
<1>3. table[c].state \in Kept => observed = table[c].state /\ observed \notin {"queued", "blocked"}
  BY DEF Kept
<1>4. observed = "excluded" => table[c].state = "excluded"
  OBVIOUS
<1> HIDE DEF observed
<1>5. observed = table[c].state => [table[c] EXCEPT !.state = observed] = table[c]
  BY <1>1 DEF CandidateRow
<1>6. table[c].drv \notin ex /\ table[c].state \in Kept => n = table[c]
  BY <1>2, <1>3, <1>5
<1>7. ASSUME n.state = "excluded", n.drv \notin ex, n.error # "inherited"
      PROVE  table[c].state = "excluded" /\ n = table[c]
  <2>1. n.drv = table[c].drv
    BY <1>1, <1>2 DEF CandidateRow
  <2>2. n # [table[c] EXCEPT !.state = "excluded", !.error = "inherited"]
    BY <1>1, <1>7 DEF CandidateRow
  <2>3. n = [table[c] EXCEPT !.state = observed]
    BY <1>2, <1>7, <2>1, <2>2
  <2>4. observed = "excluded"
    BY <1>1, <1>7, <2>3 DEF CandidateRow
  <2> QED BY <1>4, <1>5, <2>3, <2>4
<1>8. table[c].drv \in ex => n.state = "excluded" /\ n.error = "scope"
  BY <1>1, <1>2 DEF CandidateRow
<1> QED BY <1>6, <1>7, <1>8

\* Aliases whose states are recomputed get the same state.
LEMMA RefreshedAlike ==
  ASSUME NEW k, NEW table \in [Candidate -> CandidateRow], NEW av, NEW fl,
         NEW ex \in SUBSET Drv, NEW b \in Candidate, NEW c \in Candidate,
         Alias(table, b, c), CampaignOf[c] = k, table[b].drv \notin ex,
         table[b].state \notin Kept, table[c].state \notin Kept,
         NEW m, m = Refreshed(k, table, av, fl, ex)[b],
         NEW n, n = Refreshed(k, table, av, fl, ex)[c]
  PROVE  m.state = n.state /\ m.state # "inconclusive"
<1> DEFINE d == table[b].drv
           observed == IF d \in av THEN "available"
                       ELSE IF d \in fl THEN "failed"
                       ELSE IF d \in Reaches(fl \ ex) THEN "blocked"
                       ELSE "queued"
           inherits == observed \in {"queued", "blocked"} /\ d \in Reaches(ex)
<1>1. /\ table[b] \in CandidateRow /\ table[c] \in CandidateRow
      /\ table[c].drv = d /\ d # NoDrv /\ d \notin ex
      /\ CampaignOf[b] = k /\ CampaignOf[c] = k
  BY DEF Alias
<1>2. m = IF inherits THEN [table[b] EXCEPT !.state = "excluded", !.error = "inherited"]
          ELSE [table[b] EXCEPT !.state = observed]
  BY <1>1 DEF Refreshed
<1>3. n = IF inherits THEN [table[c] EXCEPT !.state = "excluded", !.error = "inherited"]
          ELSE [table[c] EXCEPT !.state = observed]
  BY <1>1 DEF Refreshed
<1>4. observed # "inconclusive"
  OBVIOUS
<1> HIDE DEF inherits, observed
<1> QED BY <1>1, <1>2, <1>3, <1>4 DEF CandidateRow

\* Aliases that agree before a refresh, that are recomputed by it or whose
\* derivation is out of scope agree after it.
LEMMA RefreshedAgree ==
  ASSUME NEW k, NEW table \in [Candidate -> CandidateRow], NEW av, NEW fl,
         NEW ex \in SUBSET Drv, NEW b \in Candidate, NEW c \in Candidate,
         Alias(table, b, c), CampaignOf[c] = k,
         \/ table[b].drv \in ex
         \/ table[b].state \notin Kept /\ table[c].state \notin Kept
         \/ Agree(table[b], table[c]),
         NEW m, m = Refreshed(k, table, av, fl, ex)[b],
         NEW n, n = Refreshed(k, table, av, fl, ex)[c]
  PROVE  Agree(m, n)
<1>1. /\ table[b] \in CandidateRow /\ table[c] \in CandidateRow
      /\ table[c].drv = table[b].drv /\ CampaignOf[b] = k
  BY DEF Alias
<1> DEFINE fresh == Refreshed(k, table, av, fl, ex)
<1>2. ASSUME NEW x \in Candidate, CampaignOf[x] = k
      PROVE  /\ table[x].drv \in ex => fresh[x].state = "excluded"
             /\ table[x].drv \notin ex /\ table[x].state \in Kept => fresh[x] = table[x]
  BY <1>2, RefreshedCases
<1>3. m = fresh[b] /\ n = fresh[c]
  OBVIOUS
<1> HIDE DEF fresh
<1>4. CASE table[b].drv \in ex
  <2>1. m.state = "excluded" /\ n.state = "excluded"
    BY <1>1, <1>4, <1>2, <1>3
  <2> QED BY <2>1 DEF Agree
<1>5. CASE table[b].drv \notin ex /\ table[b].state \notin Kept /\ table[c].state \notin Kept
  BY <1>5, <1>3, RefreshedAlike DEF Agree, fresh
<1>6. CASE table[b].drv \notin ex /\ table[b].state \in Kept /\ table[c].state \in Kept
  <2>1. m = table[b] /\ n = table[c]
    BY <1>1, <1>6, <1>2, <1>3
  <2> QED BY <1>6, <2>1
<1>7. CASE table[b].drv \notin ex /\ table[b].state \in Kept /\ table[c].state \notin Kept
  <2>1. m = table[b]
    BY <1>1, <1>7, <1>2, <1>3
  <2> QED BY <1>7, <2>1 DEF Agree, Kept
<1>8. CASE table[b].drv \notin ex /\ table[b].state \notin Kept /\ table[c].state \in Kept
  <2>1. n = table[c]
    BY <1>1, <1>8, <1>2, <1>3
  <2> QED BY <1>8, <2>1 DEF Agree, Kept
<1> QED BY <1>4, <1>5, <1>6, <1>7, <1>8

\* A verdict on derivations is one on all of their candidates.
LEMMA RewrittenAgree ==
  ASSUME NEW k, NEW table \in [Candidate -> CandidateRow], NEW ds, NEW from,
         NEW to \in State, NEW error \in Error, "excluded" \notin from,
         NEW b \in Candidate, NEW c \in Candidate, Alias(table, b, c),
         Agree(table[b], table[c]),
         NEW m, m = Rewritten(k, table, ds, from, to, error)[b],
         NEW n, n = Rewritten(k, table, ds, from, to, error)[c]
  PROVE  Agree(m, n)
<1>1. /\ table[b] \in CandidateRow /\ table[c] \in CandidateRow
      /\ table[c].drv = table[b].drv /\ CampaignOf[b] = CampaignOf[c]
  BY DEF Alias
<1>2. /\ m = IF CampaignOf[b] = k /\ table[b].drv \in ds /\ table[b].state \in from
             THEN [table[b] EXCEPT !.state = to, !.error = error] ELSE table[b]
      /\ n = IF CampaignOf[c] = k /\ table[c].drv \in ds /\ table[c].state \in from
             THEN [table[c] EXCEPT !.state = to, !.error = error] ELSE table[c]
  BY DEF Rewritten
<1>3. CASE table[b].state = table[c].state /\ (table[b].state = "inconclusive" => table[b].error = table[c].error)
  BY <1>1, <1>2, <1>3 DEF Agree, CandidateRow
<1>4. CASE table[b].state = "excluded" /\ table[b].error = "inherited"
  BY <1>2, <1>4 DEF Agree
<1>5. CASE table[c].state = "excluded" /\ table[c].error = "inherited"
  BY <1>2, <1>5 DEF Agree
<1> QED BY <1>3, <1>4, <1>5 DEF Agree

\* Rows with the same columns are the same.
LEMMA SameRow ==
  ASSUME NEW r \in CandidateRow, NEW s \in CandidateRow,
         r.state = s.state, r.drv = s.drv, r.error = s.error
  PROVE  r = s
BY DEF CandidateRow

\* The roots of active builds are on record.
LEMMA RootsRecorded ==
  ASSUME IInv, NEW k
  PROVE  ActiveRoots(k) \subseteq known /\ NoDrv \notin ActiveRoots(k)
<1>1. \A a \in Attempt : att[a].targets \subseteq known
  BY DEF IInv, Recorded
<1>2. known \subseteq Drv /\ NoDrv \notin Drv
  BY CampaignAssumption DEF IInv, TypeOK
<1>3. ActiveRoots(k) \subseteq known
  BY <1>1 DEF ActiveRoots, Builds, Active
<1> QED BY <1>2, <1>3

-----------------------------------------------------------------------------
(* Steps that neither begin nor end an attempt.                            *)

\* The attempts go on; a planner may have written down its answers.
AttemptsGoOn ==
  \A a \in Attempt :
    /\ att'[a].state = att[a].state /\ att'[a].kind = att[a].kind
    /\ att'[a].campaign = att[a].campaign
    /\ att'[a].targets = att[a].targets /\ att'[a].ids = att[a].ids
    /\ att'[a].rows = att[a].rows \/ att'[a].rows \subseteq att[a].ids

\* Then active attempts and roots are the same.
LEMMA GoOnSame ==
  ASSUME AttemptsGoOn
  PROVE  /\ Active' = Active /\ Builds' = Builds /\ Plans' = Plans
         /\ \A k : ActiveRoots(k)' = ActiveRoots(k)
         /\ RootsApart => RootsApart'
         /\ PlannersOwn => PlannersOwn'
<1>1. Active' = Active
  BY DEF AttemptsGoOn, Active
<1>2. Builds' = Builds /\ Plans' = Plans
  BY <1>1 DEF AttemptsGoOn, Active, Builds, Plans
<1>3. \A a \in Active : /\ att'[a].campaign = att[a].campaign
                        /\ att'[a].targets = att[a].targets
                        /\ att'[a].ids = att[a].ids
                        /\ att'[a].rows = att[a].rows \/ att'[a].rows \subseteq att[a].ids
  BY DEF AttemptsGoOn, Active
<1>4. \A k : ActiveRoots(k)' = ActiveRoots(k)
  BY <1>2, <1>3 DEF ActiveRoots, Builds
<1>5. RootsApart => RootsApart'
  BY <1>2, <1>3 DEF RootsApart, Builds
<1>6. PlannersOwn => PlannersOwn'
  BY <1>2, <1>3 DEF PlannersOwn, Plans, Members
<1> QED BY <1>1, <1>2, <1>4, <1>5, <1>6

\* A step that leaves the candidates alone.
LEMMA QuietStep ==
  ASSUME CInv, AttemptsGoOn, UNCHANGED <<cand, exclusion>>,
         \A a \in Plans : \A c \in att[a].ids : c \notin replans'
  PROVE  CInv' /\ Unasked
<1>1. /\ Builds' = Builds /\ Plans' = Plans
      /\ \A k : ActiveRoots(k)' = ActiveRoots(k)
      /\ RootsApart' /\ PlannersOwn'
  BY GoOnSame DEF CInv
<1>2. Owned'
  BY <1>1 DEF CInv, Owned, OwnedRow
<1>3. RowsAgree' /\ ExcludedWhy'
  BY DEF CInv, RowsAgree, ExcludedWhy, Alias
<1>4. PlanningDetached'
  BY <1>1 DEF CInv, PlanningDetached, AttemptsGoOn, Plans, Active
<1>5. Unasked
  BY DEF Unasked, RecipeKept, StillHeld, StillOut
<1> QED BY <1>1, <1>2, <1>3, <1>4, <1>5 DEF CInv

\* A command that rewrites rows of a campaign and refreshes it: a row it rewrites
\* is out of scope, not planned, or requeued while no build owns its derivation.
LEMMA TableStep ==
  ASSUME IInv, CInv, AttemptsGoOn, UNCHANGED replans, NEW k \in CampaignId,
         NEW table \in [Candidate -> CandidateRow], NEW av, NEW fl,
         exclusion \subseteq exclusion', exclusion' \in SUBSET Drv,
         cand' = Refreshed(k, table, av, fl, exclusion'),
         \A c \in Candidate :
           /\ table[c].drv = cand[c].drv
           /\ CampaignOf[c] # k => table[c] = cand[c]
           /\ \/ table[c] = cand[c]
              \/ table[c].drv \in exclusion'
              \/ table[c].drv = NoDrv /\ table[c].state = "excluded"
              \/ table[c].state = "queued" /\ cand[c].drv \notin ActiveRoots(k),
         \A b, c \in Candidate : Alias(cand, b, c) /\ CampaignOf[c] = k =>
           \/ cand[b].drv \in exclusion'
           \/ table[b].state \notin Kept /\ table[c].state \notin Kept
           \/ Agree(table[b], table[c])
  PROVE  /\ CInv'
         /\ \A c \in Candidate : RecipeKept(c) /\ StillOut(c)
         /\ \A c \in Candidate : table[c] = cand[c] => StillHeld(c)
<1>1. /\ Builds' = Builds /\ Plans' = Plans
      /\ \A j : ActiveRoots(j)' = ActiveRoots(j)
      /\ RootsApart' /\ PlannersOwn'
  BY GoOnSame DEF CInv
<1>2. ASSUME NEW c \in Candidate
      PROVE  /\ cand'[c] \in CandidateRow
             /\ cand'[c].drv = cand[c].drv
             /\ CampaignOf[c] # k => cand'[c] = cand[c]
             /\ cand'[c].state = "running" => table[c].state = "running"
             /\ table[c].state = "running" /\ cand'[c].state # "running" =>
                  cand'[c].state = "excluded" /\ cand[c].drv \in exclusion'
  BY RefreshedRow
<1>3. ASSUME NEW c \in Candidate
      PROVE  CampaignOf[c] = k =>
             /\ cand[c].drv \in exclusion' =>
                  cand'[c].state = "excluded" /\ cand'[c].error = "scope"
             /\ cand[c].drv \notin exclusion' /\ table[c].state \in Kept =>
                  cand'[c] = table[c]
             /\ cand'[c].state = "excluded" =>
                  \/ cand'[c].drv \in exclusion' \/ cand'[c].error = "inherited"
                  \/ table[c].state = "excluded" /\ cand'[c] = table[c]
  BY RefreshedCases
<1>4. \A c \in Candidate : cand[c] \in CandidateRow
  BY DEF IInv, TypeOK
<1>5. NoDrv \notin exclusion'
  BY CampaignAssumption
<1>6. Owned'
  <2> SUFFICES ASSUME NEW c \in Candidate
               PROVE  OwnedRow(cand'[c], exclusion', ActiveRoots(CampaignOf[c]))
    BY <1>1 DEF Owned
  <2>1. OwnedRow(cand[c], exclusion, ActiveRoots(CampaignOf[c]))
    BY DEF CInv, Owned
  <2>2. CASE CampaignOf[c] # k
    BY <1>2, <2>1, <2>2 DEF OwnedRow
  <2>3. CASE CampaignOf[c] = k /\ cand[c].drv \in exclusion'
    BY <1>2, <1>3, <2>3 DEF OwnedRow
  <2>4. CASE CampaignOf[c] = k /\ cand[c].drv \notin exclusion' /\ table[c] = cand[c]
    BY <1>2, <1>3, <2>1, <2>4 DEF OwnedRow, Kept
  <2>5. CASE CampaignOf[c] = k /\ table[c].drv = NoDrv /\ table[c].state = "excluded"
    BY <1>2, <2>5, RootsRecorded DEF OwnedRow
  <2>6. CASE CampaignOf[c] = k /\ table[c].state = "queued" /\ cand[c].drv \notin ActiveRoots(k)
    BY <1>2, <2>6 DEF OwnedRow
  <2> QED BY <2>2, <2>3, <2>4, <2>5, <2>6
<1>7. RowsAgree'
  <2> SUFFICES ASSUME NEW b \in Candidate, NEW c \in Candidate, Alias(cand', b, c)
               PROVE  Agree(cand'[b], cand'[c])
    BY DEF RowsAgree, Alias
  <2>1. Alias(cand, b, c) /\ Alias(table, b, c)
    BY <1>2 DEF Alias
  <2>2. CASE CampaignOf[c] # k
    BY <1>2, <2>1, <2>2 DEF CInv, RowsAgree, Alias
  <2>3. CASE CampaignOf[c] = k
    BY <2>1, <2>3, RefreshedAgree
  <2> QED BY <2>2, <2>3
<1>8. ExcludedWhy'
  <2> SUFFICES ASSUME NEW c \in Candidate PROVE ExcludedFor(cand'[c], exclusion')
    BY DEF ExcludedWhy, ExcludedFor
  <2>1. ExcludedFor(cand[c], exclusion)
    BY DEF CInv, ExcludedWhy
  <2>2. CASE CampaignOf[c] # k
    BY <1>2, <2>1, <2>2 DEF ExcludedFor
  <2>3. CASE CampaignOf[c] = k
    BY <1>2, <1>3, <2>1, <2>3 DEF ExcludedFor
  <2> QED BY <2>2, <2>3
<1>9. PlanningDetached'
  BY <1>1, <1>2 DEF CInv, PlanningDetached, AttemptsGoOn, Plans, Active, PlannersOwn, Members
<1>10. ASSUME NEW c \in Candidate PROVE RecipeKept(c)
  BY <1>2 DEF RecipeKept
<1>11. ASSUME NEW c \in Candidate PROVE StillOut(c)
  <2> SUFFICES ASSUME cand[c].state = "excluded", cand[c].error = "scope", cand[c].drv # NoDrv
               PROVE  cand'[c] = cand[c]
    BY DEF StillOut
  <2>1. cand[c].drv \in exclusion'
    BY DEF CInv, ExcludedWhy, ExcludedFor
  <2> QED BY <1>2, <1>3, <1>4, <2>1, SameRow
<1>12. ASSUME NEW c \in Candidate, table[c] = cand[c] PROVE StillHeld(c)
  BY <1>2, <1>3, <1>12 DEF StillHeld, Kept
<1> QED BY <1>1, <1>6, <1>7, <1>8, <1>9, <1>10, <1>11, <1>12 DEF CInv

-----------------------------------------------------------------------------
(* Attempts begin.                                                         *)

\* A planner begins with candidates whose recipe may be replaced, or that have
\* none.
LEMMA OpenPlanStep ==
  ASSUME IInv, CInv, NEW p \in Attempt, NEW k \in CampaignId,
         NEW ids \in SUBSET Candidate, NEW revision \in {"base", "fix"},
         OpenPlan(p, k, ids, revision), Plans = {}, UNCHANGED exclusion,
         \A c \in ids :
           \/ PlanAllowed(k, c, revision)
           \/ revision = "base" /\ cand[c].state = "unplanned" /\ CampaignOf[c] = k
  PROVE  CInv' /\ Unasked
<1> DEFINE row == [Unused EXCEPT !.state = "active", !.campaign = k,
                     !.kind = "plan", !.ids = ids, !.revision = revision]
<1>1. /\ att' = [att EXCEPT ![p] = row]
      /\ cand' = [c \in Candidate |->
           IF revision # "base" /\ c \in ids
           THEN [state |-> "unplanned", drv |-> NoDrv, error |-> "none"]
           ELSE cand[c]]
      /\ replans' = replans \ ids
      /\ att[p].state = "none"
  BY DEF OpenPlan, Fresh
<1>2. /\ row.state = "active" /\ row.kind = "plan" /\ row.campaign = k
      /\ row.ids = ids /\ row.rows = {}
  BY DEF Unused
<1> HIDE DEF row
<1>3. \A a \in Attempt : att'[a] = IF a = p THEN row ELSE att[a]
  BY <1>1 DEF IInv, TypeOK
<1>4. Plans' = {p} /\ Builds' = Builds /\ p \notin Builds
  BY <1>1, <1>2, <1>3 DEF Active, Plans, Builds
<1>5. \A b \in Builds : att'[b] = att[b]
  BY <1>3, <1>4 DEF Builds, Active
<1>6. RootsApart' /\ \A j : ActiveRoots(j)' = ActiveRoots(j)
  BY <1>4, <1>5 DEF CInv, RootsApart, ActiveRoots
<1>7. \A c \in Candidate :
        \/ cand'[c] = cand[c]
        \/ /\ cand'[c].state = "unplanned" /\ cand'[c].drv = NoDrv
           /\ revision = "fix" /\ c \in ids
  BY <1>1
<1>8. Owned'
  <2> SUFFICES ASSUME NEW c \in Candidate
               PROVE  OwnedRow(cand'[c], exclusion, ActiveRoots(CampaignOf[c]))
    BY <1>6 DEF Owned
  <2> QED BY <1>7, RootsRecorded DEF CInv, Owned, OwnedRow
<1>9. RowsAgree' /\ ExcludedWhy'
  BY <1>7 DEF CInv, RowsAgree, ExcludedWhy, ExcludedFor, Alias
<1>10. PlannersOwn'
  BY <1>2, <1>3, <1>4 DEF PlannersOwn, Members, PlanAllowed
<1>11. PlanningDetached'
  <2> SUFFICES ASSUME NEW c \in ids PROVE cand'[c].drv = NoDrv /\ c \notin replans'
    BY <1>2, <1>3, <1>4 DEF PlanningDetached
  <2>1. CASE revision = "fix"
    BY <1>1, <2>1
  <2>2. CASE revision = "base"
    BY <1>1, <2>2 DEF PlanAllowed, IInv, Shapes, Sound
  <2> QED BY <2>1, <2>2
<1>12. ASSUME NEW c \in Candidate
       PROVE  RecipeKept(c) /\ StillHeld(c) /\ StillOut(c)
  <2>1. CASE cand'[c] = cand[c]
    BY <2>1 DEF RecipeKept, StillHeld, StillOut
  <2>2. CASE cand'[c].drv = NoDrv /\ revision = "fix" /\ c \in ids
    <3>1. PlanAllowed(k, c, revision)
      BY <2>2
    <3>2. cand[c].drv # NoDrv => cand[c].drv \notin ActiveDrvs(Builds)
      BY <3>1 DEF PlanAllowed
    <3>3. cand[c].state = "excluded" /\ cand[c].drv # NoDrv => cand[c].error = "inherited"
      BY <3>1 DEF PlanAllowed, ReplanEligible
    <3> QED BY <2>2, <3>2, <3>3 DEF RecipeKept, StillHeld, StillOut
  <2> QED BY <1>7, <2>1, <2>2
<1> QED BY <1>6, <1>8, <1>9, <1>10, <1>11, <1>12 DEF CInv, Unasked

\* A build begins with roots that some candidate holds ready and that are in
\* scope: none of them has a build, and all of their candidates are running from
\* here on.
LEMMA OpenBuildStep ==
  ASSUME IInv, CInv, NEW w \in Attempt, NEW k \in CampaignId,
         NEW targets \in SUBSET known, NEW location, NEW admitted,
         OpenBuild(w, k, targets, location, admitted), InScope(targets),
         \A a \in Active : att[a].campaign = k, UNCHANGED exclusion,
         \A t \in targets : \E c \in Members(k) :
           cand[c].drv = t /\ cand[c].state \in {"queued", "available"}
  PROVE  CInv' /\ Unasked
<1> DEFINE row == [Unused EXCEPT !.state = "active", !.campaign = k,
                     !.kind = "build", !.targets = targets,
                     !.location = location, !.before = admitted]
<1>1. /\ att' = [att EXCEPT ![w] = row]
      /\ cand' = [c \in Candidate |->
           IF CampaignOf[c] = k /\ cand[c].drv \in targets
           THEN [cand[c] EXCEPT !.state = "running"] ELSE cand[c]]
      /\ replans' = replans
      /\ att[w].state = "none"
  BY DEF OpenBuild, Fresh
<1>2. /\ row.state = "active" /\ row.kind = "build" /\ row.campaign = k
      /\ row.targets = targets
  BY DEF Unused
<1> HIDE DEF row
<1>3. \A a \in Attempt : att'[a] = IF a = w THEN row ELSE att[a]
  BY <1>1 DEF IInv, TypeOK
<1>4. Plans' = Plans /\ Builds' = Builds \cup {w} /\ w \notin Builds /\ w \notin Plans
  BY <1>1, <1>2, <1>3 DEF Active, Plans, Builds
<1>5. /\ \A b \in Builds : att'[b] = att[b] /\ att[b].campaign = k
      /\ \A b \in Plans : att'[b] = att[b]
      /\ att'[w].targets = targets /\ att'[w].campaign = k
  BY <1>2, <1>3, <1>4 DEF Builds, Plans, Active
<1>6. /\ ActiveRoots(k)' = ActiveRoots(k) \cup targets
      /\ \A j : j # k => ActiveRoots(j)' = ActiveRoots(j)
  BY <1>4, <1>5 DEF ActiveRoots
<1>7. targets \cap ActiveRoots(k) = {} /\ targets \cap exclusion = {}
  <2>1. ASSUME NEW t \in targets PROVE t \notin ActiveRoots(k)
    <3>1. PICK c \in Members(k) : cand[c].drv = t /\ cand[c].state \in {"queued", "available"}
      OBVIOUS
    <3> QED BY <3>1 DEF CInv, Owned, OwnedRow, Members
  <2>2. targets \in SUBSET Drv
    BY DEF IInv, TypeOK
  <2>3. targets \subseteq ClosureOf(targets)
    BY <2>2, ClosureClosed
  <2> QED BY <2>1, <2>3 DEF InScope
<1>8. RootsApart'
  <2>1. \A b \in Builds : att[b].targets \cap targets = {}
    BY <1>5, <1>7 DEF ActiveRoots
  <2> QED BY <1>4, <1>5, <2>1 DEF CInv, RootsApart
<1>9. ASSUME NEW c \in Candidate
      PROVE  /\ cand'[c].drv = cand[c].drv /\ cand'[c].error = cand[c].error
             /\ CampaignOf[c] = k /\ cand[c].drv \in targets => cand'[c].state = "running"
             /\ CampaignOf[c] # k \/ cand[c].drv \notin targets => cand'[c] = cand[c]
  BY <1>1 DEF IInv, TypeOK, CandidateRow
<1>10. Owned'
  <2> SUFFICES ASSUME NEW c \in Candidate
               PROVE  OwnedRow(cand'[c], exclusion, ActiveRoots(CampaignOf[c])')
    BY DEF Owned
  <2>1. OwnedRow(cand[c], exclusion, ActiveRoots(CampaignOf[c]))
    BY DEF CInv, Owned
  <2>2. CASE CampaignOf[c] = k
    BY <1>6, <1>9, <2>1, <2>2 DEF OwnedRow
  <2>3. CASE CampaignOf[c] # k
    BY <1>6, <1>9, <2>1, <2>3 DEF OwnedRow
  <2> QED BY <2>2, <2>3
<1>11. RowsAgree'
  <2> SUFFICES ASSUME NEW b \in Candidate, NEW c \in Candidate, Alias(cand', b, c)
               PROVE  Agree(cand'[b], cand'[c])
    BY DEF RowsAgree, Alias
  <2>1. Alias(cand, b, c)
    BY <1>9 DEF Alias
  <2>2. CASE CampaignOf[c] = k /\ cand[c].drv \in targets
    BY <1>9, <2>1, <2>2 DEF Alias, Agree
  <2>3. CASE CampaignOf[c] # k \/ cand[c].drv \notin targets
    BY <1>9, <2>1, <2>3 DEF Alias, CInv, RowsAgree
  <2> QED BY <2>2, <2>3
<1>12. ExcludedWhy'
  BY <1>9 DEF CInv, ExcludedWhy, ExcludedFor
<1>13. PlannersOwn' /\ PlanningDetached'
  BY <1>1, <1>4, <1>5, <1>9 DEF CInv, PlannersOwn, PlanningDetached, Members
<1>14. ASSUME NEW c \in Candidate
       PROVE  RecipeKept(c) /\ StillHeld(c) /\ StillOut(c)
  <2>1. CASE cand'[c] = cand[c]
    BY <2>1 DEF RecipeKept, StillHeld, StillOut
  <2>2. CASE CampaignOf[c] = k /\ cand[c].drv \in targets
    <3>1. PICK b \in Members(k) :
            cand[b].drv = cand[c].drv /\ cand[b].state \in {"queued", "available"}
      BY <2>2
    <3>2. b \in Candidate /\ CampaignOf[b] = k
      BY <3>1 DEF Members
    <3>3. cand[c].drv # NoDrv /\ cand[c].drv \notin exclusion
      BY <1>7, <2>2, CampaignAssumption DEF IInv, TypeOK
    <3>4. Agree(cand[b], cand[c])
      BY <2>2, <3>1, <3>2, <3>3 DEF CInv, RowsAgree, Alias
    <3>5. cand[c].state # "inconclusive"
      BY <3>1, <3>4 DEF Agree
    <3>6. cand[c].state = "excluded" => cand[c].error = "inherited"
      BY <3>3 DEF CInv, ExcludedWhy, ExcludedFor
    <3> QED BY <1>9, <3>3, <3>5, <3>6 DEF RecipeKept, StillHeld, StillOut
  <2> QED BY <1>9, <2>1, <2>2
<1> QED BY <1>8, <1>10, <1>11, <1>12, <1>13, <1>14 DEF CInv, Unasked

-----------------------------------------------------------------------------
(* Settlement.                                                             *)

\* The end of an attempt leaves the others as they are.
LEMMA EndOne ==
  ASSUME IInv, CInv, NEW w \in Active,
         \A a \in Attempt \ {w} : att'[a] = att[a], att'[w].state = "finished"
  PROVE  /\ Active' = Active \ {w} /\ Builds' = Builds \ {w} /\ Plans' = Plans \ {w}
         /\ RootsApart' /\ PlannersOwn'
         /\ \A a \in Active \ {w} : att'[a] = att[a]
<1>1. w \in Attempt
  BY DEF Active
<1>2. Active' = Active \ {w}
  BY <1>1 DEF Active
<1>3. \A a \in Active \ {w} : att'[a] = att[a]
  BY DEF Active
<1>4. Builds' = Builds \ {w} /\ Plans' = Plans \ {w}
  BY <1>2, <1>3 DEF Builds, Plans
<1>5. RootsApart'
  BY <1>3, <1>4 DEF CInv, RootsApart, Builds
<1>6. PlannersOwn'
  BY <1>3, <1>4 DEF CInv, PlannersOwn, Plans, Members
<1> QED BY <1>2, <1>3, <1>4, <1>5, <1>6

\* Planned candidates enter beside their aliases, whatever became of those while
\* the planner was at work.
LEMMA FinishPlanStep ==
  ASSUME IInv, CInv, NEW p \in Attempt, FinishPlan(p)
  PROVE  CInv' /\ Unasked
<1> DEFINE
      k == att[p].campaign
      recipe == [c \in att[p].rows |-> Recipe[c][att[p].revision]]
      planned == {c \in att[p].rows : recipe[c] # NoDrv}
      graph == ClosureOf({recipe[c] : c \in planned})
      aliases(c) == {b \in Members(k) : /\ cand[b].drv = recipe[c]
                                        /\ cand[b].state = "inconclusive"}
      table == [c \in Candidate |->
        IF c \in planned
        THEN IF aliases(c) # {}
             THEN cand[CHOOSE b \in aliases(c) : TRUE]
             ELSE [state |-> "queued", drv |-> recipe[c], error |-> "none"]
        ELSE IF c \in att[p].ids
             THEN [cand[c] EXCEPT !.state = "evaluation-error", !.error = "other"]
        ELSE cand[c]]
      excluded == AddGraph(graph)
      fresh == Refreshed(k, table, available, failure, excluded)
      roots == UNION {att[b].targets : b \in {b \in Builds : att[b].campaign = k}}
<1>1. /\ p \in Plans
      /\ exclusion' = excluded
      /\ cand' = [c \in Candidate |->
           IF CampaignOf[c] = k /\ fresh[c].drv \in roots
           THEN [fresh[c] EXCEPT !.state = "running"] ELSE fresh[c]]
      /\ att' = [att EXCEPT ![p].state = "finished", ![p].rows = {}]
      /\ UNCHANGED replans
  BY DEF FinishPlan
<1>2. /\ p \in Active /\ att \in [Attempt -> AttemptRow] /\ k \in CampaignId
      /\ cand \in [Candidate -> CandidateRow]
      /\ \A c \in Candidate : cand[c] \in CandidateRow
      /\ known \subseteq Drv /\ exclusion \subseteq Drv /\ NoDrv \notin Drv
  BY <1>1, CampaignAssumption DEF IInv, TypeOK, Plans, Together
<1>3. roots = ActiveRoots(k)
  BY DEF ActiveRoots
<1>4. /\ att[p].ids \subseteq Members(k) /\ att[p].rows \subseteq att[p].ids
      /\ planned \subseteq att[p].rows
      /\ \A c \in att[p].ids : cand[c].drv = NoDrv
  BY <1>1 DEF CInv, PlannersOwn, PlanningDetached
<1>5. \A c \in planned : recipe[c] \in Drv
  <2> SUFFICES ASSUME NEW c \in planned PROVE recipe[c] \in Drv
    OBVIOUS
  <2>1. c \in Candidate /\ recipe[c] = Recipe[c][att[p].revision] /\ recipe[c] # NoDrv
    BY <1>4 DEF Members
  <2>2. Recipe[c] \in [{"base", "fix"} -> Drv \cup {NoDrv}]
    BY <2>1, CampaignAssumption
  <2>3. att[p].revision \in {"base", "fix"}
    BY <1>2 DEF AttemptRow
  <2> HIDE DEF recipe
  <2> QED BY <2>1, <2>2, <2>3
<1>6. excluded \in SUBSET Drv /\ exclusion \subseteq excluded
  <2>1. {recipe[c] : c \in planned} \in SUBSET Drv
    BY <1>5
  <2> HIDE DEF recipe, planned
  <2>2. graph \subseteq Drv
    BY <2>1, ClosureClosed
  <2> QED BY <1>2, <2>2 DEF AddGraph
<1> HIDE DEF k, recipe, planned, excluded, table, roots
<1>7. ASSUME NEW c \in Candidate
      PROVE  /\ c \in planned /\ aliases(c) # {} =>
                  \E b \in aliases(c) : table[c] = cand[b]
             /\ c \in planned /\ aliases(c) = {} =>
                  /\ table[c].state = "queued" /\ table[c].drv = recipe[c]
                  /\ table[c] \in CandidateRow
             /\ c \notin planned /\ c \in att[p].ids =>
                  /\ table[c].state = "evaluation-error" /\ table[c].drv = NoDrv
                  /\ table[c] \in CandidateRow
             /\ c \notin planned /\ c \notin att[p].ids => table[c] = cand[c]
  <2>1. CASE c \in planned /\ aliases(c) # {}
    BY <2>1 DEF table
  <2>2. CASE c \in planned /\ aliases(c) = {}
    <3>1. table[c] = [state |-> "queued", drv |-> recipe[c], error |-> "none"]
      BY <2>2 DEF table
    <3>2. recipe[c] \in Drv
      BY <1>5, <2>2
    <3> QED BY <2>2, <3>1, <3>2 DEF CandidateRow, State, Error
  <2>3. CASE c \notin planned /\ c \in att[p].ids
    <3>1. table[c] = [cand[c] EXCEPT !.state = "evaluation-error", !.error = "other"]
      BY <2>3 DEF table
    <3> QED BY <1>2, <1>4, <2>3, <3>1 DEF CandidateRow, State, Error
  <2>4. CASE c \notin planned /\ c \notin att[p].ids
    BY <2>4 DEF table
  <2> QED BY <2>1, <2>2, <2>3, <2>4
<1>8. \A b, c \in Candidate : b \in planned /\ c \in planned /\ recipe[b] = recipe[c] =>
        table[b] = table[c]
  <2> SUFFICES ASSUME NEW b \in Candidate, NEW c \in Candidate, b \in planned,
                      c \in planned, recipe[b] = recipe[c]
               PROVE  table[b] = table[c]
    OBVIOUS
  <2> DEFINE some(S) == CHOOSE x \in S : TRUE
  <2>1. aliases(b) = aliases(c)
    OBVIOUS
  <2>2. /\ table[b] = IF aliases(b) # {} THEN cand[some(aliases(b))]
                      ELSE [state |-> "queued", drv |-> recipe[b], error |-> "none"]
        /\ table[c] = IF aliases(c) # {} THEN cand[some(aliases(c))]
                      ELSE [state |-> "queued", drv |-> recipe[c], error |-> "none"]
    BY DEF table
  <2> HIDE DEF some, aliases
  <2> QED BY <2>1, <2>2
<1>9. table \in [Candidate -> CandidateRow]
  <2>1. \A c \in Candidate : table[c] \in CandidateRow
    BY <1>2, <1>7 DEF Members
  <2> QED BY <2>1 DEF table
<1>10. \A c \in Candidate : c \in planned => table[c].drv = recipe[c] /\ recipe[c] # NoDrv
  BY <1>2, <1>5, <1>7
<1>11. ASSUME NEW c \in Candidate
       PROVE  /\ fresh[c] \in CandidateRow
              /\ fresh[c].drv = table[c].drv
              /\ CampaignOf[c] # k => fresh[c] = table[c]
              /\ fresh[c].state = "running" => table[c].state = "running"
  BY <1>6, <1>9, RefreshedRow
<1>12. ASSUME NEW c \in Candidate
       PROVE  CampaignOf[c] = k =>
              /\ table[c].drv \in excluded =>
                   fresh[c].state = "excluded" /\ fresh[c].error = "scope"
              /\ table[c].drv \notin excluded /\ table[c].state \in Kept =>
                   fresh[c] = table[c]
              /\ fresh[c].state = "excluded" =>
                   \/ fresh[c].drv \in excluded \/ fresh[c].error = "inherited"
                   \/ table[c].state = "excluded" /\ fresh[c] = table[c]
  BY <1>6, <1>9, RefreshedCases
<1>13. \A b, c \in Candidate :
         /\ Alias(table, b, c) /\ CampaignOf[c] = k
         /\ \/ table[b].drv \in excluded
            \/ table[b].state \notin Kept /\ table[c].state \notin Kept
            \/ Agree(table[b], table[c])
         => Agree(fresh[b], fresh[c])
  BY <1>6, <1>9, RefreshedAgree
<1> HIDE DEF fresh
<1>14. ASSUME NEW c \in Candidate
       PROVE  /\ cand'[c].drv = table[c].drv /\ cand'[c].error = fresh[c].error
              /\ cand'[c] \in CandidateRow
              /\ CampaignOf[c] = k /\ table[c].drv \in ActiveRoots(k) =>
                   cand'[c].state = "running"
              /\ CampaignOf[c] # k \/ table[c].drv \notin ActiveRoots(k) =>
                   cand'[c] = fresh[c]
  BY <1>1, <1>3, <1>11 DEF CandidateRow, State
<1>15. \A c \in Candidate : CampaignOf[c] # k => cand'[c] = cand[c]
  BY <1>4, <1>7, <1>11, <1>14 DEF Members
<1>16. /\ Builds' = Builds /\ Plans' = Plans \ {p} /\ RootsApart' /\ PlannersOwn'
       /\ \A j : ActiveRoots(j)' = ActiveRoots(j)
  <2>1. \A a \in Attempt \ {p} : att'[a] = att[a]
    BY <1>1, <1>2
  <2>2. att'[p].state = "finished"
    BY <1>1, <1>2 DEF AttemptRow
  <2>3. /\ Builds' = Builds \ {p} /\ Plans' = Plans \ {p}
        /\ RootsApart' /\ PlannersOwn'
        /\ \A a \in Active \ {p} : att'[a] = att[a]
    BY <1>2, <2>1, <2>2, EndOne
  <2>4. p \notin Builds
    BY <1>1 DEF Builds, Plans
  <2>5. \A j : ActiveRoots(j)' = ActiveRoots(j)
    BY <2>3, <2>4 DEF ActiveRoots, Builds
  <2> QED BY <2>3, <2>4, <2>5
<1>17. Owned'
  <2> SUFFICES ASSUME NEW c \in Candidate
               PROVE  OwnedRow(cand'[c], excluded, ActiveRoots(CampaignOf[c]))
    BY <1>1, <1>16 DEF Owned
  <2>1. OwnedRow(cand[c], exclusion, ActiveRoots(CampaignOf[c]))
    BY DEF CInv, Owned
  <2>2. CASE CampaignOf[c] # k
    BY <1>6, <1>15, <2>1, <2>2 DEF OwnedRow
  <2>3. CASE CampaignOf[c] = k /\ table[c].drv \in ActiveRoots(k)
    BY <1>14, <2>3 DEF OwnedRow
  <2>4. CASE CampaignOf[c] = k /\ table[c].drv \notin ActiveRoots(k)
    <3>1. table[c].state = "running" => table[c] = cand[c]
      BY <1>7 DEF Members
    <3> QED BY <1>11, <1>14, <2>1, <2>4, <3>1 DEF OwnedRow
  <2> QED BY <2>2, <2>3, <2>4
<1>18. RowsAgree'
  <2> SUFFICES ASSUME NEW b \in Candidate, NEW c \in Candidate, Alias(cand', b, c)
               PROVE  Agree(cand'[b], cand'[c])
    BY DEF RowsAgree, Alias
  <2>1. Alias(table, b, c)
    BY <1>14 DEF Alias
  <2>2. CASE CampaignOf[c] # k
    BY <1>15, <2>2 DEF Alias, CInv, RowsAgree
  <2>3. CASE CampaignOf[c] = k /\ table[c].drv \in ActiveRoots(k)
    BY <1>14, <2>1, <2>3 DEF Alias, Agree
  <2>4. CASE CampaignOf[c] = k /\ table[c].drv \notin ActiveRoots(k)
    <3>1. ASSUME NEW x \in Candidate, NEW y \in Candidate, Alias(table, x, y),
                 CampaignOf[y] = k, table[y].drv \notin ActiveRoots(k),
                 x \in planned, y \notin planned
          PROVE  \/ table[x].drv \in excluded
                 \/ table[x].state \notin Kept /\ table[y].state \notin Kept
                 \/ Agree(table[x], table[y]) /\ Agree(table[y], table[x])
      <4>1. y \notin att[p].ids /\ table[y] = cand[y]
        BY <1>7, <3>1 DEF Alias
      <4>2. table[x].drv = recipe[x] /\ cand[y].drv = recipe[x] /\ recipe[x] # NoDrv
        BY <1>10, <3>1, <4>1 DEF Alias
      <4>3. CASE aliases(x) # {}
        <5>1. PICK b0 \in aliases(x) : table[x] = cand[b0]
          BY <1>7, <3>1, <4>3
        <5>2. Alias(cand, b0, y) /\ b0 \in Candidate
          BY <3>1, <4>2, <5>1 DEF Alias, Members
        <5> QED BY <4>1, <5>1, <5>2 DEF CInv, RowsAgree, Alias
      <4>4. CASE aliases(x) = {}
        <5>1. table[x].state \notin Kept
          BY <1>7, <3>1, <4>4 DEF Kept
        <5>2. cand[y].state # "inconclusive"
          BY <3>1, <4>2, <4>4 DEF Members
        <5>3. cand[y].state # "running"
          BY <3>1, <4>1 DEF CInv, Owned, OwnedRow
        <5>4. cand[y].state = "excluded" =>
                cand[y].drv \in excluded \/ cand[y].error = "inherited"
          BY <1>6, <4>2 DEF CInv, ExcludedWhy, ExcludedFor
        <5> QED BY <4>1, <4>2, <5>1, <5>2, <5>3, <5>4 DEF Kept, Agree
      <4> QED BY <4>3, <4>4
    <3>2. \/ table[b].drv \in excluded
          \/ table[b].state \notin Kept /\ table[c].state \notin Kept
          \/ Agree(table[b], table[c])
      <4>1. CASE b \in planned /\ c \in planned
        <5>1. table[b] = table[c]
          BY <1>8, <1>10, <2>1, <4>1 DEF Alias
        <5> QED BY <5>1 DEF Agree
      <4>2. CASE b \in planned /\ c \notin planned
        BY <2>1, <2>4, <3>1, <4>2
      <4>3. CASE b \notin planned /\ c \in planned
        BY <2>1, <2>4, <3>1, <4>3 DEF Alias
      <4>4. CASE b \notin planned /\ c \notin planned
        <5>1. table[b] = cand[b] /\ table[c] = cand[c]
          BY <1>7, <2>1, <4>4 DEF Alias
        <5> QED BY <2>1, <5>1 DEF CInv, RowsAgree, Alias
      <4> QED BY <4>1, <4>2, <4>3, <4>4
    <3>3. Agree(fresh[b], fresh[c])
      BY <1>13, <2>1, <2>4, <3>2
    <3>4. cand'[b] = fresh[b] /\ cand'[c] = fresh[c]
      BY <1>14, <2>1, <2>4 DEF Alias
    <3> QED BY <3>3, <3>4
  <2> QED BY <2>2, <2>3, <2>4
<1>19. ExcludedWhy'
  <2> SUFFICES ASSUME NEW c \in Candidate PROVE ExcludedFor(cand'[c], excluded)
    BY <1>1 DEF ExcludedWhy, ExcludedFor
  <2>1. ExcludedFor(cand[c], exclusion)
    BY DEF CInv, ExcludedWhy
  <2>2. CASE CampaignOf[c] # k
    BY <1>6, <1>15, <2>1, <2>2 DEF ExcludedFor
  <2>3. CASE CampaignOf[c] = k /\ table[c].drv \in ActiveRoots(k)
    BY <1>14, <2>3 DEF ExcludedFor
  <2>4. CASE CampaignOf[c] = k /\ table[c].drv \notin ActiveRoots(k)
    <3>1. table[c].state = "excluded" => table[c] = cand[c]
      BY <1>7 DEF Members
    <3>2. cand'[c] = fresh[c]
      BY <1>14, <2>4
    <3> QED BY <1>6, <1>12, <2>1, <2>4, <3>1, <3>2 DEF ExcludedFor
  <2> QED BY <2>2, <2>3, <2>4
<1>20. PlanningDetached'
  <2>1. Plans' = {}
    BY <1>1, <1>16 DEF IInv, Together
  <2> QED BY <2>1 DEF PlanningDetached
<1>21. ASSUME NEW c \in Candidate
       PROVE  RecipeKept(c) /\ StillHeld(c) /\ StillOut(c)
  <2>1. CASE CampaignOf[c] # k \/ cand[c].drv = NoDrv
    <3>1. cand[c].drv = NoDrv => cand[c].state # "inconclusive"
      BY DEF IInv, Shapes, Sound
    <3> QED BY <1>15, <2>1, <3>1 DEF RecipeKept, StillHeld, StillOut
  <2>2. CASE CampaignOf[c] = k /\ cand[c].drv # NoDrv
    <3>1. table[c] = cand[c]
      BY <1>4, <1>7, <2>2
    <3>2. cand[c].state = "inconclusive" => cand[c].drv \notin ActiveRoots(k)
      BY <2>2 DEF CInv, Owned, OwnedRow
    <3>3. StillHeld(c)
      BY <1>12, <1>14, <2>2, <3>1, <3>2 DEF StillHeld, Kept
    <3>4. ASSUME cand[c].state = "excluded", cand[c].error = "scope",
                 cand[c].drv \notin ActiveRoots(k)
          PROVE  cand'[c] = cand[c]
      <4>1. cand[c].drv \in excluded
        BY <1>6, <2>2, <3>4 DEF CInv, ExcludedWhy, ExcludedFor
      <4>2. cand'[c] = fresh[c] /\ fresh[c].state = "excluded" /\ fresh[c].error = "scope"
        BY <1>12, <1>14, <2>2, <3>1, <3>4, <4>1
      <4> QED BY <1>2, <1>11, <3>1, <3>4, <4>2, SameRow
    <3> QED BY <1>14, <2>2, <3>1, <3>3, <3>4 DEF RecipeKept, StillOut
  <2> QED BY <2>1, <2>2
<1> QED BY <1>16, <1>17, <1>18, <1>19, <1>20, <1>21 DEF CInv, Unasked

\* A build that ends lets go of its roots, all of them, and gives the same
\* verdict to all of their candidates.
LEMMA FinishBuildStep ==
  ASSUME IInv, CInv, NEW w \in Attempt, FinishBuild(w)
  PROVE  CInv' /\ Unasked
<1> DEFINE
      k == att[w].campaign
      targets == att[w].targets
      closure == ClosureOf(att[w].targets)
      complete == {d \in closure : Satisfied(d, DOMAIN Outputs[d], store)}
      failures == IF att[w].reason \in {"build-error", "unsupported"}
                  THEN att[w].broken ELSE {}
      gained == Claimed(w, complete)
      lost == (closure \cap failures) \ complete
      av == (available \cup gained) \ lost
      fl == Failures(gained, lost)
      drained == [c \in Candidate |->
        IF /\ CampaignOf[c] = k /\ cand[c].drv \in targets
           /\ cand[c].state = "running"
        THEN [cand[c] EXCEPT !.state = "queued"] ELSE cand[c]]
      fresh == Refreshed(k, drained, av, fl, exclusion)
      error == IF att[w].reason = "cancelled" THEN "cancelled" ELSE "other"
      verdict == Rewritten(k, fresh, targets, {"queued"}, "inconclusive", error)
      rejected == /\ att[w].location = "remote"
                  /\ att[w].reason = "unsupported" /\ failures = {}
      again == Rewritten(k, verdict, targets, {"inconclusive"}, "queued", "none")
<1>1. /\ w \in Builds
      /\ cand' = IF rejected THEN again ELSE verdict
      /\ \A a \in Attempt \ {w} : att'[a] = att[a]
      /\ att'[w].state = "finished"
      /\ UNCHANGED <<replans, exclusion>>
  BY DEF FinishBuild, IInv, TypeOK, AttemptRow
<1> HIDE DEF closure, complete, failures, gained, lost, av, fl, rejected
<1>2. /\ w \in Active /\ k \in CampaignId /\ exclusion \in SUBSET Drv
      /\ cand \in [Candidate -> CandidateRow]
      /\ \A c \in Candidate : cand[c] \in CandidateRow
      /\ targets \subseteq ActiveRoots(k)
  BY <1>1 DEF IInv, TypeOK, Builds, Together, ActiveRoots
<1>3. /\ Builds' = Builds \ {w} /\ Plans' = Plans
      /\ RootsApart' /\ PlannersOwn'
      /\ \A a \in Active \ {w} : att'[a] = att[a]
  <2>1. w \notin Plans
    BY <1>1 DEF Builds, Plans
  <2>2. /\ Builds' = Builds \ {w} /\ Plans' = Plans \ {w}
        /\ RootsApart' /\ PlannersOwn'
        /\ \A a \in Active \ {w} : att'[a] = att[a]
    BY <1>1, <1>2, EndOne
  <2> QED BY <2>1, <2>2
<1>4. \A j : ActiveRoots(j)' = IF j = k THEN ActiveRoots(j) \ targets ELSE ActiveRoots(j)
  <2>1. \A a \in Builds \ {w} : att'[a] = att[a] /\ att[a].targets \cap targets = {}
    BY <1>1, <1>3 DEF Builds, CInv, RootsApart
  <2> QED BY <1>1, <1>3, <2>1 DEF ActiveRoots
<1>5. ASSUME NEW c \in Candidate
      PROVE  /\ drained[c] \in CandidateRow
             /\ drained[c].drv = cand[c].drv
             /\ CampaignOf[c] # k \/ cand[c].drv \notin targets => drained[c] = cand[c]
             /\ CampaignOf[c] = k /\ cand[c].drv \in targets =>
                  \/ drained[c].state = "queued"
                  \/ cand[c].state = "excluded" /\ cand[c].drv \in exclusion
  <2>1. CampaignOf[c] = k /\ cand[c].drv \in targets =>
          cand[c].state = "running" \/ (cand[c].state = "excluded" /\ cand[c].drv \in exclusion)
    BY <1>2 DEF CInv, Owned, OwnedRow
  <2> QED BY <1>2, <2>1 DEF CandidateRow, State
<1>6. drained \in [Candidate -> CandidateRow]
  BY <1>5
<1> HIDE DEF k, targets, drained
<1>7. ASSUME NEW c \in Candidate
      PROVE  /\ fresh[c] \in CandidateRow
             /\ fresh[c].drv = cand[c].drv
             /\ CampaignOf[c] # k => fresh[c] = drained[c]
             /\ fresh[c].state = "running" => drained[c].state = "running"
             /\ drained[c].state = "running" /\ fresh[c].state # "running" =>
                  fresh[c].state = "excluded" /\ cand[c].drv \in exclusion
  BY <1>2, <1>5, <1>6, RefreshedRow
<1>8. ASSUME NEW c \in Candidate
      PROVE  CampaignOf[c] = k =>
             /\ cand[c].drv \in exclusion =>
                  fresh[c].state = "excluded" /\ fresh[c].error = "scope"
             /\ cand[c].drv \notin exclusion /\ drained[c].state \in Kept =>
                  fresh[c] = drained[c]
             /\ fresh[c].state = "excluded" =>
                  \/ fresh[c].drv \in exclusion \/ fresh[c].error = "inherited"
                  \/ drained[c].state = "excluded" /\ fresh[c] = drained[c]
  BY <1>2, <1>5, <1>6, RefreshedCases
<1>9. \A b, c \in Candidate :
        /\ Alias(drained, b, c) /\ CampaignOf[c] = k
        /\ \/ drained[b].drv \in exclusion
           \/ drained[b].state \notin Kept /\ drained[c].state \notin Kept
           \/ Agree(drained[b], drained[c])
        => Agree(fresh[b], fresh[c])
  BY <1>2, <1>6, RefreshedAgree
<1>10. fresh \in [Candidate -> CandidateRow]
  BY <1>7 DEF Refreshed
<1> HIDE DEF fresh
<1>11. \A b, c \in Candidate : Alias(cand, b, c) => Agree(fresh[b], fresh[c])
  <2> SUFFICES ASSUME NEW b \in Candidate, NEW c \in Candidate, Alias(cand, b, c)
               PROVE  Agree(fresh[b], fresh[c])
    OBVIOUS
  <2>1. Agree(cand[b], cand[c]) /\ Alias(drained, b, c)
    BY <1>5 DEF CInv, RowsAgree, Alias
  <2>2. CASE CampaignOf[c] # k
    BY <1>5, <1>7, <2>1, <2>2 DEF Alias
  <2>3. CASE CampaignOf[c] = k /\ cand[c].drv \in targets
    BY <1>5, <1>9, <2>1, <2>3 DEF Alias, Kept
  <2>4. CASE CampaignOf[c] = k /\ cand[c].drv \notin targets
    BY <1>5, <1>9, <2>1, <2>4 DEF Alias
  <2> QED BY <2>2, <2>3, <2>4
<1>12. error \in Error /\ "inconclusive" \in State /\ "queued" \in State /\ "none" \in Error
  BY DEF Error, State
<1> HIDE DEF error
<1>13. ASSUME NEW c \in Candidate
       PROVE  /\ verdict[c] \in CandidateRow /\ again[c] \in CandidateRow
              /\ verdict[c].drv = cand[c].drv /\ again[c].drv = cand[c].drv
              /\ \/ verdict[c] = fresh[c] /\ again[c] = fresh[c]
                 \/ /\ CampaignOf[c] = k /\ cand[c].drv \in targets
                    /\ fresh[c].state \in {"queued", "inconclusive"}
                    /\ verdict[c].state = "inconclusive"
                    /\ again[c].state \in {"queued", "inconclusive"}
  <2>1. fresh[c] \in CandidateRow /\ fresh[c].drv = cand[c].drv
    BY <1>7
  <2>2. verdict[c] = IF CampaignOf[c] = k /\ fresh[c].drv \in targets
                          /\ fresh[c].state \in {"queued"}
                     THEN [fresh[c] EXCEPT !.state = "inconclusive", !.error = error]
                     ELSE fresh[c]
    BY DEF Rewritten
  <2>3. again[c] = IF CampaignOf[c] = k /\ verdict[c].drv \in targets
                        /\ verdict[c].state \in {"inconclusive"}
                   THEN [verdict[c] EXCEPT !.state = "queued", !.error = "none"]
                   ELSE verdict[c]
    BY DEF Rewritten
  <2> HIDE DEF verdict, again
  <2>4. verdict[c] \in CandidateRow
    BY <1>12, <2>1, <2>2 DEF CandidateRow
  <2>5. again[c] \in CandidateRow
    BY <1>12, <2>3, <2>4 DEF CandidateRow
  <2>6. verdict[c].drv = cand[c].drv /\ again[c].drv = cand[c].drv
    BY <2>1, <2>2, <2>3, <2>4 DEF CandidateRow
  <2>7. \/ verdict[c] = fresh[c]
        \/ /\ CampaignOf[c] = k /\ cand[c].drv \in targets
           /\ fresh[c].state = "queued" /\ verdict[c].state = "inconclusive"
    BY <2>1, <2>2 DEF CandidateRow
  <2>8. \/ again[c] = verdict[c]
        \/ /\ CampaignOf[c] = k /\ cand[c].drv \in targets
           /\ verdict[c].state = "inconclusive" /\ again[c].state = "queued"
    BY <2>3, <2>4, <2>6 DEF CandidateRow
  <2> QED BY <2>4, <2>5, <2>6, <2>7, <2>8
<1>14. verdict \in [Candidate -> CandidateRow]
  BY <1>13 DEF Rewritten
<1>15. \A b, c \in Candidate : Alias(cand, b, c) =>
         Agree(verdict[b], verdict[c])
  <2> SUFFICES ASSUME NEW b \in Candidate, NEW c \in Candidate, Alias(cand, b, c)
               PROVE  Agree(verdict[b], verdict[c])
    OBVIOUS
  <2>1. Alias(fresh, b, c) /\ Agree(fresh[b], fresh[c])
    BY <1>7, <1>11 DEF Alias
  <2> DEFINE from == {"queued"}
             to == "inconclusive"
  <2>2. "excluded" \notin from /\ to \in State
    BY <1>12
  <2>3. verdict = Rewritten(k, fresh, targets, from, to, error)
    OBVIOUS
  <2> HIDE DEF from, to, verdict
  <2> QED BY <1>10, <1>12, <2>1, <2>2, <2>3, RewrittenAgree
<1>16. \A b, c \in Candidate : Alias(cand, b, c) => Agree(again[b], again[c])
  <2> SUFFICES ASSUME NEW b \in Candidate, NEW c \in Candidate, Alias(cand, b, c)
               PROVE  Agree(again[b], again[c])
    OBVIOUS
  <2>1. Alias(verdict, b, c) /\ Agree(verdict[b], verdict[c])
    BY <1>13, <1>15 DEF Alias
  <2> DEFINE from == {"inconclusive"}
             to == "queued"
             none == "none"
  <2>2. "excluded" \notin from /\ to \in State /\ none \in Error
    BY <1>12
  <2>3. again = Rewritten(k, verdict, targets, from, to, none)
    OBVIOUS
  <2> HIDE DEF from, to, none, verdict, again
  <2> QED BY <1>14, <2>1, <2>2, <2>3, RewrittenAgree
<1> HIDE DEF verdict, again
<1>17. ASSUME NEW c \in Candidate
       PROVE  /\ cand'[c] \in CandidateRow /\ cand'[c].drv = cand[c].drv
              /\ \/ cand'[c] = fresh[c]
                 \/ /\ CampaignOf[c] = k /\ cand[c].drv \in targets
                    /\ fresh[c].state \in {"queued", "inconclusive"}
                    /\ cand'[c].state \in {"queued", "inconclusive"}
  BY <1>1, <1>13
<1>18. RowsAgree'
  <2> SUFFICES ASSUME NEW b \in Candidate, NEW c \in Candidate, Alias(cand', b, c)
               PROVE  Agree(cand'[b], cand'[c])
    BY DEF RowsAgree, Alias
  <2>1. Alias(cand, b, c)
    BY <1>17 DEF Alias
  <2> QED BY <1>1, <1>15, <1>16, <2>1
<1>19. Owned'
  <2> SUFFICES ASSUME NEW c \in Candidate
               PROVE  OwnedRow(cand'[c], exclusion, ActiveRoots(CampaignOf[c])')
    BY <1>1 DEF Owned
  <2>1. OwnedRow(cand[c], exclusion, ActiveRoots(CampaignOf[c]))
    BY DEF CInv, Owned
  <2>2. CASE CampaignOf[c] # k
    BY <1>4, <1>5, <1>7, <1>17, <2>1, <2>2 DEF OwnedRow
  <2>3. CASE CampaignOf[c] = k /\ cand[c].drv \in targets
    <3>1. cand[c].drv \notin ActiveRoots(CampaignOf[c])'
      BY <1>4, <2>3
    <3>2. fresh[c].state # "running"
      BY <1>5, <1>7, <1>8, <2>3
    <3> QED BY <1>17, <3>1, <3>2 DEF OwnedRow
  <2>4. CASE CampaignOf[c] = k /\ cand[c].drv \notin targets
    <3>1. cand'[c] = fresh[c] /\ drained[c] = cand[c]
      BY <1>5, <1>17, <2>4
    <3>2. cand[c].drv \in ActiveRoots(CampaignOf[c])' <=> cand[c].drv \in ActiveRoots(k)
      BY <1>4, <2>4
    <3> QED BY <1>7, <1>8, <2>1, <2>4, <3>1, <3>2 DEF OwnedRow
  <2> QED BY <2>2, <2>3, <2>4
<1>20. ExcludedWhy'
  <2> SUFFICES ASSUME NEW c \in Candidate PROVE ExcludedFor(cand'[c], exclusion)
    BY <1>1 DEF ExcludedWhy, ExcludedFor
  <2>1. ExcludedFor(cand[c], exclusion)
    BY DEF CInv, ExcludedWhy
  <2>2. CASE CampaignOf[c] # k
    BY <1>5, <1>7, <1>17, <2>1, <2>2 DEF ExcludedFor
  <2>3. CASE CampaignOf[c] = k
    <3>1. drained[c].state = "excluded" =>
            \/ drained[c].error = cand[c].error /\ cand[c].state = "excluded"
            \/ cand[c].drv \in exclusion
      BY <1>5, <2>3
    <3> QED BY <1>5, <1>8, <1>17, <2>1, <2>3, <3>1 DEF ExcludedFor
  <2> QED BY <2>2, <2>3
<1>21. PlanningDetached'
  <2>1. \A a \in Plans : att'[a].ids = att[a].ids /\ att[a].ids \subseteq Candidate
    <3>1. w \notin Plans
      BY <1>1 DEF Builds, Plans
    <3> QED BY <1>1, <3>1 DEF Plans, Active, CInv, PlannersOwn, Members
  <2> QED BY <1>1, <1>3, <1>17, <2>1 DEF CInv, PlanningDetached
<1>22. ASSUME NEW c \in Candidate
       PROVE  RecipeKept(c) /\ StillHeld(c) /\ StillOut(c)
  <2>1. RecipeKept(c)
    BY <1>17 DEF RecipeKept
  <2>2. StillHeld(c)
    <3> SUFFICES ASSUME cand[c].state = "inconclusive"
                 PROVE  cand'[c].state \in {"inconclusive", "excluded"}
      BY DEF StillHeld
    <3>1. CampaignOf[c] # k \/ cand[c].drv \notin targets
      BY <1>2 DEF CInv, Owned, OwnedRow
    <3>2. drained[c] = cand[c] /\ cand'[c] = fresh[c]
      BY <1>5, <1>17, <3>1
    <3> QED BY <1>7, <1>8, <3>2 DEF Kept
  <2>3. StillOut(c)
    <3> SUFFICES ASSUME cand[c].state = "excluded", cand[c].error = "scope",
                        cand[c].drv # NoDrv,
                        cand[c].drv \notin ActiveRoots(CampaignOf[c])
                 PROVE  cand'[c] = cand[c]
      BY DEF StillOut
    <3>1. CampaignOf[c] # k \/ cand[c].drv \notin targets
      BY <1>2
    <3>2. drained[c] = cand[c] /\ cand'[c] = fresh[c]
      BY <1>5, <1>17, <3>1
    <3>3. cand[c].drv \in exclusion
      BY DEF CInv, ExcludedWhy, ExcludedFor
    <3> QED BY <1>2, <1>7, <1>8, <3>2, <3>3, SameRow
  <2> QED BY <2>1, <2>2, <2>3
<1> QED BY <1>3, <1>18, <1>19, <1>20, <1>21, <1>22 DEF CInv, Unasked

-----------------------------------------------------------------------------
(* Every step.                                                             *)

\* A step of a worker is none of the candidates' business.
LEMMA WorkerStep ==
  ASSUME IInv, CInv, NEW w \in Attempt, Worker(w)
  PROVE  CInv' /\ Unasked
<1>1. UNCHANGED <<cand, exclusion, replans>>
  BY DEF Worker, PlanEnd, BuildBegin, Realize, Break, Substitute, BuildEnd, graphVars
<1>2. att \in [Attempt -> AttemptRow] /\ att[w] \in AttemptRow
  BY DEF IInv, TypeOK
<1>3. AttemptsGoOn
  <2> USE <1>2
  <2>1. ASSUME NEW rows \in SUBSET att[w].ids, PlanEnd(w, rows) PROVE AttemptsGoOn
    BY <2>1 DEF PlanEnd, AttemptsGoOn, AttemptRow
  <2>2. ASSUME BuildBegin(w) PROVE AttemptsGoOn
    BY <2>2 DEF BuildBegin, AttemptsGoOn, AttemptRow
  <2>3. ASSUME NEW d \in Drv, Realize(w, d) PROVE AttemptsGoOn
    BY <2>3 DEF Realize, AttemptsGoOn, AttemptRow
  <2>4. ASSUME NEW d \in Drv, Break(w, d) PROVE AttemptsGoOn
    BY <2>4 DEF Break, AttemptsGoOn, AttemptRow
  <2>5. ASSUME NEW d \in Drv, Substitute(w, d) PROVE AttemptsGoOn
    BY <2>5 DEF Substitute, AttemptsGoOn
  <2>6. ASSUME BuildEnd(w) PROVE AttemptsGoOn
    BY <2>6 DEF BuildEnd, AttemptsGoOn, AttemptRow
  <2> QED BY <2>1, <2>2, <2>3, <2>4, <2>5, <2>6 DEF Worker
<1>4. \A a \in Plans : \A c \in att[a].ids : c \notin replans'
  BY <1>1 DEF CInv, PlanningDetached
<1> QED BY <1>1, <1>3, <1>4, QuietStep

\* Nor is a step that only drops requests or moves the controller.
LEMMA StillStep ==
  ASSUME CInv, UNCHANGED <<cand, exclusion, att>>, replans' \subseteq replans
  PROVE  CInv' /\ Unasked
<1>1. AttemptsGoOn
  BY DEF AttemptsGoOn
<1>2. \A a \in Plans : \A c \in att[a].ids : c \notin replans'
  BY DEF CInv, PlanningDetached
<1> QED BY <1>1, <1>2, QuietStep

\* What admission lists may be built.
LEMMA AdmitStep ==
  ASSUME IInv, CInv, NEW k \in CampaignId, Admit(k)
  PROVE  CInv' /\ Unasked
<1>1. ASSUME AdmitBatch(k) PROVE CInv' /\ Unasked
  <2> DEFINE targets == BatchTargets(k)
  <2>1. \A t \in targets : t \in Listed(k)
    BY DEF BatchTargets, First
  <2>2. targets \in SUBSET known
    BY <2>1, ListedQueued
  <2>3. \A t \in targets : \E c \in Members(k) :
          cand[c].drv = t /\ cand[c].state \in {"queued", "available"}
    BY <2>1, ListedQueued
  <2>4. /\ \A a \in Active : att[a].campaign = k
        /\ UNCHANGED exclusion
    BY <1>1 DEF AdmitBatch, MayAdmit, graphVars
  <2> HIDE DEF targets
  <2>5. CASE Raise
    BY <2>4, <2>5, StillStep DEF Raise
  <2>6. ASSUME NEW w \in Attempt, OpenBuild(w, k, targets, "any", Observed(k)),
               InScope(targets)
        PROVE  CInv' /\ Unasked
    BY <2>2, <2>3, <2>4, <2>6, OpenBuildStep
  <2> QED BY <1>1, <2>5, <2>6 DEF AdmitBatch, targets
<1>2. ASSUME AdmitRolling(k) \/ AdmitNoBuild(k) PROVE CInv' /\ Unasked
  BY <1>2, StillStep DEF AdmitRolling, AdmitNoBuild, graphVars
<1> QED BY <1>1, <1>2 DEF Admit

\* A tick builds what is still queued and plans what may be planned.
LEMMA TickStep ==
  ASSUME IInv, CInv, Tick
  PROVE  CInv' /\ Unasked
<1> DEFINE k == ctl.campaign
<1>1. ASSUME ctl.pc \in {"rolling", "skip", "plan"}
      PROVE  k \in CampaignId /\ \A a \in Active : att[a].campaign = k
  BY <1>1 DEF IInv, Turn
<1>2. ASSUME RollingBuild PROVE CInv' /\ Unasked
  <2>1. /\ UNCHANGED exclusion
        /\ k \in CampaignId /\ \A a \in Active : att[a].campaign = k
    BY <1>1, <1>2 DEF RollingBuild, graphVars
  <2>2. PICK d \in First(k, 1, Admissible) :
          \/ /\ InScope({d})
             /\ \E w \in Attempt, location \in Locations(k, d, ctl.avail) :
                  OpenBuild(w, k, {d}, location, ctl.avail)
          \/ Raise
    BY <1>2 DEF RollingBuild
  <2>3. d \in ctl.list
    BY <2>2 DEF First, Admissible
  <2>4. PICK c \in Members(k) : cand[c].drv = d /\ cand[c].state = "queued"
    BY <2>3 DEF IInv, Turn
  <2>5. CASE Raise
    BY <2>1, <2>5, StillStep DEF Raise
  <2>6. ASSUME NEW w \in Attempt, NEW location \in Locations(k, d, ctl.avail),
               OpenBuild(w, k, {d}, location, ctl.avail), InScope({d})
        PROVE  CInv' /\ Unasked
    <3> DEFINE targets == {d}
    <3>1. targets \in SUBSET known
      BY <2>4 DEF IInv, Shapes, Sound, Members, TypeOK
    <3>2. \A t \in targets : \E b \in Members(k) :
            cand[b].drv = t /\ cand[b].state \in {"queued", "available"}
      BY <2>4
    <3>3. OpenBuild(w, k, targets, location, ctl.avail) /\ InScope(targets)
      BY <2>6
    <3> HIDE DEF targets, k
    <3> QED BY <2>1, <3>1, <3>2, <3>3, OpenBuildStep
  <2> QED BY <2>2, <2>5, <2>6
<1>3. ASSUME RollingEnd \/ AdmitSkip PROVE CInv' /\ Unasked
  <2>1. UNCHANGED <<cand, exclusion, att>> /\ replans' \subseteq replans
    BY <1>3 DEF RollingEnd, AdmitSkip, graphVars
  <2> QED BY <2>1, StillStep
<1>4. ASSUME AdmitPlan PROVE CInv' /\ Unasked
  <2>1. UNCHANGED exclusion /\ k \in CampaignId /\ Plans = {}
    BY <1>1, <1>4 DEF AdmitPlan, graphVars, IInv, Turn
  <2>2. \/ \E ids \in SUBSET Candidate, p \in Attempt :
             /\ \A c \in ids : PlanAllowed(k, c, "fix")
             /\ OpenPlan(p, k, ids, "fix")
        \/ \E ids \in SUBSET Candidate, p \in Attempt :
             /\ \A c \in ids : cand[c].state = "unplanned" /\ CampaignOf[c] = k
             /\ OpenPlan(p, k, ids, "base")
        \/ UNCHANGED <<cand, replans, att>>
    BY <1>4 DEF AdmitPlan, Members, Raise
  <2>3. CASE UNCHANGED <<cand, replans, att>>
    BY <2>1, <2>3, StillStep
  <2> DEFINE fix == "fix"
             base == "base"
  <2>4. ASSUME NEW ids \in SUBSET Candidate, NEW p \in Attempt,
               \A c \in ids : PlanAllowed(k, c, fix), OpenPlan(p, k, ids, fix)
        PROVE  CInv' /\ Unasked
    <3>1. fix \in {"base", "fix"}
      OBVIOUS
    <3> HIDE DEF k, fix
    <3> QED BY <2>1, <2>4, <3>1, OpenPlanStep
  <2>5. ASSUME NEW ids \in SUBSET Candidate, NEW p \in Attempt,
               \A c \in ids : cand[c].state = "unplanned" /\ CampaignOf[c] = k,
               OpenPlan(p, k, ids, base)
        PROVE  CInv' /\ Unasked
    <3>1. base \in {"base", "fix"} /\ base = "base"
      OBVIOUS
    <3> HIDE DEF k, base
    <3> QED BY <2>1, <2>5, <3>1, OpenPlanStep
  <2> QED BY <2>2, <2>3, <2>4, <2>5
<1> QED BY <1>2, <1>3, <1>4 DEF Tick

\* What takes a candidate out of the inconclusive state: its retry, or the
\* exclusion of what its build was cancelled for.
Asked(c) ==
  \/ \E k \in CampaignId, ids \in SUBSET Candidate : Retry(k, ids)
  \/ /\ cand[c].error = "cancelled"
     /\ \E k \in CampaignId, a \in Attempt : ExcludeKernels(k, {a})
OnlyAsked ==
  \A c \in Candidate : /\ RecipeKept(c) /\ StillOut(c)
                       /\ StillHeld(c) \/ Asked(c)

\* exclude-kernels requeues the collateral of a cancelled build, aliases included.
LEMMA ExcludeKernelsStep ==
  ASSUME IInv, CInv, NEW k \in CampaignId,
         NEW cancelled \in {{}} \cup {{a} : a \in Attempt},
         ExcludeKernels(k, cancelled)
  PROVE  CInv' /\ OnlyAsked
<1> DEFINE
      selected == Kernels \cap Members(k)
      excluded == exclusion
        \cup (known \cap KernelDrv \cap OutOfScope)
        \cup ({cand[c].drv : c \in selected} \ {NoDrv})
      marked == [c \in Candidate |->
        IF c \in selected
        THEN [cand[c] EXCEPT !.state = "excluded", !.error = "scope"]
        ELSE cand[c]]
      requeued == [c \in Candidate |->
        IF c \notin selected /\ \E a \in cancelled : Collateral(k, a, c)
        THEN [marked[c] EXCEPT !.state = "queued", !.error = "none"]
        ELSE marked[c]]
<1>1. /\ exclusion' = excluded
      /\ cand' = Refreshed(k, requeued, available, failure, excluded)
      /\ att' = [a \in Attempt |->
           IF a \in cancelled THEN [att[a] EXCEPT !.reason = "excluded"] ELSE att[a]]
      /\ UNCHANGED replans
  BY DEF ExcludeKernels
<1>2. /\ att \in [Attempt -> AttemptRow] /\ cand \in [Candidate -> CandidateRow]
      /\ exclusion \subseteq known /\ known \subseteq Drv /\ Sound(cand, known)
      /\ \A c \in Candidate : cand[c] \in CandidateRow
  BY DEF IInv, TypeOK, Shapes
<1>3. selected \subseteq Members(k) /\ Members(k) \subseteq Candidate
  BY DEF Members
<1>4. excluded \in SUBSET Drv /\ exclusion \subseteq excluded
  BY <1>2, <1>3 DEF Sound
<1>5. \A c \in selected : cand[c].drv = NoDrv \/ cand[c].drv \in excluded
  OBVIOUS
<1>6. AttemptsGoOn
  <2>1. \A a \in Attempt : /\ att'[a].state = att[a].state
                           /\ att'[a].kind = att[a].kind
                           /\ att'[a].campaign = att[a].campaign
                           /\ att'[a].targets = att[a].targets
                           /\ att'[a].ids = att[a].ids
                           /\ att'[a].rows = att[a].rows
    <3> SUFFICES ASSUME NEW a \in Attempt
                 PROVE  /\ att'[a].state = att[a].state
                        /\ att'[a].kind = att[a].kind
                        /\ att'[a].campaign = att[a].campaign
                        /\ att'[a].targets = att[a].targets
                        /\ att'[a].ids = att[a].ids
                        /\ att'[a].rows = att[a].rows
      OBVIOUS
    <3>1. att[a] \in AttemptRow
      BY <1>2
    <3>2. att'[a] = [att[a] EXCEPT !.reason = "excluded"] \/ att'[a] = att[a]
      BY <1>1
    <3> QED BY <3>1, <3>2 DEF AttemptRow
  <2> QED BY <2>1 DEF AttemptsGoOn
<1> HIDE DEF excluded
<1> DEFINE hit(c) == \E a \in cancelled : Collateral(k, a, c)
<1>7. ASSUME NEW c \in Candidate
      PROVE  /\ c \in selected =>
                  requeued[c] = [cand[c] EXCEPT !.state = "excluded", !.error = "scope"]
             /\ c \notin selected /\ hit(c) =>
                  requeued[c] = [cand[c] EXCEPT !.state = "queued", !.error = "none"]
             /\ c \notin selected /\ ~hit(c) => requeued[c] = cand[c]
  OBVIOUS
<1> HIDE DEF requeued
<1>8. ASSUME NEW c \in Candidate, \E a \in cancelled : Collateral(k, a, c)
      PROVE  /\ CampaignOf[c] = k /\ cand[c].state = "inconclusive"
             /\ cand[c].error = "cancelled" /\ cand[c].drv \notin ActiveRoots(k)
  BY <1>8 DEF Collateral, CInv, Owned, OwnedRow
<1>9. ASSUME NEW c \in Candidate
      PROVE  /\ requeued[c] \in CandidateRow
             /\ requeued[c].drv = cand[c].drv
             /\ c \in selected => requeued[c].state = "excluded"
             /\ c \notin selected /\ hit(c) => requeued[c].state = "queued"
             /\ c \notin selected /\ ~hit(c) => requeued[c] = cand[c]
  <2> HIDE DEF hit, selected
  <2>1. CASE c \in selected
    <3>1. requeued[c] = [cand[c] EXCEPT !.state = "excluded", !.error = "scope"]
      BY <1>7, <2>1
    <3> QED BY <1>2, <2>1, <3>1 DEF CandidateRow, State, Error
  <2>2. CASE c \notin selected /\ hit(c)
    <3>1. requeued[c] = [cand[c] EXCEPT !.state = "queued", !.error = "none"]
      BY <1>7, <2>2
    <3> QED BY <1>2, <2>2, <3>1 DEF CandidateRow, State, Error
  <2>3. CASE c \notin selected /\ ~hit(c)
    BY <1>2, <1>7, <2>3
  <2> QED BY <2>1, <2>2, <2>3
<1>10. requeued \in [Candidate -> CandidateRow]
  <2>1. requeued = [c \in Candidate |-> requeued[c]]
    BY DEF requeued
  <2> QED BY <1>9, <2>1
<1>11. \A c \in Candidate :
         /\ requeued[c].drv = cand[c].drv
         /\ CampaignOf[c] # k => requeued[c] = cand[c]
         /\ \/ requeued[c] = cand[c]
            \/ requeued[c].drv \in excluded
            \/ requeued[c].drv = NoDrv /\ requeued[c].state = "excluded"
            \/ requeued[c].state = "queued" /\ cand[c].drv \notin ActiveRoots(k)
  BY <1>3, <1>5, <1>8, <1>9 DEF Members
<1>12. ASSUME NEW b \in Candidate, NEW c \in Candidate, Alias(cand, b, c), CampaignOf[c] = k
       PROVE  \/ cand[b].drv \in excluded
              \/ requeued[b].state \notin Kept /\ requeued[c].state \notin Kept
              \/ Agree(requeued[b], requeued[c])
  <2>1. Agree(cand[b], cand[c]) /\ CampaignOf[b] = k /\ cand[b].drv = cand[c].drv
        /\ cand[b].drv # NoDrv
    BY <1>12 DEF CInv, RowsAgree, Alias
  <2>2. CASE b \in selected \/ c \in selected
    BY <1>5, <2>1, <2>2
  <2>3. CASE b \notin selected /\ c \notin selected
    <3>1. CASE requeued[b] = cand[b] /\ requeued[c] = cand[c]
      BY <2>1, <3>1
    <3>2. CASE \E a \in cancelled : Collateral(k, a, b)
      <4>1. cand[b].state = "inconclusive" /\ cand[b].error = "cancelled"
        BY <1>8, <3>2
      <4>2. CASE cand[c].state = "excluded" /\ cand[c].error = "inherited"
        <5>1. ~\E a \in cancelled : Collateral(k, a, c)
          BY <4>2 DEF Collateral
        <5> QED BY <1>9, <2>3, <4>2, <5>1 DEF Agree
      <4>3. CASE cand[c].state = "inconclusive" /\ cand[c].error = "cancelled"
        <5>1. \E a \in cancelled : Collateral(k, a, c)
          BY <1>12, <2>1, <3>2, <4>3 DEF Collateral
        <5> QED BY <1>9, <2>3, <3>2, <5>1 DEF Kept
      <4> QED BY <2>1, <4>1, <4>2, <4>3 DEF Agree
    <3>3. CASE \E a \in cancelled : Collateral(k, a, c)
      <4>1. cand[c].state = "inconclusive" /\ cand[c].error = "cancelled"
        BY <1>8, <3>3
      <4>2. CASE cand[b].state = "excluded" /\ cand[b].error = "inherited"
        <5>1. ~\E a \in cancelled : Collateral(k, a, b)
          BY <4>2 DEF Collateral
        <5> QED BY <1>9, <2>3, <4>2, <5>1 DEF Agree
      <4>3. CASE cand[b].state = "inconclusive" /\ cand[b].error = "cancelled"
        <5>1. \E a \in cancelled : Collateral(k, a, b)
          BY <1>12, <2>1, <3>3, <4>3 DEF Collateral
        <5> QED BY <1>9, <2>3, <3>3, <5>1 DEF Kept
      <4> QED BY <2>1, <4>1, <4>2, <4>3 DEF Agree
    <3> QED BY <1>9, <2>3, <3>1, <3>2, <3>3
  <2> QED BY <2>2, <2>3
<1> DEFINE av == available
           fl == failure
<1>13. cand' = Refreshed(k, requeued, av, fl, excluded)
  BY <1>1
<1> HIDE DEF selected, av, fl
<1>14. /\ CInv'
       /\ \A c \in Candidate : RecipeKept(c) /\ StillOut(c)
       /\ \A c \in Candidate : requeued[c] = cand[c] => StillHeld(c)
  BY <1>1, <1>4, <1>6, <1>10, <1>11, <1>12, <1>13, TableStep
<1>15. ASSUME NEW c \in Candidate PROVE StillHeld(c) \/ Asked(c)
  <2>1. CASE \E a \in cancelled : Collateral(k, a, c)
    <3>1. PICK a \in Attempt : cancelled = {a}
      BY <2>1
    <3>2. cand[c].error = "cancelled"
      BY <1>8, <2>1
    <3> QED BY <3>1, <3>2 DEF Asked
  <2>2. CASE c \in selected
    <3>1. CampaignOf[c] = k
      BY <1>3, <2>2 DEF Members
    <3>2. cand'[c].drv = cand[c].drv
      BY <1>4, <1>9, <1>10, <1>13, RefreshedRow
    <3>3. requeued[c].drv \in excluded => cand'[c].state = "excluded"
      BY <1>4, <1>10, <1>13, <3>1, RefreshedRow
    <3> QED BY <1>5, <1>9, <2>2, <3>2, <3>3 DEF StillHeld
  <2>3. CASE requeued[c] = cand[c]
    BY <1>14, <2>3
  <2> QED BY <1>9, <2>1, <2>2, <2>3
<1> QED BY <1>14, <1>15 DEF OnlyAsked

\* The other commands.
LEMMA OperatorStep ==
  ASSUME IInv, CInv, NEW k \in CampaignId, Operator(k)
  PROVE  CInv' /\ OnlyAsked
<1>1. ASSUME Unasked PROVE OnlyAsked
  BY <1>1 DEF Unasked, OnlyAsked
<1>2. /\ cand \in [Candidate -> CandidateRow] /\ exclusion \in SUBSET Drv
      /\ \A c \in Candidate : cand[c] \in CandidateRow
  BY DEF IInv, TypeOK
<1>3. ASSUME NEW ids \in SUBSET Candidate, NEW revision \in {"base", "fix"},
             Plan(k, ids, revision)
      PROVE  CInv' /\ OnlyAsked
  <2>1. /\ UNCHANGED exclusion /\ Plans = {}
        /\ \A c \in ids : PlanAllowed(k, c, revision)
        /\ \E p \in Attempt : OpenPlan(p, k, ids, revision)
    BY <1>3 DEF Plan, MayIntend, graphVars
  <2> QED BY <1>1, <2>1, OpenPlanStep
<1>4. ASSUME NEW ids \in SUBSET Candidate, QueueReplan(k, ids) PROVE CInv' /\ OnlyAsked
  <2>1. /\ UNCHANGED <<cand, exclusion, att>> /\ replans' = replans \cup ids
        /\ \A c \in ids : \A a \in Plans : c \notin att[a].ids
    BY <1>4 DEF QueueReplan, graphVars
  <2>2. AttemptsGoOn
    BY <2>1 DEF AttemptsGoOn
  <2>3. \A a \in Plans : \A c \in att[a].ids : c \notin replans'
    BY <2>1 DEF CInv, PlanningDetached
  <2> QED BY <1>1, <2>1, <2>2, <2>3, QuietStep
<1>5. ASSUME NEW ids \in SUBSET Candidate, BuildOnce(k, ids) PROVE CInv' /\ OnlyAsked
  <2> DEFINE targets == {cand[c].drv : c \in ids}
             location == IF policy[k].rolling THEN "local" ELSE "any"
             admitted == IF policy[k].rolling \/ policy[k].lanes > 1 \/ Builds # {}
                         THEN Seen({}) ELSE {}
  <2>1. /\ UNCHANGED exclusion /\ \A a \in Active : att[a].campaign = k
        /\ \A c \in ids : /\ CampaignOf[c] = k /\ cand[c].drv # NoDrv
                          /\ cand[c].state \in {"queued", "available"}
        /\ InScope(targets)
        /\ \E w \in Attempt : OpenBuild(w, k, targets, location, admitted)
    BY <1>5 DEF BuildOnce, MayIntend, graphVars
  <2>2. targets \in SUBSET known
    BY <2>1 DEF IInv, Shapes, Sound
  <2>3. \A t \in targets : \E c \in Members(k) :
          cand[c].drv = t /\ cand[c].state \in {"queued", "available"}
    BY <2>1 DEF Members
  <2> HIDE DEF targets, location, admitted
  <2> QED BY <1>1, <2>1, <2>2, <2>3, OpenBuildStep
<1>6. ASSUME NEW ids \in SUBSET Candidate, Retry(k, ids) PROVE CInv' /\ OnlyAsked
  <2> DEFINE ds == {cand[c].drv : c \in ids}
             requeued == [c \in Candidate |->
               IF CampaignOf[c] = k /\ cand[c].drv \in ds
               THEN [cand[c] EXCEPT !.state = "queued", !.error = "none"] ELSE cand[c]]
             av == available
             fl == failure \ ds
  <2>1. /\ ids \subseteq Members(k)
        /\ \A c \in ids : cand[c].state \notin {"running", "excluded"}
        /\ cand' = Refreshed(k, requeued, av, fl, exclusion)
        /\ UNCHANGED <<replans, exclusion, att>>
    BY <1>6 DEF Retry
  <2>2. ds \cap ActiveRoots(k) = {}
    BY <2>1 DEF CInv, Owned, OwnedRow, Members
  <2> HIDE DEF ds
  <2>3. ASSUME NEW c \in Candidate
        PROVE  /\ requeued[c] \in CandidateRow /\ requeued[c].drv = cand[c].drv
               /\ CampaignOf[c] # k \/ cand[c].drv \notin ds => requeued[c] = cand[c]
               /\ CampaignOf[c] = k /\ cand[c].drv \in ds => requeued[c].state = "queued"
    BY <1>2 DEF CandidateRow, State, Error
  <2>4. requeued \in [Candidate -> CandidateRow]
    BY <2>3
  <2> HIDE DEF requeued, av, fl
  <2>5. \A c \in Candidate :
          /\ requeued[c].drv = cand[c].drv
          /\ CampaignOf[c] # k => requeued[c] = cand[c]
          /\ \/ requeued[c] = cand[c]
             \/ requeued[c].state = "queued" /\ cand[c].drv \notin ActiveRoots(k)
    BY <2>2, <2>3
  <2>6. ASSUME NEW b \in Candidate, NEW c \in Candidate, Alias(cand, b, c), CampaignOf[c] = k
        PROVE  \/ requeued[b].state \notin Kept /\ requeued[c].state \notin Kept
               \/ Agree(requeued[b], requeued[c])
    <3>1. CASE cand[c].drv \in ds
      BY <2>3, <2>6, <3>1 DEF Alias, Kept
    <3>2. CASE cand[c].drv \notin ds
      BY <2>3, <2>6, <3>2 DEF Alias, CInv, RowsAgree
    <3> QED BY <3>1, <3>2
  <2>7. AttemptsGoOn
    BY <2>1 DEF AttemptsGoOn
  <2>8. CInv' /\ \A c \in Candidate : RecipeKept(c) /\ StillOut(c)
    BY <1>2, <2>1, <2>4, <2>5, <2>6, <2>7, TableStep
  <2>9. \A c \in Candidate : Asked(c)
    BY <1>6 DEF Asked
  <2> QED BY <2>8, <2>9 DEF OnlyAsked
<1>7. ASSUME NEW d \in Drv, RetryDerivation(k, d) PROVE CInv' /\ OnlyAsked
  <2> DEFINE av == available
             fl == failure \ {d}
  <2>1. /\ cand' = Refreshed(k, cand, av, fl, exclusion)
        /\ UNCHANGED <<replans, exclusion, att>>
    BY <1>7 DEF RetryDerivation
  <2> HIDE DEF av, fl
  <2>2. AttemptsGoOn
    BY <2>1 DEF AttemptsGoOn
  <2>3. \A b, c \in Candidate : Alias(cand, b, c) => Agree(cand[b], cand[c])
    BY DEF CInv, RowsAgree
  <2>4. /\ CInv' /\ \A c \in Candidate : RecipeKept(c) /\ StillOut(c)
        /\ \A c \in Candidate : cand[c] = cand[c] => StillHeld(c)
    BY <1>2, <2>1, <2>2, <2>3, TableStep
  <2> QED BY <2>4 DEF OnlyAsked
<1>8. ASSUME NEW m \in {"paused", "running"}, SetMode(k, m) PROVE CInv' /\ OnlyAsked
  BY <1>1, <1>8, StillStep DEF SetMode, graphVars
<1>9. ASSUME NEW p \in Policies, Schedule(k, p) PROVE CInv' /\ OnlyAsked
  BY <1>1, <1>9, StillStep DEF Schedule, graphVars
<1>10. ASSUME NEW cancelled \in {{}} \cup {{a} : a \in Attempt},
              ExcludeKernels(k, cancelled)
       PROVE  CInv' /\ OnlyAsked
  BY <1>10, ExcludeKernelsStep
<1>11. ASSUME ExcludeToolchains(k) PROVE CInv' /\ OnlyAsked
  <2> DEFINE excluded == exclusion \cup (known \cap ToolchainDrv \cap OutOfScope)
             unblocked == [c \in Candidate |->
               IF CampaignOf[c] = k /\ cand[c].state = "blocked"
               THEN [cand[c] EXCEPT !.state = "queued"] ELSE cand[c]]
             av == available
             fl == failure
  <2>1. /\ exclusion' = excluded
        /\ cand' = Refreshed(k, unblocked, av, fl, excluded)
        /\ UNCHANGED <<replans, att>>
    BY <1>11 DEF ExcludeToolchains
  <2>2. excluded \in SUBSET Drv /\ exclusion \subseteq excluded
    BY <1>2 DEF IInv, TypeOK
  <2> HIDE DEF excluded, av, fl
  <2>3. ASSUME NEW c \in Candidate
        PROVE  /\ unblocked[c] \in CandidateRow /\ unblocked[c].drv = cand[c].drv
               /\ CampaignOf[c] # k \/ cand[c].state # "blocked" => unblocked[c] = cand[c]
               /\ CampaignOf[c] = k /\ cand[c].state = "blocked" =>
                    unblocked[c].state = "queued"
    BY <1>2 DEF CandidateRow, State
  <2>4. unblocked \in [Candidate -> CandidateRow]
    BY <2>3
  <2> HIDE DEF unblocked
  <2>5. \A c \in Candidate : CampaignOf[c] = k /\ cand[c].state = "blocked" =>
          cand[c].drv \notin ActiveRoots(k)
    BY DEF CInv, Owned, OwnedRow
  <2>6. \A c \in Candidate :
          /\ unblocked[c].drv = cand[c].drv
          /\ CampaignOf[c] # k => unblocked[c] = cand[c]
          /\ \/ unblocked[c] = cand[c]
             \/ unblocked[c].state = "queued" /\ cand[c].drv \notin ActiveRoots(k)
    BY <2>3, <2>5
  <2>7. ASSUME NEW b \in Candidate, NEW c \in Candidate, Alias(cand, b, c), CampaignOf[c] = k
        PROVE  \/ unblocked[b].state \notin Kept /\ unblocked[c].state \notin Kept
               \/ Agree(unblocked[b], unblocked[c])
    <3>1. Agree(cand[b], cand[c]) /\ CampaignOf[b] = k
      BY <2>7 DEF CInv, RowsAgree, Alias
    <3>2. CASE cand[b].state = "blocked" /\ cand[c].state = "blocked"
      BY <2>3, <2>7, <3>1, <3>2 DEF Kept
    <3>3. CASE cand[b].state # "blocked" \/ cand[c].state # "blocked"
      BY <2>3, <2>7, <3>1, <3>3 DEF Agree
    <3> QED BY <3>2, <3>3
  <2>8. AttemptsGoOn
    BY <2>1 DEF AttemptsGoOn
  <2>9. /\ CInv' /\ \A c \in Candidate : RecipeKept(c) /\ StillOut(c)
        /\ \A c \in Candidate : unblocked[c] = cand[c] => StillHeld(c)
    BY <2>1, <2>2, <2>4, <2>6, <2>7, <2>8, TableStep
  <2>10. \A c \in Candidate : StillHeld(c)
    BY <2>3, <2>9 DEF StillHeld
  <2> QED BY <2>9, <2>10 DEF OnlyAsked
<1> QED BY <1>3, <1>4, <1>5, <1>6, <1>7, <1>8, <1>9, <1>10, <1>11 DEF Operator

\* Candidates of a new campaign.
LEMMA CandidateInit == Init => CInv
<1> SUFFICES ASSUME Init PROVE CInv
  OBVIOUS
<1>1. \A a \in Attempt : att[a].state = "none"
  BY DEF Init, Unused
<1>2. Active = {} /\ Builds = {} /\ Plans = {}
  BY <1>1 DEF Active, Builds, Plans
<1>3. \A c \in Candidate : cand[c].drv = NoDrv /\ cand[c].state # "running"
  BY DEF Init
<1>4. Owned
  BY <1>2, <1>3 DEF Owned, OwnedRow, ActiveRoots
<1>5. RowsAgree /\ ExcludedWhy
  BY <1>3 DEF RowsAgree, Alias, ExcludedWhy, ExcludedFor
<1> QED BY <1>2, <1>4, <1>5 DEF CInv, RootsApart, PlannersOwn, PlanningDetached

\* Every step keeps the candidates in order and does nothing unasked.
LEMMA CandidateStep ==
  ASSUME IInv, CInv, [Next]_vars
  PROVE  CInv' /\ OnlyAsked
<1>1. ASSUME Unasked PROVE OnlyAsked
  BY <1>1 DEF Unasked, OnlyAsked
<1>2. CASE UNCHANGED vars
  BY <1>1, <1>2, StillStep DEF vars, graphVars
<1>3. ASSUME NEW a \in Attempt, Worker(a) PROVE CInv' /\ OnlyAsked
  BY <1>1, <1>3, WorkerStep
<1>4. ASSUME NEW a \in Attempt, Settle(a) PROVE CInv' /\ OnlyAsked
  BY <1>1, <1>4, FinishPlanStep, FinishBuildStep DEF Settle
<1>5. ASSUME NEW a \in Attempt, Cancel(a) PROVE CInv' /\ OnlyAsked
  BY <1>1, <1>5, StillStep DEF Cancel, graphVars
<1>6. ASSUME NEW k \in CampaignId, Admit(k) PROVE CInv' /\ OnlyAsked
  BY <1>1, <1>6, AdmitStep
<1>7. ASSUME NEW k \in CampaignId, Operator(k) PROVE CInv' /\ OnlyAsked
  BY <1>7, OperatorStep
<1>8. CASE Tick
  BY <1>1, <1>8, TickStep
<1>9. CASE Restart
  BY <1>1, <1>9, StillStep DEF Restart, graphVars
<1>10. CASE Upgrade
  BY <1>1, <1>10, StillStep DEF Upgrade, graphVars
<1> QED BY <1>2, <1>3, <1>4, <1>5, <1>6, <1>7, <1>8, <1>9, <1>10 DEF Next

\* The candidates' invariant holds in every reachable state.
THEOREM CandidateInv == Spec => []CInv
<1>1. IInv /\ CInv /\ [Next]_vars => CInv'
  BY CandidateStep
<1> QED BY <1>1, CandidateInit, CampaignInv, PTL DEF Spec

-----------------------------------------------------------------------------
\* A candidate is running exactly while an active build of its campaign owns its
\* derivation, and aliases never disagree, in whatever order plans, builds,
\* retries, replans and exclusions are carried out and settled.
THEOREM CandidatesStayAgreed == Spec => []CandidatesAgree
<1>1. IInv /\ CInv => CandidatesAgree
  <2> SUFFICES ASSUME IInv, CInv PROVE CandidatesAgree
    OBVIOUS
  <2>1. RunningIsOwned
    BY OwnedIsRunning DEF CInv
  <2>2. AliasesAgree
    BY DEF CInv, RowsAgree, Alias, Agree, AliasesAgree
  <2> QED BY <2>1, <2>2 DEF IInv, CandidatesAgree
<1> QED BY <1>1, CampaignInv, CandidateInv, PTL

\* Replanning detaches a candidate and takes its request off the queue at once,
\* across crashes and restarts, and never replaces a recipe that an active build
\* includes.
THEOREM ReplansStaySafe == Spec => ReplansSafe
<1>1. CInv => PlanningDetached
  BY DEF CInv
<1>2. ASSUME IInv, CInv, [Next]_vars
      PROVE  [\A c \in Candidate :
                cand[c].drv # NoDrv /\ cand'[c].drv = NoDrv =>
                  cand[c].drv \notin ActiveDrvs(Builds)]_vars
  BY <1>2, CandidateStep DEF OnlyAsked, RecipeKept
<1> QED BY <1>1, <1>2, CampaignInv, CandidateInv, PTL DEF Spec, ReplansSafe, RecipeInUseKept

\* No alias, plan, refresh or settlement takes a candidate out of the inconclusive
\* state: that takes a retry, a replan or an exclusion.
THEOREM NeverSilentlyRetried == Spec => NoSilentRetry
<1> DEFINE A == \A c \in Candidate :
      cand[c].state = "inconclusive" /\ cand'[c].state # "inconclusive" =>
         \/ cand'[c].state = "excluded"
         \/ cand'[c].drv = NoDrv
         \/ \E k \in CampaignId, ids \in SUBSET Candidate : Retry(k, ids)
         \/ /\ cand[c].error = "cancelled"
            /\ \E k \in CampaignId, a \in Attempt : ExcludeKernels(k, {a})
<1>1. ASSUME IInv, CInv, [Next]_vars PROVE [A]_vars
  BY <1>1, CandidateStep DEF OnlyAsked, StillHeld, Asked
<1> QED BY <1>1, CampaignInv, CandidateInv, PTL DEF Spec, NoSilentRetry

\* A candidate excluded for its own derivation stays as it is once no build works
\* on it.
THEOREM OutOfScopeForever == Spec => OutOfScopeStaysOut
<1> DEFINE A == \A c \in Candidate :
      /\ cand[c].state = "excluded" /\ cand[c].error = "scope"
      /\ cand[c].drv # NoDrv
      /\ \A a \in Builds : cand[c].drv \notin att[a].targets
      => cand'[c] = cand[c]
<1>1. ASSUME IInv, CInv, [Next]_vars PROVE [A]_vars
  <2>1. ASSUME NEW c \in Candidate, \A a \in Builds : cand[c].drv \notin att[a].targets
        PROVE  cand[c].drv \notin ActiveRoots(CampaignOf[c])
    BY <2>1 DEF ActiveRoots
  <2> QED BY <1>1, <2>1, CandidateStep DEF OnlyAsked, StillOut
<1> QED BY <1>1, CampaignInv, CandidateInv, PTL DEF Spec, OutOfScopeStaysOut

=============================================================================
