------------------------------- MODULE Views -------------------------------
(***************************************************************************)
(* What the read-only pages make of the campaign's tables: the ranking of  *)
(* blockers (blockers.py), the package catalog and a package's page        *)
(* (catalog.py, web.py, evidence.py), the history of attempts (history.py, *)
(* batches.py) and the summary (dashboard/data.py).  A page is one read    *)
(* transaction, so a view is a function of the state; attempts are         *)
(* numbered in the order of their creation, which is the order of their    *)
(* rows.  Names, times, paging and layout are left out.                    *)
(***************************************************************************)
EXTENDS Campaign

Roots(k) == {cand[c].drv : c \in Members(k)} \ {NoDrv}
Attempts(k) == {a \in Attempt : att[a].state # "none" /\ att[a].campaign = k}
Latest(as) == CHOOSE a \in as : \A b \in as : b <= a

-----------------------------------------------------------------------------
(* blockers.compute: one walk over the graph of a campaign.                *)

Scope(k) == ClosureOf(Roots(k))

\* An out-of-scope failure is not a blocker to fix.
Failing(k) == (failure \ exclusion) \cap Scope(k)

\* Whatever depends on a failure or an exclusion, itself included.
Bad(k) == Scope(k) \cap Reaches((failure \cup exclusion) \cap Scope(k))

\* The blocked packages above a failure.
Blocks(k, f) ==
  {c \in Members(k) : cand[c].state = "blocked" /\ cand[c].drv # f /\ f \in Deps[cand[c].drv]}
\* The failures below a blocked package.
Causes(k, c) == {f \in Failing(k) : c \in Blocks(k, f)}
\* The packages that a failure alone keeps from building.
Sole(k, f) == {c \in Blocks(k, f) : Causes(k, c) = {f}}

Ranking(k) ==
  [rows |-> [f \in {g \in Failing(k) : Blocks(k, g) # {}} |->
               [blocks |-> Cardinality(Blocks(k, f)), only |-> Cardinality(Sole(k, f))]],
   scope |-> Scope(k), bad |-> Bad(k)]

-----------------------------------------------------------------------------
(* The history: outcomes belong to attempts.                               *)

\* OUTCOME
Outcome(a) ==
  IF att[a].state # "finished" THEN "active"
  ELSE IF att[a].reason = "completed" THEN "complete" ELSE "error"

\* batch_status
Status(a) ==
  IF att[a].state # "finished" THEN "running"
  ELSE CASE att[a].reason = "completed" -> "finished"
         [] att[a].reason = "cancelled" -> "cancelled"
         [] att[a].reason = "log-limit" -> "resource-limit"
         [] att[a].reason = "stopped" -> "interrupted"
         [] OTHER -> "finished-errors"

\* The status of a build activity on the page of its attempt.  (An activity of
\* Campaign is one whose builder has ended.)
ActivityStatus(a, d) ==
  IF <<a, d>> \in tests THEN "tested"
  ELSE IF att[a].state # "finished" THEN "awaiting-result"
  ELSE IF att[a].outcomes[d] = "none" THEN "unknown" ELSE att[a].outcomes[d]

\* item and attempt_detail
Detail(a) ==
  [status |-> Status(a), targets |-> att[a].targets, ids |-> att[a].ids,
   activities |-> [d \in att[a].activities |-> ActivityStatus(a, d)],
   checks |-> Cardinality({d \in Drv : <<a, d>> \in tests})]

\* batches: the ledger, complete.
Ledger(k) ==
  [a \in Attempts(k) |->
    [status |-> Status(a), outcome |-> Outcome(a), roots |-> att[a].targets,
     builds |-> Cardinality(att[a].activities),
     tested |-> Cardinality({d \in Drv : <<a, d>> \in tests})]]
\* overview: the attempts by outcome.
Totals(k) ==
  [o \in {"active", "complete", "error"} |-> Cardinality({a \in Attempts(k) : Outcome(a) = o})]

-----------------------------------------------------------------------------
(* Packages.                                                               *)

ChecksOf(k, d) == {a \in Attempts(k) : <<a, d>> \in tests}

\* catalog: the attempt a package row leads to, the latest that had it as a
\* root or worked on it; failing that, the latest that planned it.
AttemptOf(k, c) ==
  LET d == cand[c].drv
      roots == {a \in Attempts(k) : d \in att[a].targets}
      observed == {a \in Attempts(k) : d \in att[a].activities}
      plans == {a \in Attempts(k) : att[a].kind = "plan" /\ c \in att[a].ids}
  IN  IF observed # {} /\ (roots = {} \/ Latest(observed) > Latest(roots)) THEN Latest(observed)
      ELSE IF roots # {} THEN Latest(roots)
      ELSE IF plans # {} THEN Latest(plans) ELSE NoAttempt

\* A row of the catalog.
Row(k, c) ==
  LET d == cand[c].drv
      a == AttemptOf(k, c)
  IN  [state |-> cand[c].state, attempt |-> a,
       checks |-> IF cand[c].state = "excluded" THEN {} ELSE ChecksOf(k, d),
       log_drv |-> IF a # NoAttempt /\ d \in att[a].activities THEN d ELSE NoDrv]

\* selected: the filters of the package page.
Selected(k, view) ==
  {c \in Members(k) :
     LET r == Row(k, c) IN
     CASE view = "built" -> r.state = "available"
       [] view = "tested" -> r.state = "available" /\ r.checks # {}
       [] view = "failures" -> r.state \in {"failed", "evaluation-error", "inconclusive"}
       [] view = "tried" -> r.state \notin {"unplanned", "queued"}
       [] OTHER -> r.state = view}

\* model.blockers: the failures and exclusions below a derivation.
Explain(d) == Deps[d] \cap (failure \cup exclusion)

\* failure_evidence
Evidence(d) == evidence[d]

\* package: its log is that of the latest build, or of its failure; its blockers
\* come with theirs.
Package(k, c) ==
  LET d == cand[c].drv
      builds == {a \in Attempts(k) : d \in att[a].activities}
      latest == IF builds = {} THEN NoAttempt ELSE Latest(builds)
  IN  [log |-> IF cand[c].state = "failed" /\ Evidence(d) # NoAttempt THEN Evidence(d) ELSE latest,
       blockers |-> IF d = NoDrv THEN {} ELSE {<<e, Evidence(e)>> : e \in Explain(d) \ {d}}]

\* detail: the candidates above a derivation.
Dependents(k, d) == {c \in Members(k) : cand[c].drv \in Reaches({d}) \ {d, NoDrv}}

\* snapshot and summary: derivations that are available and were checked here.
Tested(k) ==
  {d \in Drv : \E c \in Members(k) :
     cand[c].drv = d /\ cand[c].state = "available" /\ ChecksOf(k, d) # {}}

\* snapshot: the campaign at a glance.
Glance(k) ==
  [counts |-> [s \in {cand[c].state : c \in Members(k)} |->
                 Cardinality({c \in Members(k) : cand[c].state = s})],
   attempts |-> {a \in Attempts(k) : att[a].state # "finished"},
   unique |-> Cardinality(Roots(k)),
   blockers |-> Ranking(k).rows,
   tested |-> Cardinality(Tested(k))]

\* derivation_detail: what a derivation needs and, itself included, what needs it.
Derivation(k, d) ==
  [dependencies |-> {e[2] : e \in {f \in Edges : f[1] = d}},
   dependents |-> {c \in Members(k) : cand[c].drv \in Reaches({d}) \ {NoDrv}},
   tests |-> ChecksOf(k, d),
   blockers |-> Explain(d)]

\* Mutant: what was never planned does not count.
FinishedPlanned(k) ==
  /\ \A c \in Members(k) : cand[c].state \notin {"queued", "running"}
  /\ \A a \in Attempts(k) : att[a].state = "finished"
\* finished: the pages stop refreshing themselves.
Finished(k) ==
  /\ \A c \in Members(k) : cand[c].state \notin {"unplanned", "queued", "running"}
  /\ \A a \in Attempts(k) : att[a].state = "finished"

\* packages: one filter of the package page, of all its pages.
Packages(k, view) == [rows |-> Selected(k, view), done |-> Finished(k)]

-----------------------------------------------------------------------------
\* "Rank failed derivations by the packages they keep from building": every
\* blocked package is found under some failure to fix, the ranking, the page of
\* the package and the page of the failure name the same pairs, and the number
\* of blocked packages on the front page is the number of those, after any retry
\* and settlement.
BlockedIsExplained ==
  \A k \in CampaignId, c \in Candidate :
    CampaignOf[c] = k /\ cand[c].state = "blocked" =>
      LET ranked == {f \in DOMAIN Ranking(k).rows : c \in Blocks(k, f)}
      IN  /\ ranked # {}
          /\ ranked = {b[1] : b \in Package(k, c).blockers} \ exclusion
          /\ ranked = {f \in Failing(k) : c \in Dependents(k, f)}
          /\ ranked = {f \in Failing(k) \ {cand[c].drv} : c \in Derivation(k, f).dependents}
          /\ ranked = Derivation(k, cand[c].drv).blockers \ exclusion
          /\ LET glance == Glance(k)
             IN  glance.counts["blocked"] = Cardinality(UNION {Blocks(k, f) : f \in DOMAIN glance.blockers})

\* A failure that is counted as the only one in the way of a package is: with it
\* cleared, the package is not blocked any more.
SoleBlockerSuffices ==
  \A k \in CampaignId : \A f \in Failing(k) : \A c \in Sole(k, f) :
    Refreshed(k, cand, available, failure \ {f}, exclusion)[c].state # "blocked"

\* "Locate the batch that owns evidence, independently of the viewing campaign":
\* the page of a failed package, and each blocker on the page of a blocked one,
\* lead to an attempt that is settled and whose frozen outcome is that failure.
FailureHasEvidence ==
  \A k \in CampaignId, c \in Candidate :
    /\ CampaignOf[c] = k
    => /\ cand[c].state = "failed" /\ cand[c].drv \in failure =>
            LET log == Package(k, c).log
            IN  log # NoAttempt /\ ActivityStatus(log, cand[c].drv) = "failed"
       /\ \A b \in Package(k, c).blockers :
            b[1] \in failure => b[2] # NoAttempt /\ ActivityStatus(b[2], b[1]) = "failed"

\* The row of a package that is being built leads to the build that owns it.
RowLeadsToOwner ==
  \A k \in CampaignId, c \in Candidate :
    CampaignOf[c] = k /\ cand[c].state = "running" =>
      LET a == Row(k, c).attempt
      IN  a \in Builds /\ cand[c].drv \in att[a].targets

\* What is shown as tested was built and checked by an attempt of this campaign,
\* and is valid: the summary and the package page agree on it.
TestedIsReal ==
  \A k \in CampaignId :
    /\ Tested(k) = {cand[c].drv : c \in Packages(k, "tested").rows}
    /\ \A d \in Tested(k) :
         /\ Paths({d}) \subseteq store
         /\ \E a \in Attempts(k) : att[a].state = "finished" /\ att[a].outcomes[d] = "tested"

\* "Outcomes belong to attempts, never to today's outputs": the page and the
\* ledger row of a settled attempt never change, except when its cancelled kernel
\* is put out of scope, and the totals of settled attempts never go down.
DetailFrozen ==
  [][/\ \A k \in CampaignId, o \in {"complete", "error"} : Totals(k)'[o] >= Totals(k)[o]
     /\ \A a \in Attempt :
          /\ att[a].state = "finished"
          /\ ~\E k \in CampaignId : ExcludeKernels(k, {a})
          => LET k == att[a].campaign
             IN  Detail(a)' = Detail(a) /\ Ledger(k)'[a] = Ledger(k)[a]]_vars

\* A page that says the campaign is done stops refreshing, and misses nothing:
\* with no replan queued, only a command to this campaign starts work again,
\* whatever goes on in another one over the same derivations.
DoneStays ==
  [][\A k \in CampaignId :
       Finished(k) /\ replans \cap Members(k) = {} /\ ~Finished(k)' => Operator(k)]_vars

\* What is on record is backed by a settled attempt, and what the pages show as
\* failed, tested or available is so, in whatever order attempts are settled.
EvidenceTrue == FactsConsistent /\ FailureHasEvidence /\ TestedIsReal

\* Credit goes to the attempt that did the work: the provenance on record, the
\* outcomes frozen with a build and the row of a running package name it, in
\* whatever order attempts are settled.
CreditTrue == ProvenanceKept /\ OutcomesTrue /\ RowLeadsToOwner

\* Nothing is retried and nothing settled is rewritten without a command.
NothingUnasked == NoSilentRetry /\ DetailFrozen
=============================================================================
