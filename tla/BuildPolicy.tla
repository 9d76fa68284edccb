---------------------------- MODULE BuildPolicy ----------------------------
(***************************************************************************)
(* build_policy (experiment/scheduling.py): how many jobs and cores a new  *)
(* build attempt may request next to the ones already active, or none.     *)
(* A policy is the part of a campaign's policy that `schedule` can change; *)
(* the limits are frozen at import.                                        *)
(***************************************************************************)
EXTENDS Naturals, FiniteSets, FiniteSetsExt

CONSTANTS
  MaxJobs, Cores, Cpus,   \* policy max_jobs, cores and size of the CPU set
  RemoteSlots             \* bound on the capacity of the configured builders

ASSUME PolicyAssumption ==
  /\ MaxJobs \in Nat \ {0}
  /\ Cores \in Nat \ {0}
  /\ Cpus \in Nat \ {0}
  /\ RemoteSlots \in Nat

AtMost(a, b) == IF a <= b THEN a ELSE b
AtLeast(a, b) == IF a >= b THEN a ELSE b

\* Limits frozen in an attempt's spec.  Only rolling admission records that a
\* build is remote; the worker of such a build asks for no local job at all.
Limits == [remote : BOOLEAN, jobs : Nat, cores : Nat]

\* A share of the remaining CPUs: as many of the wanted jobs as fit, then as
\* many cores for each as fit.
Share(jobs, remaining) ==
  LET j == AtMost(jobs, AtLeast(1, remaining \div Cores))
  IN  [remote |-> FALSE, jobs |-> j, cores |-> AtMost(Cores, remaining \div j)]

\* Number of clients the policy admits side by side.
LaneCount(policy) ==
  IF policy.rolling THEN MaxJobs
  ELSE IF policy.ahead # 0 THEN policy.lanes
  ELSE 1

\* Threads that the counted clients request together.
Reserved(counted, limits) ==
  MapThenSumSet(LAMBDA a : limits[a].jobs * limits[a].cores, counted)

\* Mutant: a client counts as one job.
TakenClients(counted, limits) == Cardinality(counted)
\* Jobs that the counted clients request together.
Taken(counted, limits) == MapThenSumSet(LAMBDA a : limits[a].jobs, counted)

\* No lane or no CPU is left for another local client.
Occupied(policy, counted, limits) ==
  \/ Cardinality(counted) >= LaneCount(policy)
  \/ \E a \in counted : limits[a].jobs = 0 \/ limits[a].cores = 0
  \/ policy.rolling /\ \/ Taken(counted, limits) >= MaxJobs
                       \/ Reserved(counted, limits) + Cores > Cpus
  \/ Reserved(counted, limits) >= Cpus

\* build_policy(policy, active, "local"): a set of at most one share.  `active`
\* is a set of attempts and `limits` their frozen limits.
LocalShare(policy, active, limits) ==
  LET counted == IF policy.rolling
                 THEN {a \in active : ~limits[a].remote} ELSE active
      wanted == IF policy.rolling THEN 1
                ELSE AtLeast(1, MaxJobs \div LaneCount(policy))
  IN  IF Occupied(policy, counted, limits) THEN {}
      ELSE {Share(wanted, Cpus - Reserved(counted, limits))}

\* build_policy(policy, active, "remote", machines), rolling only: bounded by
\* the job slots of the configured builders.
RemoteShare(active, limits, slots) ==
  IF Cardinality({a \in active : limits[a].remote}) >= slots THEN {}
  ELSE {[remote |-> TRUE, jobs |-> 0, cores |-> Cores]}
=============================================================================
