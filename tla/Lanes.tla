------------------------------- MODULE Lanes -------------------------------
(***************************************************************************)
(* Build lanes of one campaign: builds are admitted next to each other     *)
(* under a scheduling policy that the operator changes while they run, so  *)
(* that clients with the frozen limits of older policies drain beside new  *)
(* ones, and the capacity of the remote builders is observed anew.         *)
(***************************************************************************)
EXTENDS BuildPolicy

CONSTANTS
  Attempt,       \* build attempts, numbered; an ended one's number is taken again
  LegacyLimits   \* limits of a client that an earlier policy may have left

ASSUME LegacyAssumption ==
  /\ Attempt \subseteq Nat /\ 1 \in Attempt
  /\ \A l \in LegacyLimits : l \in Limits /\ l.jobs * l.cores <= Cpus

VARIABLES
  policy,    \* ahead (0 or not), lanes, rolling
  active,    \* the active build attempts
  limits,    \* the frozen limits of every attempt
  slots      \* capacity of the remote builders as last observed

lanesVars == <<policy, active, limits, slots>>

NoLimits == [remote |-> FALSE, jobs |-> 0, cores |-> 0]
Policy == [ahead : 0..1, lanes : 1..2, rolling : BOOLEAN]

LanesTypeOK ==
  /\ policy \in Policy
  /\ policy.rolling => policy.ahead # 0
  /\ active \subseteq Attempt
  /\ limits \in [Attempt -> Limits]
  /\ slots \in 0..RemoteSlots

\* DEFAULT_POLICY, with or without one client left over from older limits.
LanesInit ==
  /\ policy = [ahead |-> 0, lanes |-> 1, rolling |-> FALSE]
  /\ slots = 0
  /\ \/ active = {} /\ limits = [a \in Attempt |-> NoLimits]
     \/ \E l \in LegacyLimits :
          /\ active = {1}
          /\ limits = [[b \in Attempt |-> NoLimits] EXCEPT ![1] = l]

\* dispatch("schedule"): admission settings change, frozen limits do not.
Schedule(p) ==
  /\ p.rolling => p.ahead # 0
  /\ policy' = p
  /\ UNCHANGED <<active, limits, slots>>

\* intent(): a build is admitted with an effective policy; with another attempt
\* active it also needs lookahead.
Admit(a, share) ==
  /\ a \notin active /\ \A b \in Attempt \ active : a <= b
  /\ active # {} => policy.ahead # 0
  /\ active' = active \cup {a}
  /\ limits' = [limits EXCEPT ![a] = share]
  /\ UNCHANGED <<policy, slots>>

AdmitLocal(a) ==
  \E share \in LocalShare(policy, active, limits) : Admit(a, share)

AdmitRemote(a) ==
  /\ policy.rolling
  /\ \E share \in RemoteShare(active, limits, slots) : Admit(a, share)

\* Admission refreshes the list of builders once a minute.
ObserveMachines(n) ==
  /\ policy.rolling
  /\ slots' = n
  /\ UNCHANGED <<policy, active, limits>>

Finish(a) ==
  /\ a \in active
  /\ active' = active \ {a}
  /\ limits' = [limits EXCEPT ![a] = NoLimits]
  /\ UNCHANGED <<policy, slots>>

LanesNext ==
  \/ \E p \in Policy : Schedule(p)
  \/ \E n \in 0..RemoteSlots : ObserveMachines(n)
  \/ \E a \in Attempt : AdmitLocal(a) \/ AdmitRemote(a) \/ Finish(a)


-----------------------------------------------------------------------------
Local == {a \in active : ~limits[a].remote}

\* "Admission reserves each active client's full max_jobs * cores request":
\* whatever policies the active clients were admitted under, together they
\* request no more threads than the CPU set has.
CpuBudget ==
  MapThenSumSet(LAMBDA a : limits[a].jobs * limits[a].cores, Local) <= Cpus

\* A local client has at least one job and one core.  Zero would not mean
\* nothing: Nix reads cores=0 as every core and max-jobs=0 as remote only.
LocalShareUsable ==
  \A a \in Local : limits[a].jobs >= 1 /\ limits[a].cores >= 1

\* "Their combined job ... budgets cannot exceed the campaign's frozen limits":
\* rolling admission never takes the local jobs past max_jobs, whatever is left
\* of batches admitted before the switch.
RollingJobBudget ==
  [][policy.rolling /\ active \subseteq active' /\ Local' # Local =>
       MapThenSumSet(LAMBDA a : limits'[a].jobs, Local') <= MaxJobs]_lanesVars

\* The budgets hold while policies change and clients of older ones drain.
BudgetKept == [](LanesTypeOK /\ CpuBudget /\ LocalShareUsable) /\ RollingJobBudget
=============================================================================
