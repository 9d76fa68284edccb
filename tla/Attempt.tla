------------------------------- MODULE Attempt -------------------------------
(***************************************************************************)
(* The durable-intent protocol between the campaign controller             *)
(* (experiment/controller.py), the transient systemd units it asks for     *)
(* (deploy/experiment/filnix-attempt-unit) and the worker that runs inside *)
(* one of them (experiment/attempt.py).                                    *)
(*                                                                         *)
(* The controller is one thread: it commits an intent, and on every tick   *)
(* reconciles each active attempt from three things it reads at different  *)
(* moments (the exit record, the unit's state, the started marker).  The   *)
(* unit and the worker move on their own between any two of those reads.   *)
(***************************************************************************)
EXTENDS Naturals

CONSTANTS
  Attempt,     \* attempt UUIDs
  Plans,       \* the attempts whose kind is "plan"; the others are builds
  NoAttempt,   \* ctl.at when the controller is handling none
  MaxFaults    \* bound on crashes, lost jobs, lost files and killed workers

ASSUME AttemptAssumption ==
  /\ NoAttempt \notin Attempt
  /\ Plans \subseteq Attempt
  /\ MaxFaults \in Nat

\* Reasons a worker publishes in exit.json: "failed" stands for build-error,
\* timeout, log-limit, worker-error, resource-policy, resource-interruption.
WorkerReason == {"completed", "failed", "cancelled"}
Verdict == WorkerReason \cup {"interrupted", "excluded"}

VARIABLES
  row,      \* the attempts table: state, cancel_requested, result reason
  files,    \* the attempt directory: spec, started, exit, plan rows and graph
  unit,     \* systemd's view: ActiveState and a pending start job
  worker,   \* the worker process inside the unit
  ctl,      \* where the controller thread stands
  faults,   \* faults injected so far
  ran       \* history: how often the attempt's work was executed

vars == <<row, files, unit, worker, ctl, faults, ran>>

NoFiles == [spec |-> FALSE, started |-> FALSE, exit |-> "none",
            graph |-> "none", rows |-> FALSE]
Idle == [pc |-> "idle", at |-> NoAttempt, verdict |-> "none"]

RowType == [state : {"none", "intended", "running", "finished"},
            cancel : BOOLEAN,
            verdict : Verdict \cup {"none"}]
FilesType == [spec : BOOLEAN, started : BOOLEAN,
              exit : WorkerReason \cup {"none"},
              graph : {"none", "written", "pruned"},
              rows : BOOLEAN]
UnitType == [state : {"inactive", "active", "stopping"}, job : BOOLEAN]
ControllerType == [pc : {"idle", "intent", "noexit", "active", "inactive",
                         "launch", "commit", "cancel"},
                   at : Attempt \cup {NoAttempt},
                   verdict : Verdict \cup {"none"}]

TypeOK ==
  /\ row \in [Attempt -> RowType]
  /\ files \in [Attempt -> FilesType]
  /\ unit \in [Attempt -> UnitType]
  /\ worker \in [Attempt -> {"none", "launched", "executing"}]
  /\ ctl \in ControllerType
  /\ faults \in 0..MaxFaults
  /\ ran \in [Attempt -> Nat]

Init ==
  /\ row = [a \in Attempt |->
              [state |-> "none", cancel |-> FALSE, verdict |-> "none"]]
  /\ files = [a \in Attempt |-> NoFiles]
  /\ unit = [a \in Attempt |-> [state |-> "inactive", job |-> FALSE]]
  /\ worker = [a \in Attempt |-> "none"]
  /\ ctl = Idle
  /\ faults = 0
  /\ ran = [a \in Attempt |-> 0]

Active(a) == row[a].state \in {"intended", "running"}

At(pc, a) == ctl.pc = pc /\ ctl.at = a
Goto(pc, a) == ctl' = [pc |-> pc, at |-> a, verdict |-> "none"]
Decide(a, v) == ctl' = [pc |-> "commit", at |-> a, verdict |-> v]

-----------------------------------------------------------------------------
(* Units: systemctl start|stop --no-block and the jobs behind them.        *)

\* ActiveState in active, activating, deactivating, reloading.  A unit whose
\* start job is still queued is inactive.
UnitActive(a) == unit[a].state # "inactive"

\* start --no-block enqueues a job and returns; on an active unit it is a no-op.
UnitsStart(a) ==
  unit' = [unit EXCEPT ![a].job = @ \/ unit[a].state # "active"]

\* stop --no-block drops a pending start job and signals the main process.
UnitsStop(a) ==
  unit' = [unit EXCEPT ![a] = [state |-> IF @.state = "active" THEN "stopping"
                                                               ELSE @.state,
                               job |-> FALSE]]

-----------------------------------------------------------------------------
(* The controller thread.                                                  *)

\* intent(): the directory and spec.json are written before the transaction.
IntentFiles(a) ==
  /\ ctl.pc = "idle"
  /\ row[a].state = "none" /\ ~files[a].spec
  /\ files' = [files EXCEPT ![a].spec = TRUE]
  /\ Goto("intent", a)
  /\ UNCHANGED <<row, unit, worker, faults, ran>>

IntentCommit(a) ==
  /\ At("intent", a)
  /\ row' = [row EXCEPT ![a].state = "intended"]
  /\ ctl' = Idle
  /\ UNCHANGED <<files, unit, worker, faults, ran>>

\* reconcile(), one attempt: recreate a missing spec.json, then look for
\* exit.json.  A result that is found is committed by ReconcileCommit.
ReconcileRead(a) ==
  /\ ctl.pc = "idle"
  /\ Active(a)
  /\ files' = [files EXCEPT ![a].spec = TRUE]
  /\ IF files[a].exit = "none" THEN Goto("noexit", a)
                               ELSE Decide(a, files[a].exit)
  /\ UNCHANGED <<row, unit, worker, faults, ran>>

\* ... then ask systemd.  An active unit is left alone, or stopped if the
\* attempt was cancelled.
ReconcileUnit(a) ==
  /\ At("noexit", a)
  /\ IF UnitActive(a)
     THEN /\ IF row[a].cancel THEN UnitsStop(a) ELSE UNCHANGED unit
          /\ Goto("active", a)
     ELSE /\ Goto("inactive", a)
          /\ UNCHANGED unit
  /\ UNCHANGED <<row, files, worker, faults, ran>>

ReconcileRunning(a) ==
  /\ At("active", a)
  /\ row' = [row EXCEPT ![a].state = "running"]
  /\ ctl' = Idle
  /\ UNCHANGED <<files, unit, worker, faults, ran>>

\* ... then look for started.json.  An intent that never started is launched
\* (again), or settled as cancelled.
ReconcileLaunch(a) ==
  /\ At("inactive", a)
  /\ ~files[a].started /\ row[a].state = "intended"
  /\ IF row[a].cancel THEN Decide(a, "cancelled") ELSE Goto("launch", a)
  /\ UNCHANGED <<row, files, unit, worker, faults, ran>>

ReconcileStart(a) ==
  /\ At("launch", a)
  /\ UnitsStart(a)
  /\ ctl' = Idle
  /\ UNCHANGED <<row, files, worker, faults, ran>>

\* Mutant: a vanished unit is taken for one that did its work.
LostIsCompleted(a) ==
  /\ At("inactive", a)
  /\ files[a].started \/ row[a].state = "running"
  /\ Decide(a, IF row[a].cancel THEN "cancelled" ELSE "completed")
  /\ UNCHANGED <<row, files, unit, worker, faults, ran>>

\* Mutant: a unit seen running that died before its started marker is ignored.
LostNeedsMarker(a) ==
  /\ At("inactive", a)
  /\ files[a].started
  /\ Decide(a, IF row[a].cancel THEN "cancelled" ELSE "interrupted")
  /\ UNCHANGED <<row, files, unit, worker, faults, ran>>

\* Started once, unit gone, no result: cancelled or interrupted.
ReconcileLost(a) ==
  /\ At("inactive", a)
  /\ files[a].started \/ row[a].state = "running"
  /\ Decide(a, IF row[a].cancel THEN "cancelled" ELSE "interrupted")
  /\ UNCHANGED <<row, files, unit, worker, faults, ran>>

\* finish_plan / finish_build and the terminal row in one transaction.
\* finish_plan opens the graph of every completed plan row; a missing graph
\* raises and the step does not happen.
ReconcileCommit(a) ==
  /\ At("commit", a)
  /\ a \in Plans /\ files[a].rows => files[a].graph = "written"
  /\ row' = [row EXCEPT ![a] = [state |-> "finished", cancel |-> @.cancel,
                                verdict |-> ctl.verdict]]
  /\ ctl' = Idle
  /\ UNCHANGED <<files, unit, worker, faults, ran>>

\* Mutant: a cancellation that does not check that the attempt is active.
CancelSettled(a) ==
  /\ ctl.pc = "idle"
  /\ row[a].state # "none" /\ ~row[a].cancel
  /\ row' = [row EXCEPT ![a].cancel = TRUE]
  /\ Goto("cancel", a)
  /\ UNCHANGED <<files, unit, worker, faults, ran>>

\* dispatch("cancel"): commit cancel_requested, then stop an active unit.
CancelCommit(a) ==
  /\ ctl.pc = "idle"
  /\ Active(a) /\ ~row[a].cancel
  /\ row' = [row EXCEPT ![a].cancel = TRUE]
  /\ Goto("cancel", a)
  /\ UNCHANGED <<files, unit, worker, faults, ran>>

CancelStop(a) ==
  /\ At("cancel", a)
  /\ IF UnitActive(a) THEN UnitsStop(a) ELSE UNCHANGED unit
  /\ ctl' = Idle
  /\ UNCHANGED <<row, files, worker, faults, ran>>

\* exclude_kernels: a cancelled build whose batch held a kernel is recorded as
\* excluded; the worker's reason is kept beside it.
Reclassify(a) ==
  /\ ctl.pc = "idle"
  /\ a \notin Plans
  /\ row[a].state = "finished" /\ row[a].verdict = "cancelled"
  /\ row' = [row EXCEPT ![a].verdict = "excluded"]
  /\ UNCHANGED <<files, unit, worker, ctl, faults, ran>>

Fault == faults < MaxFaults /\ faults' = faults + 1

\* The controller dies (an exception in tick, a kill) and systemd restarts it:
\* its position is lost, the transaction it was in is rolled back.
ControllerCrash ==
  /\ ctl.pc # "idle"
  /\ Fault
  /\ ctl' = Idle
  /\ UNCHANGED <<row, files, unit, worker, ran>>

-----------------------------------------------------------------------------
(* systemd and the machine.                                                *)

Launch(a) ==
  /\ unit[a].job /\ unit[a].state = "inactive"
  /\ unit' = [unit EXCEPT ![a] = [state |-> "active", job |-> FALSE]]
  /\ worker' = [worker EXCEPT ![a] = "launched"]
  /\ UNCHANGED <<row, files, ctl, faults, ran>>

\* A queued job that never runs (daemon reload, failed dependency).
StartLost(a) ==
  /\ unit[a].job
  /\ Fault
  /\ unit' = [unit EXCEPT ![a].job = FALSE]
  /\ UNCHANGED <<row, files, worker, ctl, ran>>

\* RuntimeMaxSec: systemd stops the unit by itself, three hours in, long after
\* a live worker has published started.json.
RuntimeLimit(a) ==
  /\ unit[a].state = "active" /\ worker[a] = "executing"
  /\ unit' = [unit EXCEPT ![a].state = "stopping"]
  /\ UNCHANGED <<row, files, worker, ctl, faults, ran>>

UnitDown(a) ==
  /\ UnitActive(a) /\ worker[a] = "none"
  /\ unit' = [unit EXCEPT ![a].state = "inactive"]
  /\ UNCHANGED <<row, files, worker, ctl, faults, ran>>

\* Power loss: the controller, the units and the workers vanish; files and
\* committed rows remain, except that a directory never synced into its parent
\* may be gone while nothing has started in it.
PowerLoss ==
  /\ Fault
  /\ ctl' = Idle
  /\ unit' = [a \in Attempt |-> [state |-> "inactive", job |-> FALSE]]
  /\ worker' = [a \in Attempt |-> "none"]
  /\ \E gone \in SUBSET {a \in Attempt : ~files[a].started} :
       files' = [a \in Attempt |-> IF a \in gone THEN NoFiles ELSE files[a]]
  /\ UNCHANGED <<row, ran>>

-----------------------------------------------------------------------------
(* The worker, attempt.run.                                                *)

\* Mutant: a relaunched worker does not look for the started marker.
BeginAgain(a) ==
  /\ worker[a] = "launched"
  /\ files[a].spec
  /\ files' = [files EXCEPT ![a].started = TRUE]
  /\ worker' = [worker EXCEPT ![a] = "executing"]
  /\ ran' = [ran EXCEPT ![a] = @ + 1]
  /\ UNCHANGED <<row, unit, ctl, faults>>

\* started.json is published once; from here on the attempt's work runs.
WorkerBegin(a) ==
  /\ worker[a] = "launched"
  /\ files[a].spec /\ ~files[a].started
  /\ files' = [files EXCEPT ![a].started = TRUE]
  /\ worker' = [worker EXCEPT ![a] = "executing"]
  /\ ran' = [ran EXCEPT ![a] = @ + 1]
  /\ UNCHANGED <<row, unit, ctl, faults>>

\* A second launch of an executed UUID returns.
WorkerSkip(a) ==
  /\ worker[a] = "launched"
  /\ files[a].started
  /\ worker' = [worker EXCEPT ![a] = "none"]
  /\ UNCHANGED <<row, files, unit, ctl, faults, ran>>

\* plan(): the graph is written and synced, then the row naming it.
WorkerGraph(a) ==
  /\ worker[a] = "executing" /\ a \in Plans
  /\ files[a].graph = "none"
  /\ files' = [files EXCEPT ![a].graph = "written"]
  /\ UNCHANGED <<row, unit, worker, ctl, faults, ran>>

WorkerRow(a) ==
  /\ worker[a] = "executing" /\ a \in Plans
  /\ files[a].graph # "none" /\ ~files[a].rows
  /\ files' = [files EXCEPT ![a].rows = TRUE]
  /\ UNCHANGED <<row, unit, worker, ctl, faults, ran>>

\* exit.json is published and the process ends.  Only build() turns SIGTERM
\* into the reason "cancelled", and plan() reports completed or worker-error.
WorkerExit(a, reason) ==
  /\ worker[a] = "executing"
  /\ reason = "cancelled" => a \notin Plans /\ unit[a].state = "stopping"
  /\ files' = [files EXCEPT ![a].exit = reason]
  /\ worker' = [worker EXCEPT ![a] = "none"]
  /\ UNCHANGED <<row, unit, ctl, faults, ran>>

\* SIGTERM where no handler is installed, or SIGKILL after TimeoutStopSec.
WorkerStopped(a) ==
  /\ worker[a] # "none" /\ unit[a].state = "stopping"
  /\ worker' = [worker EXCEPT ![a] = "none"]
  /\ UNCHANGED <<row, files, unit, ctl, faults, ran>>

\* The process dies without a record (OOM kill, unexpected exit).
WorkerDie(a) ==
  /\ worker[a] # "none"
  /\ Fault
  /\ worker' = [worker EXCEPT ![a] = "none"]
  /\ UNCHANGED <<row, files, unit, ctl, ran>>

\* Mutant: a cleaner that looks at the worker's result instead of the row.
PruneOnExit(a) ==
  /\ a \in Plans /\ files[a].exit # "none"
  /\ files[a].graph = "written"
  /\ files' = [files EXCEPT ![a].graph = "pruned"]
  /\ UNCHANGED <<row, unit, worker, ctl, faults, ran>>

\* prune_plans: graphs of planner attempts with a committed terminal row.
Prune(a) ==
  /\ a \in Plans /\ row[a].state = "finished"
  /\ files[a].graph = "written"
  /\ files' = [files EXCEPT ![a].graph = "pruned"]
  /\ UNCHANGED <<row, unit, worker, ctl, faults, ran>>

-----------------------------------------------------------------------------
Controller(a) ==
  \/ IntentFiles(a) \/ IntentCommit(a)
  \/ ReconcileRead(a) \/ ReconcileUnit(a) \/ ReconcileRunning(a)
  \/ ReconcileLaunch(a) \/ ReconcileStart(a)
  \/ ReconcileLost(a) \/ ReconcileCommit(a)
  \/ CancelCommit(a) \/ CancelStop(a) \/ Reclassify(a)

Systemd(a) == Launch(a) \/ StartLost(a) \/ RuntimeLimit(a) \/ UnitDown(a)

Worker(a) ==
  \/ WorkerBegin(a) \/ WorkerSkip(a) \/ WorkerGraph(a) \/ WorkerRow(a)
  \/ \E reason \in WorkerReason : WorkerExit(a, reason)
  \/ WorkerStopped(a) \/ WorkerDie(a)

Next ==
  \/ \E a \in Attempt : Controller(a) \/ Systemd(a) \/ Worker(a) \/ Prune(a)
  \/ ControllerCrash
  \/ PowerLoss

\* The controller thread never stalls inside a handler; serve() runs tick
\* between any two commands, so every active attempt is read again and again.
\* systemd runs queued jobs, notices dead processes and enforces RuntimeMaxSec
\* and TimeoutStopSec.  Nothing makes a worker publish a result.
Fairness ==
  \A a \in Attempt :
    /\ SF_vars(ReconcileRead(a))
    /\ WF_vars(IntentCommit(a) \/ ReconcileUnit(a) \/ ReconcileRunning(a)
               \/ ReconcileLaunch(a) \/ ReconcileStart(a) \/ ReconcileLost(a)
               \/ ReconcileCommit(a) \/ CancelStop(a))
    /\ WF_vars(Launch(a))
    /\ WF_vars(RuntimeLimit(a))
    /\ WF_vars(UnitDown(a))
    /\ WF_vars(WorkerBegin(a) \/ WorkerSkip(a))
    /\ WF_vars(WorkerStopped(a))

Spec == Init /\ [][Next]_vars
FairSpec == Spec /\ Fairness

-----------------------------------------------------------------------------
(* What the protocol must guarantee.                                       *)

\* "Graphs must remain intact while an attempt is intended/running": whatever
\* the worker, a crash and prune_plans do, finish_plan finds the graph of every
\* row of a planner attempt that is not yet settled.
GraphsIntact ==
  \A a \in Plans :
    row[a].state # "finished" /\ files[a].rows => files[a].graph = "written"

\* "DB intent can always recreate them": a worker that systemd launches finds
\* its spec.json, even when the directory was lost after the intent committed.
SpecReady == \A a \in Attempt : worker[a] = "launched" => files[a].spec

\* "A missing exit record is not a success": a settled result other than
\* interrupted or cancelled is the one the worker published, and that worker
\* is not running any more.
ResultIsRecorded ==
  \A a \in Attempt :
    row[a].state = "finished" /\ row[a].verdict \in {"completed", "failed"}
      => files[a].exit = row[a].verdict /\ worker[a] # "executing"

\* A settled row never changes again, except that exclude-kernels reclassifies
\* a cancelled build: no later tick, cancel, restart or late worker result
\* rewrites what history recorded.
SettledIsFinal ==
  [][\A a \in Attempt : row[a].state = "finished" =>
       \/ row'[a] = row[a]
       \/ /\ row[a].verdict = "cancelled"
          /\ row'[a] = [row[a] EXCEPT !.verdict = "excluded"]]_vars

\* The protocol implements the contract: opened once, settled at most once,
\* executed at most once and never before the intent is committed.
PhaseOf(state) == IF state = "none" THEN "none"
                  ELSE IF state = "finished" THEN "settled" ELSE "open"
Phase == [a \in Attempt |-> PhaseOf(row[a].state)]
Contract == INSTANCE AttemptContract WITH phase <- Phase
ContractSpec == Contract!Spec

\* Every active attempt is eventually settled, through crashes, lost start
\* jobs, killed workers and power losses.
Settles == \A a \in Attempt : Active(a) ~> row[a].state = "finished"

\* Files are there when they are read, whatever crashes, cleaning and restarts
\* come between: a launched worker finds its spec, and finish_plan the graph of
\* every row.
FilesInPlace == TypeOK /\ GraphsIntact /\ SpecReady
=============================================================================
