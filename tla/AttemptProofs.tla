---------------------------- MODULE AttemptProofs ----------------------------
(***************************************************************************)
(* Theorems about Attempt, for every set of attempts and every number of   *)
(* faults.                                                                 *)
(***************************************************************************)
EXTENDS Attempt, TLAPS

\* The per-attempt part of the inductive invariant: what systemd, the worker
\* and the disk can hold for an attempt in each state of its row.
NothingBeforeIntent(a) ==
  row[a].state = "none" =>
    /\ unit[a].state = "inactive" /\ ~unit[a].job
    /\ worker[a] = "none"
    /\ ~files[a].started

RunOnce(a) == ran[a] = IF files[a].started THEN 1 ELSE 0

FilesOrdered(a) ==
  /\ ~files[a].started => /\ files[a].exit = "none"
                          /\ files[a].graph = "none"
                          /\ ~files[a].rows
  /\ worker[a] = "executing" => files[a].started /\ files[a].exit = "none"
  /\ files[a].rows => files[a].graph # "none"
  /\ files[a].graph = "pruned" => row[a].state = "finished"

SpecBeforeLaunch(a) ==
  unit[a].job \/ worker[a] = "launched" => files[a].spec

VerdictRecorded(a) ==
  row[a].state = "finished" /\ row[a].verdict \in {"completed", "failed"}
    => files[a].exit = row[a].verdict

\* Where the controller thread stands restricts the row it is working on.
ControllerPosition ==
  /\ ctl.pc = "intent" => ctl.at \in Attempt /\ row[ctl.at].state = "none"
  /\ ctl.pc \in {"noexit", "active", "inactive", "launch", "commit", "cancel"}
       => ctl.at \in Attempt /\ Active(ctl.at)
  /\ ctl.pc \in {"noexit", "inactive", "launch"} => files[ctl.at].spec
  /\ ctl.pc = "commit" /\ ctl.verdict \in {"completed", "failed"}
       => files[ctl.at].exit = ctl.verdict

IInv ==
  /\ TypeOK
  /\ \A a \in Attempt : NothingBeforeIntent(a)
  /\ \A a \in Attempt : RunOnce(a)
  /\ \A a \in Attempt : FilesOrdered(a)
  /\ \A a \in Attempt : SpecBeforeLaunch(a)
  /\ \A a \in Attempt : VerdictRecorded(a)
  /\ ControllerPosition

USE AttemptAssumption DEF WorkerReason, Verdict

\* The initial state satisfies the inductive invariant.
LEMMA InitInv == Init => IInv
BY DEF Init, IInv, TypeOK, RowType, FilesType, UnitType, ControllerType,
       NoFiles, Idle, NothingBeforeIntent, RunOnce, FilesOrdered,
       SpecBeforeLaunch, VerdictRecorded, ControllerPosition

\* The two systemctl calls leave systemd's view of every unit well formed.
LEMMA UnitsStartType ==
  ASSUME TypeOK, NEW a \in Attempt, UnitsStart(a)
  PROVE  unit' \in [Attempt -> UnitType]
<1>1. [unit[a] EXCEPT !.job = @ \/ unit[a].state # "active"] \in UnitType
  BY DEF TypeOK, UnitType
<1> QED BY <1>1 DEF UnitsStart, TypeOK

\* Units that stop have a state and a result still.
LEMMA UnitsStopType ==
  ASSUME TypeOK, NEW a \in Attempt, UnitsStop(a)
  PROVE  unit' \in [Attempt -> UnitType]
<1>1. [state |-> IF unit[a].state = "active" THEN "stopping" ELSE unit[a].state,
       job |-> FALSE] \in UnitType
  BY DEF TypeOK, UnitType
<1> QED BY <1>1 DEF UnitsStop, TypeOK

\* Every step keeps the state well typed.
LEMMA TypeStep == TypeOK /\ [Next]_vars => TypeOK'
<1> SUFFICES ASSUME TypeOK, [Next]_vars PROVE TypeOK'
  OBVIOUS
<1>1. ASSUME NEW a \in Attempt, IntentFiles(a) PROVE TypeOK'
  <2>1. files' \in [Attempt -> FilesType]
    BY <1>1, ZenonT(30) DEF IntentFiles, TypeOK, FilesType
  <2>2. ctl' \in ControllerType
    BY <1>1 DEF IntentFiles, Goto, TypeOK, ControllerType
  <2> QED BY <1>1, <2>1, <2>2 DEF IntentFiles, TypeOK
<1>2. ASSUME NEW a \in Attempt, IntentCommit(a) PROVE TypeOK'
  BY <1>2 DEF IntentCommit, Idle, TypeOK, RowType, ControllerType
<1>3. ASSUME NEW a \in Attempt, ReconcileRead(a) PROVE TypeOK'
  <2>1. files' \in [Attempt -> FilesType]
    BY <1>3, ZenonT(30) DEF ReconcileRead, TypeOK, FilesType
  <2>2. ctl' \in ControllerType
    BY <1>3 DEF ReconcileRead, Goto, Decide, TypeOK, FilesType, ControllerType
  <2> QED BY <1>3, <2>1, <2>2 DEF ReconcileRead, TypeOK
<1>4. ASSUME NEW a \in Attempt, ReconcileUnit(a) PROVE TypeOK'
  <2>1. unit' \in [Attempt -> UnitType]
    BY <1>4, UnitsStopType DEF ReconcileUnit, TypeOK
  <2>2. ctl' \in ControllerType
    BY <1>4 DEF ReconcileUnit, Goto, TypeOK, ControllerType
  <2> QED BY <1>4, <2>1, <2>2 DEF ReconcileUnit, TypeOK
<1>5. ASSUME NEW a \in Attempt, ReconcileRunning(a) PROVE TypeOK'
  BY <1>5 DEF ReconcileRunning, Idle, TypeOK, RowType, ControllerType
<1>6. ASSUME NEW a \in Attempt, ReconcileLaunch(a) PROVE TypeOK'
  BY <1>6 DEF ReconcileLaunch, Goto, Decide, TypeOK, ControllerType
<1>7. ASSUME NEW a \in Attempt, ReconcileStart(a) PROVE TypeOK'
  <2>1. unit' \in [Attempt -> UnitType]
    BY <1>7, UnitsStartType DEF ReconcileStart, TypeOK
  <2>2. ctl' \in ControllerType
    BY <1>7 DEF ReconcileStart, Idle, TypeOK, ControllerType
  <2> QED BY <1>7, <2>1, <2>2 DEF ReconcileStart, TypeOK
<1>8. ASSUME NEW a \in Attempt, ReconcileLost(a) PROVE TypeOK'
  BY <1>8 DEF ReconcileLost, Decide, TypeOK, ControllerType
<1>9. ASSUME NEW a \in Attempt, ReconcileCommit(a) PROVE TypeOK'
  <2>1. row' \in [Attempt -> RowType]
    BY <1>9 DEF ReconcileCommit, TypeOK, RowType, ControllerType
  <2>2. ctl' \in ControllerType
    BY <1>9 DEF ReconcileCommit, Idle, TypeOK, ControllerType
  <2> QED BY <1>9, <2>1, <2>2 DEF ReconcileCommit, TypeOK
<1>10. ASSUME NEW a \in Attempt, CancelCommit(a) PROVE TypeOK'
  <2>1. row' \in [Attempt -> RowType]
    BY <1>10, ZenonT(30) DEF CancelCommit, TypeOK, RowType
  <2>2. ctl' \in ControllerType
    BY <1>10 DEF CancelCommit, Goto, TypeOK, ControllerType
  <2> QED BY <1>10, <2>1, <2>2 DEF CancelCommit, TypeOK
<1>11. ASSUME NEW a \in Attempt, CancelStop(a) PROVE TypeOK'
  <2>1. unit' \in [Attempt -> UnitType]
    BY <1>11, UnitsStopType DEF CancelStop, TypeOK
  <2>2. ctl' \in ControllerType
    BY <1>11 DEF CancelStop, Idle, TypeOK, ControllerType
  <2> QED BY <1>11, <2>1, <2>2 DEF CancelStop, TypeOK
<1>12. ASSUME NEW a \in Attempt, Launch(a) PROVE TypeOK'
  BY <1>12 DEF Launch, TypeOK, UnitType
<1>13. ASSUME NEW a \in Attempt, StartLost(a) PROVE TypeOK'
  <2>1. unit' \in [Attempt -> UnitType]
    BY <1>13 DEF StartLost, Fault, TypeOK, UnitType
  <2> QED BY <1>13, <2>1 DEF StartLost, Fault, TypeOK
<1>14. ASSUME NEW a \in Attempt, RuntimeLimit(a) PROVE TypeOK'
  BY <1>14 DEF RuntimeLimit, TypeOK, UnitType
<1>15. ASSUME NEW a \in Attempt, UnitDown(a) PROVE TypeOK'
  BY <1>15 DEF UnitDown, UnitActive, TypeOK, UnitType
<1>16. ASSUME NEW a \in Attempt, WorkerBegin(a) PROVE TypeOK'
  <2>1. files' \in [Attempt -> FilesType]
    BY <1>16, ZenonT(30) DEF WorkerBegin, TypeOK, FilesType
  <2> QED BY <1>16, <2>1 DEF WorkerBegin, TypeOK
<1>17. ASSUME NEW a \in Attempt, WorkerSkip(a) PROVE TypeOK'
  BY <1>17 DEF WorkerSkip, TypeOK
<1>18. ASSUME NEW a \in Attempt, WorkerGraph(a) PROVE TypeOK'
  BY <1>18 DEF WorkerGraph, TypeOK, FilesType
<1>19. ASSUME NEW a \in Attempt, WorkerRow(a) PROVE TypeOK'
  BY <1>19, ZenonT(30) DEF WorkerRow, TypeOK, FilesType
<1>20. ASSUME NEW a \in Attempt, NEW reason \in WorkerReason,
             WorkerExit(a, reason)
      PROVE  TypeOK'
  BY <1>20 DEF WorkerExit, TypeOK, FilesType
<1>21. ASSUME NEW a \in Attempt, WorkerStopped(a) PROVE TypeOK'
  BY <1>21 DEF WorkerStopped, TypeOK
<1>22. ASSUME NEW a \in Attempt, WorkerDie(a) PROVE TypeOK'
  BY <1>22 DEF WorkerDie, Fault, TypeOK
<1>23. ASSUME NEW a \in Attempt, Prune(a) PROVE TypeOK'
  BY <1>23 DEF Prune, TypeOK, FilesType
<1>27. ASSUME NEW a \in Attempt, Reclassify(a) PROVE TypeOK'
  BY <1>27 DEF Reclassify, TypeOK, RowType
<1>24. CASE ControllerCrash
  BY <1>24 DEF ControllerCrash, Fault, Idle, TypeOK, ControllerType
<1>25. CASE PowerLoss
  BY <1>25 DEF PowerLoss, Fault, NoFiles, Idle, TypeOK, ControllerType,
     UnitType, FilesType
<1>26. CASE UNCHANGED vars
  BY <1>26 DEF vars, TypeOK
<1> QED
  BY <1>1, <1>2, <1>3, <1>4, <1>5, <1>6, <1>7, <1>8, <1>9, <1>10, <1>11,
     <1>12, <1>13, <1>14, <1>15, <1>16, <1>17, <1>18, <1>19, <1>20, <1>21, <1>22,
     <1>23, <1>24, <1>25, <1>26, <1>27 DEF Next, Controller, Systemd, Worker

\* Every step of the controller, systemd, a worker, the cleaner or a fault
\* preserves the inductive invariant.
LEMMA StepInv == IInv /\ [Next]_vars => IInv'
<1> SUFFICES ASSUME IInv, [Next]_vars PROVE IInv'
  OBVIOUS
<1>0. TypeOK /\ TypeOK'
  BY TypeStep DEF IInv
<1> USE <1>0 DEF IInv, Active, At, Goto, Decide, Idle
<1>1. ASSUME NEW a \in Attempt, IntentFiles(a) PROVE IInv'
  <2>1. (\A b \in Attempt : NothingBeforeIntent(b))'
    BY <1>1 DEF IntentFiles, TypeOK, UnitType, NothingBeforeIntent,
       ControllerPosition
  <2>2. (\A b \in Attempt : RunOnce(b))'
    BY <1>1 DEF IntentFiles, TypeOK, RowType, FilesType, RunOnce
  <2>3. (\A b \in Attempt : FilesOrdered(b))'
    BY <1>1 DEF IntentFiles, TypeOK, RowType, FilesType, FilesOrdered,
       ControllerPosition
  <2>4. (\A b \in Attempt : SpecBeforeLaunch(b))'
    BY <1>1 DEF IntentFiles, TypeOK, UnitType, FilesType, SpecBeforeLaunch,
       ControllerPosition
  <2>5. (\A b \in Attempt : VerdictRecorded(b))'
    BY <1>1 DEF IntentFiles, TypeOK, RowType, FilesType, FilesOrdered,
       VerdictRecorded, ControllerPosition
  <2>6. ControllerPosition'
    BY <1>1 DEF IntentFiles, TypeOK, RowType, FilesType, ControllerType,
       FilesOrdered, ControllerPosition
  <2> QED BY <2>1, <2>2, <2>3, <2>4, <2>5, <2>6
<1>2. ASSUME NEW a \in Attempt, IntentCommit(a) PROVE IInv'
  <2>1. (\A b \in Attempt : NothingBeforeIntent(b))'
    BY <1>2 DEF IntentCommit, TypeOK, UnitType, NothingBeforeIntent,
       ControllerPosition
  <2>2. (\A b \in Attempt : FilesOrdered(b))'
    BY <1>2 DEF IntentCommit, TypeOK, RowType, FilesType, FilesOrdered,
       ControllerPosition
  <2>3. (\A b \in Attempt : VerdictRecorded(b))'
    BY <1>2 DEF IntentCommit, TypeOK, RowType, FilesType, FilesOrdered,
       VerdictRecorded, ControllerPosition
  <2>4. ControllerPosition'
    BY <1>2 DEF IntentCommit, TypeOK, RowType, FilesType, ControllerType,
       FilesOrdered, ControllerPosition
  <2>5. /\ (\A b \in Attempt : RunOnce(b))'
        /\ (\A b \in Attempt : SpecBeforeLaunch(b))'
    BY <1>2 DEF IntentCommit, RunOnce, SpecBeforeLaunch
  <2> QED BY <2>1, <2>2, <2>3, <2>4, <2>5
<1>3. ASSUME NEW a \in Attempt, ReconcileRead(a) PROVE IInv'
  <2>1. (\A b \in Attempt : NothingBeforeIntent(b))'
    BY <1>3 DEF ReconcileRead, TypeOK, UnitType, NothingBeforeIntent,
       ControllerPosition
  <2>2. (\A b \in Attempt : RunOnce(b))'
    BY <1>3 DEF ReconcileRead, TypeOK, RowType, FilesType, RunOnce
  <2>3. (\A b \in Attempt : FilesOrdered(b))'
    BY <1>3 DEF ReconcileRead, TypeOK, RowType, FilesType, FilesOrdered,
       ControllerPosition
  <2>4. (\A b \in Attempt : SpecBeforeLaunch(b))'
    BY <1>3 DEF ReconcileRead, TypeOK, UnitType, FilesType, SpecBeforeLaunch,
       ControllerPosition
  <2>5. (\A b \in Attempt : VerdictRecorded(b))'
    BY <1>3 DEF ReconcileRead, TypeOK, RowType, FilesType, FilesOrdered,
       VerdictRecorded, ControllerPosition
  <2>6. ControllerPosition'
    BY <1>3 DEF ReconcileRead, TypeOK, RowType, FilesType, ControllerType,
       FilesOrdered, ControllerPosition
  <2> QED BY <2>1, <2>2, <2>3, <2>4, <2>5, <2>6
<1>4. ASSUME NEW a \in Attempt, ReconcileUnit(a) PROVE IInv'
  <2>1. (\A b \in Attempt : NothingBeforeIntent(b))'
    BY <1>4 DEF ReconcileUnit, UnitActive, UnitsStop, TypeOK, UnitType,
       NothingBeforeIntent, ControllerPosition
  <2>2. (\A b \in Attempt : SpecBeforeLaunch(b))'
    BY <1>4 DEF ReconcileUnit, UnitActive, UnitsStop, TypeOK, UnitType,
       FilesType, SpecBeforeLaunch, ControllerPosition
  <2>3. ControllerPosition'
    BY <1>4 DEF ReconcileUnit, UnitActive, UnitsStop, TypeOK, RowType,
       FilesType, ControllerType, FilesOrdered, ControllerPosition
  <2>4. /\ (\A b \in Attempt : RunOnce(b))'
        /\ (\A b \in Attempt : FilesOrdered(b))'
        /\ (\A b \in Attempt : VerdictRecorded(b))'
    BY <1>4 DEF ReconcileUnit, RunOnce, FilesOrdered, VerdictRecorded
  <2> QED BY <2>1, <2>2, <2>3, <2>4
<1>5. ASSUME NEW a \in Attempt, ReconcileRunning(a) PROVE IInv'
  <2>1. (\A b \in Attempt : NothingBeforeIntent(b))'
    BY <1>5 DEF ReconcileRunning, TypeOK, UnitType, NothingBeforeIntent,
       ControllerPosition
  <2>2. (\A b \in Attempt : FilesOrdered(b))'
    BY <1>5 DEF ReconcileRunning, TypeOK, RowType, FilesType, FilesOrdered,
       ControllerPosition
  <2>3. (\A b \in Attempt : VerdictRecorded(b))'
    BY <1>5 DEF ReconcileRunning, TypeOK, RowType, FilesType, FilesOrdered,
       VerdictRecorded, ControllerPosition
  <2>4. ControllerPosition'
    BY <1>5 DEF ReconcileRunning, TypeOK, RowType, FilesType, ControllerType,
       FilesOrdered, ControllerPosition
  <2>5. /\ (\A b \in Attempt : RunOnce(b))'
        /\ (\A b \in Attempt : SpecBeforeLaunch(b))'
    BY <1>5 DEF ReconcileRunning, RunOnce, SpecBeforeLaunch
  <2> QED BY <2>1, <2>2, <2>3, <2>4, <2>5
<1>6. ASSUME NEW a \in Attempt, ReconcileLaunch(a) PROVE IInv'
  <2>1. ControllerPosition'
    BY <1>6 DEF ReconcileLaunch, TypeOK, RowType, FilesType, ControllerType,
       FilesOrdered, ControllerPosition
  <2>2. /\ (\A b \in Attempt : NothingBeforeIntent(b))'
        /\ (\A b \in Attempt : RunOnce(b))'
        /\ (\A b \in Attempt : FilesOrdered(b))'
        /\ (\A b \in Attempt : SpecBeforeLaunch(b))'
        /\ (\A b \in Attempt : VerdictRecorded(b))'
    BY <1>6 DEF ReconcileLaunch, NothingBeforeIntent, RunOnce, FilesOrdered,
       SpecBeforeLaunch, VerdictRecorded
  <2> QED BY <2>1, <2>2
<1>7. ASSUME NEW a \in Attempt, ReconcileStart(a) PROVE IInv'
  <2>1. (\A b \in Attempt : NothingBeforeIntent(b))'
    BY <1>7 DEF ReconcileStart, UnitsStart, TypeOK, UnitType,
       NothingBeforeIntent, ControllerPosition
  <2>2. (\A b \in Attempt : SpecBeforeLaunch(b))'
    BY <1>7 DEF ReconcileStart, UnitsStart, TypeOK, UnitType, FilesType,
       SpecBeforeLaunch, ControllerPosition
  <2>3. ControllerPosition'
    BY <1>7 DEF ReconcileStart, UnitsStart, TypeOK, RowType, FilesType,
       ControllerType, FilesOrdered, ControllerPosition
  <2>4. /\ (\A b \in Attempt : RunOnce(b))'
        /\ (\A b \in Attempt : FilesOrdered(b))'
        /\ (\A b \in Attempt : VerdictRecorded(b))'
    BY <1>7 DEF ReconcileStart, RunOnce, FilesOrdered, VerdictRecorded
  <2> QED BY <2>1, <2>2, <2>3, <2>4
<1>8. ASSUME NEW a \in Attempt, ReconcileLost(a) PROVE IInv'
  <2>1. ControllerPosition'
    BY <1>8 DEF ReconcileLost, TypeOK, RowType, FilesType, ControllerType,
       FilesOrdered, ControllerPosition
  <2>2. /\ (\A b \in Attempt : NothingBeforeIntent(b))'
        /\ (\A b \in Attempt : RunOnce(b))'
        /\ (\A b \in Attempt : FilesOrdered(b))'
        /\ (\A b \in Attempt : SpecBeforeLaunch(b))'
        /\ (\A b \in Attempt : VerdictRecorded(b))'
    BY <1>8 DEF ReconcileLost, NothingBeforeIntent, RunOnce, FilesOrdered,
       SpecBeforeLaunch, VerdictRecorded
  <2> QED BY <2>1, <2>2
<1>9. ASSUME NEW a \in Attempt, ReconcileCommit(a) PROVE IInv'
  <2>1. (\A b \in Attempt : NothingBeforeIntent(b))'
    BY <1>9 DEF ReconcileCommit, TypeOK, UnitType, NothingBeforeIntent,
       ControllerPosition
  <2>2. (\A b \in Attempt : FilesOrdered(b))'
    BY <1>9 DEF ReconcileCommit, TypeOK, RowType, FilesType, FilesOrdered,
       ControllerPosition
  <2>3. (\A b \in Attempt : VerdictRecorded(b))'
    BY <1>9 DEF ReconcileCommit, TypeOK, RowType, FilesType, FilesOrdered,
       VerdictRecorded, ControllerPosition
  <2>4. ControllerPosition'
    BY <1>9 DEF ReconcileCommit, TypeOK, RowType, FilesType, ControllerType,
       FilesOrdered, ControllerPosition
  <2>5. /\ (\A b \in Attempt : RunOnce(b))'
        /\ (\A b \in Attempt : SpecBeforeLaunch(b))'
    BY <1>9 DEF ReconcileCommit, RunOnce, SpecBeforeLaunch
  <2> QED BY <2>1, <2>2, <2>3, <2>4, <2>5
<1>10. ASSUME NEW a \in Attempt, CancelCommit(a) PROVE IInv'
  <2>1. (\A b \in Attempt : NothingBeforeIntent(b))'
    BY <1>10 DEF CancelCommit, TypeOK, UnitType, NothingBeforeIntent,
       ControllerPosition
  <2>2. (\A b \in Attempt : FilesOrdered(b))'
    BY <1>10 DEF CancelCommit, TypeOK, RowType, FilesType, FilesOrdered,
       ControllerPosition
  <2>3. (\A b \in Attempt : VerdictRecorded(b))'
    BY <1>10 DEF CancelCommit, TypeOK, RowType, FilesType, FilesOrdered,
       VerdictRecorded, ControllerPosition
  <2>4. ControllerPosition'
    BY <1>10 DEF CancelCommit, TypeOK, RowType, FilesType, ControllerType,
       FilesOrdered, ControllerPosition
  <2>5. /\ (\A b \in Attempt : RunOnce(b))'
        /\ (\A b \in Attempt : SpecBeforeLaunch(b))'
    BY <1>10 DEF CancelCommit, RunOnce, SpecBeforeLaunch
  <2> QED BY <2>1, <2>2, <2>3, <2>4, <2>5
<1>11. ASSUME NEW a \in Attempt, CancelStop(a) PROVE IInv'
  <2>1. (\A b \in Attempt : NothingBeforeIntent(b))'
    BY <1>11 DEF CancelStop, UnitActive, UnitsStop, TypeOK, UnitType,
       NothingBeforeIntent, ControllerPosition
  <2>2. (\A b \in Attempt : SpecBeforeLaunch(b))'
    BY <1>11 DEF CancelStop, UnitActive, UnitsStop, TypeOK, UnitType,
       FilesType, SpecBeforeLaunch, ControllerPosition
  <2>3. ControllerPosition'
    BY <1>11 DEF CancelStop, UnitActive, UnitsStop, TypeOK, RowType,
       FilesType, ControllerType, FilesOrdered, ControllerPosition
  <2>4. /\ (\A b \in Attempt : RunOnce(b))'
        /\ (\A b \in Attempt : FilesOrdered(b))'
        /\ (\A b \in Attempt : VerdictRecorded(b))'
    BY <1>11 DEF CancelStop, RunOnce, FilesOrdered, VerdictRecorded
  <2> QED BY <2>1, <2>2, <2>3, <2>4
<1>12. ASSUME NEW a \in Attempt, Launch(a) PROVE IInv'
  <2>1. (\A b \in Attempt : NothingBeforeIntent(b))'
    BY <1>12 DEF Launch, TypeOK, UnitType, NothingBeforeIntent,
       ControllerPosition
  <2>2. (\A b \in Attempt : FilesOrdered(b))'
    BY <1>12 DEF Launch, TypeOK, RowType, FilesType, FilesOrdered,
       ControllerPosition
  <2>3. (\A b \in Attempt : SpecBeforeLaunch(b))'
    BY <1>12 DEF Launch, TypeOK, UnitType, FilesType, SpecBeforeLaunch,
       ControllerPosition
  <2>4. /\ (\A b \in Attempt : RunOnce(b))'
        /\ (\A b \in Attempt : VerdictRecorded(b))'
        /\ ControllerPosition'
    BY <1>12 DEF Launch, RunOnce, VerdictRecorded, ControllerPosition
  <2> QED BY <2>1, <2>2, <2>3, <2>4
<1>13. ASSUME NEW a \in Attempt, StartLost(a) PROVE IInv'
  <2>1. (\A b \in Attempt : NothingBeforeIntent(b))'
    BY <1>13 DEF StartLost, Fault, TypeOK, UnitType, NothingBeforeIntent,
       ControllerPosition
  <2>2. (\A b \in Attempt : SpecBeforeLaunch(b))'
    BY <1>13 DEF StartLost, Fault, TypeOK, UnitType, FilesType,
       SpecBeforeLaunch, ControllerPosition
  <2>3. /\ (\A b \in Attempt : RunOnce(b))'
        /\ (\A b \in Attempt : FilesOrdered(b))'
        /\ (\A b \in Attempt : VerdictRecorded(b))'
        /\ ControllerPosition'
    BY <1>13 DEF StartLost, RunOnce, FilesOrdered, VerdictRecorded,
       ControllerPosition
  <2> QED BY <2>1, <2>2, <2>3
<1>14. ASSUME NEW a \in Attempt, RuntimeLimit(a) PROVE IInv'
  <2>1. (\A b \in Attempt : NothingBeforeIntent(b))'
    BY <1>14 DEF RuntimeLimit, TypeOK, UnitType, NothingBeforeIntent,
       ControllerPosition
  <2>2. (\A b \in Attempt : SpecBeforeLaunch(b))'
    BY <1>14 DEF RuntimeLimit, TypeOK, UnitType, FilesType, SpecBeforeLaunch,
       ControllerPosition
  <2>3. /\ (\A b \in Attempt : RunOnce(b))'
        /\ (\A b \in Attempt : FilesOrdered(b))'
        /\ (\A b \in Attempt : VerdictRecorded(b))'
        /\ ControllerPosition'
    BY <1>14 DEF RuntimeLimit, RunOnce, FilesOrdered, VerdictRecorded,
       ControllerPosition
  <2> QED BY <2>1, <2>2, <2>3
<1>15. ASSUME NEW a \in Attempt, UnitDown(a) PROVE IInv'
  <2>1. (\A b \in Attempt : NothingBeforeIntent(b))'
    BY <1>15 DEF UnitDown, UnitActive, TypeOK, UnitType, NothingBeforeIntent,
       ControllerPosition
  <2>2. (\A b \in Attempt : SpecBeforeLaunch(b))'
    BY <1>15 DEF UnitDown, UnitActive, TypeOK, UnitType, FilesType,
       SpecBeforeLaunch, ControllerPosition
  <2>3. /\ (\A b \in Attempt : RunOnce(b))'
        /\ (\A b \in Attempt : FilesOrdered(b))'
        /\ (\A b \in Attempt : VerdictRecorded(b))'
        /\ ControllerPosition'
    BY <1>15 DEF UnitDown, RunOnce, FilesOrdered, VerdictRecorded,
       ControllerPosition
  <2> QED BY <2>1, <2>2, <2>3
<1>16. ASSUME NEW a \in Attempt, WorkerBegin(a) PROVE IInv'
  <2>1. (\A b \in Attempt : NothingBeforeIntent(b))'
    BY <1>16 DEF WorkerBegin, TypeOK, UnitType, NothingBeforeIntent,
       ControllerPosition
  <2>2. (\A b \in Attempt : RunOnce(b))'
    BY <1>16 DEF WorkerBegin, TypeOK, RowType, FilesType, RunOnce
  <2>3. (\A b \in Attempt : FilesOrdered(b))'
    BY <1>16 DEF WorkerBegin, TypeOK, RowType, FilesType, FilesOrdered,
       ControllerPosition
  <2>4. (\A b \in Attempt : SpecBeforeLaunch(b))'
    BY <1>16 DEF WorkerBegin, TypeOK, UnitType, FilesType, SpecBeforeLaunch,
       ControllerPosition
  <2>5. (\A b \in Attempt : VerdictRecorded(b))'
    BY <1>16 DEF WorkerBegin, TypeOK, RowType, FilesType, FilesOrdered,
       VerdictRecorded, ControllerPosition
  <2>6. ControllerPosition'
    BY <1>16 DEF WorkerBegin, TypeOK, RowType, FilesType, ControllerType,
       FilesOrdered, ControllerPosition
  <2> QED BY <2>1, <2>2, <2>3, <2>4, <2>5, <2>6
<1>17. ASSUME NEW a \in Attempt, WorkerSkip(a) PROVE IInv'
  <2>1. (\A b \in Attempt : NothingBeforeIntent(b))'
    BY <1>17 DEF WorkerSkip, TypeOK, UnitType, NothingBeforeIntent,
       ControllerPosition
  <2>2. (\A b \in Attempt : FilesOrdered(b))'
    BY <1>17 DEF WorkerSkip, TypeOK, RowType, FilesType, FilesOrdered,
       ControllerPosition
  <2>3. (\A b \in Attempt : SpecBeforeLaunch(b))'
    BY <1>17 DEF WorkerSkip, TypeOK, UnitType, FilesType, SpecBeforeLaunch,
       ControllerPosition
  <2>4. /\ (\A b \in Attempt : RunOnce(b))'
        /\ (\A b \in Attempt : VerdictRecorded(b))'
        /\ ControllerPosition'
    BY <1>17 DEF WorkerSkip, RunOnce, VerdictRecorded, ControllerPosition
  <2> QED BY <2>1, <2>2, <2>3, <2>4
<1>18. ASSUME NEW a \in Attempt, WorkerGraph(a) PROVE IInv'
  <2>1. (\A b \in Attempt : NothingBeforeIntent(b))'
    BY <1>18 DEF WorkerGraph, TypeOK, UnitType, NothingBeforeIntent,
       ControllerPosition
  <2>2. (\A b \in Attempt : RunOnce(b))'
    BY <1>18 DEF WorkerGraph, TypeOK, RowType, FilesType, RunOnce
  <2>3. (\A b \in Attempt : FilesOrdered(b))'
    BY <1>18 DEF WorkerGraph, TypeOK, RowType, FilesType, FilesOrdered,
       ControllerPosition
  <2>4. (\A b \in Attempt : SpecBeforeLaunch(b))'
    BY <1>18 DEF WorkerGraph, TypeOK, UnitType, FilesType, SpecBeforeLaunch,
       ControllerPosition
  <2>5. (\A b \in Attempt : VerdictRecorded(b))'
    BY <1>18 DEF WorkerGraph, TypeOK, RowType, FilesType, FilesOrdered,
       VerdictRecorded, ControllerPosition
  <2>6. ControllerPosition'
    BY <1>18 DEF WorkerGraph, TypeOK, RowType, FilesType, ControllerType,
       FilesOrdered, ControllerPosition
  <2> QED BY <2>1, <2>2, <2>3, <2>4, <2>5, <2>6
<1>19. ASSUME NEW a \in Attempt, WorkerRow(a) PROVE IInv'
  <2>1. (\A b \in Attempt : NothingBeforeIntent(b))'
    BY <1>19 DEF WorkerRow, TypeOK, UnitType, NothingBeforeIntent,
       ControllerPosition
  <2>2. (\A b \in Attempt : RunOnce(b))'
    BY <1>19 DEF WorkerRow, TypeOK, RowType, FilesType, RunOnce
  <2>3. (\A b \in Attempt : FilesOrdered(b))'
    BY <1>19 DEF WorkerRow, TypeOK, RowType, FilesType, FilesOrdered,
       ControllerPosition
  <2>4. (\A b \in Attempt : SpecBeforeLaunch(b))'
    BY <1>19 DEF WorkerRow, TypeOK, UnitType, FilesType, SpecBeforeLaunch,
       ControllerPosition
  <2>5. (\A b \in Attempt : VerdictRecorded(b))'
    BY <1>19 DEF WorkerRow, TypeOK, RowType, FilesType, FilesOrdered,
       VerdictRecorded, ControllerPosition
  <2>6. ControllerPosition'
    BY <1>19 DEF WorkerRow, TypeOK, RowType, FilesType, ControllerType,
       FilesOrdered, ControllerPosition
  <2> QED BY <2>1, <2>2, <2>3, <2>4, <2>5, <2>6
<1>20. ASSUME NEW a \in Attempt, NEW reason \in WorkerReason,
             WorkerExit(a, reason)
      PROVE  IInv'
  <2>1. (\A b \in Attempt : NothingBeforeIntent(b))'
    BY <1>20 DEF WorkerExit, TypeOK, UnitType, NothingBeforeIntent,
       ControllerPosition
  <2>2. (\A b \in Attempt : RunOnce(b))'
    BY <1>20 DEF WorkerExit, TypeOK, RowType, FilesType, RunOnce
  <2>3. (\A b \in Attempt : FilesOrdered(b))'
    BY <1>20 DEF WorkerExit, TypeOK, RowType, FilesType, FilesOrdered,
       ControllerPosition
  <2>4. (\A b \in Attempt : SpecBeforeLaunch(b))'
    BY <1>20 DEF WorkerExit, TypeOK, UnitType, FilesType, SpecBeforeLaunch,
       ControllerPosition
  <2>5. (\A b \in Attempt : VerdictRecorded(b))'
    BY <1>20 DEF WorkerExit, TypeOK, RowType, FilesType, FilesOrdered,
       VerdictRecorded, ControllerPosition
  <2>6. ControllerPosition'
    BY <1>20 DEF WorkerExit, TypeOK, RowType, FilesType, ControllerType,
       FilesOrdered, ControllerPosition
  <2> QED BY <2>1, <2>2, <2>3, <2>4, <2>5, <2>6
<1>21. ASSUME NEW a \in Attempt, WorkerStopped(a) PROVE IInv'
  <2>1. (\A b \in Attempt : NothingBeforeIntent(b))'
    BY <1>21 DEF WorkerStopped, TypeOK, UnitType, NothingBeforeIntent,
       ControllerPosition
  <2>2. (\A b \in Attempt : FilesOrdered(b))'
    BY <1>21 DEF WorkerStopped, TypeOK, RowType, FilesType, FilesOrdered,
       ControllerPosition
  <2>3. (\A b \in Attempt : SpecBeforeLaunch(b))'
    BY <1>21 DEF WorkerStopped, TypeOK, UnitType, FilesType, SpecBeforeLaunch,
       ControllerPosition
  <2>4. /\ (\A b \in Attempt : RunOnce(b))'
        /\ (\A b \in Attempt : VerdictRecorded(b))'
        /\ ControllerPosition'
    BY <1>21 DEF WorkerStopped, RunOnce, VerdictRecorded, ControllerPosition
  <2> QED BY <2>1, <2>2, <2>3, <2>4
<1>22. ASSUME NEW a \in Attempt, WorkerDie(a) PROVE IInv'
  <2>1. (\A b \in Attempt : NothingBeforeIntent(b))'
    BY <1>22 DEF WorkerDie, Fault, TypeOK, UnitType, NothingBeforeIntent,
       ControllerPosition
  <2>2. (\A b \in Attempt : FilesOrdered(b))'
    BY <1>22 DEF WorkerDie, Fault, TypeOK, RowType, FilesType, FilesOrdered,
       ControllerPosition
  <2>3. (\A b \in Attempt : SpecBeforeLaunch(b))'
    BY <1>22 DEF WorkerDie, Fault, TypeOK, UnitType, FilesType,
       SpecBeforeLaunch, ControllerPosition
  <2>4. /\ (\A b \in Attempt : RunOnce(b))'
        /\ (\A b \in Attempt : VerdictRecorded(b))'
        /\ ControllerPosition'
    BY <1>22 DEF WorkerDie, RunOnce, VerdictRecorded, ControllerPosition
  <2> QED BY <2>1, <2>2, <2>3, <2>4
<1>23. ASSUME NEW a \in Attempt, Prune(a) PROVE IInv'
  <2>1. (\A b \in Attempt : NothingBeforeIntent(b))'
    BY <1>23 DEF Prune, TypeOK, UnitType, NothingBeforeIntent,
       ControllerPosition
  <2>2. (\A b \in Attempt : RunOnce(b))'
    BY <1>23 DEF Prune, TypeOK, RowType, FilesType, RunOnce
  <2>3. (\A b \in Attempt : FilesOrdered(b))'
    BY <1>23 DEF Prune, TypeOK, RowType, FilesType, FilesOrdered,
       ControllerPosition
  <2>4. (\A b \in Attempt : SpecBeforeLaunch(b))'
    BY <1>23 DEF Prune, TypeOK, UnitType, FilesType, SpecBeforeLaunch,
       ControllerPosition
  <2>5. (\A b \in Attempt : VerdictRecorded(b))'
    BY <1>23 DEF Prune, TypeOK, RowType, FilesType, FilesOrdered,
       VerdictRecorded, ControllerPosition
  <2>6. ControllerPosition'
    BY <1>23 DEF Prune, TypeOK, RowType, FilesType, ControllerType,
       FilesOrdered, ControllerPosition
  <2> QED BY <2>1, <2>2, <2>3, <2>4, <2>5, <2>6
<1>27. ASSUME NEW a \in Attempt, Reclassify(a) PROVE IInv'
  <2>1. \A b \in Attempt : row'[b].state = row[b].state
    BY <1>27 DEF Reclassify, TypeOK, RowType
  <2>2. (\A b \in Attempt : VerdictRecorded(b))'
    BY <1>27 DEF Reclassify, TypeOK, RowType, VerdictRecorded
  <2>3. /\ (\A b \in Attempt : NothingBeforeIntent(b))'
        /\ (\A b \in Attempt : RunOnce(b))'
        /\ (\A b \in Attempt : FilesOrdered(b))'
        /\ (\A b \in Attempt : SpecBeforeLaunch(b))'
    BY <1>27, <2>1 DEF Reclassify, NothingBeforeIntent, RunOnce, FilesOrdered,
       SpecBeforeLaunch
  <2>4. ControllerPosition'
    BY <1>27 DEF Reclassify, ControllerPosition
  <2> QED BY <2>2, <2>3, <2>4
<1>24. CASE ControllerCrash
  <2>1. ControllerPosition'
    BY <1>24 DEF ControllerCrash, Fault, TypeOK, RowType, FilesType,
       ControllerType, FilesOrdered, ControllerPosition
  <2>2. /\ (\A b \in Attempt : NothingBeforeIntent(b))'
        /\ (\A b \in Attempt : RunOnce(b))'
        /\ (\A b \in Attempt : FilesOrdered(b))'
        /\ (\A b \in Attempt : SpecBeforeLaunch(b))'
        /\ (\A b \in Attempt : VerdictRecorded(b))'
    BY <1>24 DEF ControllerCrash, NothingBeforeIntent, RunOnce, FilesOrdered,
       SpecBeforeLaunch, VerdictRecorded
  <2> QED BY <2>1, <2>2
<1>25. CASE PowerLoss
  <2>1. (\A b \in Attempt : NothingBeforeIntent(b))'
    BY <1>25 DEF PowerLoss, Fault, NoFiles, TypeOK, UnitType,
       NothingBeforeIntent, ControllerPosition
  <2>2. (\A b \in Attempt : RunOnce(b))'
    BY <1>25 DEF PowerLoss, Fault, NoFiles, TypeOK, RowType, FilesType,
       RunOnce
  <2>3. (\A b \in Attempt : FilesOrdered(b))'
    BY <1>25 DEF PowerLoss, Fault, NoFiles, TypeOK, RowType, FilesType,
       FilesOrdered, ControllerPosition
  <2>4. (\A b \in Attempt : SpecBeforeLaunch(b))'
    BY <1>25 DEF PowerLoss, Fault, NoFiles, TypeOK, UnitType, FilesType,
       SpecBeforeLaunch, ControllerPosition
  <2>5. (\A b \in Attempt : VerdictRecorded(b))'
    BY <1>25 DEF PowerLoss, Fault, NoFiles, TypeOK, RowType, FilesType,
       FilesOrdered, VerdictRecorded, ControllerPosition
  <2>6. ControllerPosition'
    BY <1>25 DEF PowerLoss, Fault, NoFiles, TypeOK, RowType, FilesType,
       ControllerType, FilesOrdered, ControllerPosition
  <2> QED BY <2>1, <2>2, <2>3, <2>4, <2>5, <2>6
<1>26. CASE UNCHANGED vars
  BY <1>26 DEF vars, NothingBeforeIntent, RunOnce, FilesOrdered,
     SpecBeforeLaunch, VerdictRecorded, ControllerPosition
<1> QED
  BY <1>1, <1>2, <1>3, <1>4, <1>5, <1>6, <1>7, <1>8, <1>9, <1>10, <1>11,
     <1>12, <1>13, <1>14, <1>15, <1>16, <1>17, <1>18, <1>19, <1>20, <1>21, <1>22,
     <1>23, <1>24, <1>25, <1>26, <1>27 DEF Next, Controller, Systemd, Worker

\* Every reachable state is well typed and satisfies the inductive invariant.
THEOREM Invariance == Spec => []IInv
BY InitInv, StepInv, PTL DEF Spec

\* Type correctness of the protocol.
THEOREM TypeCorrect == Spec => []TypeOK
<1>1. IInv => TypeOK
  BY DEF IInv
<1> QED BY <1>1, Invariance, PTL

\* finish_plan finds the graph of every row of an unsettled planner attempt.
THEOREM GraphsStayIntact == Spec => []GraphsIntact
<1>1. IInv => GraphsIntact
  BY DEF IInv, TypeOK, RowType, FilesType, FilesOrdered, GraphsIntact
<1> QED BY <1>1, Invariance, PTL

\* A launched worker finds its spec.json.
THEOREM SpecAlwaysReady == Spec => []SpecReady
<1>1. IInv => SpecReady
  BY DEF IInv, SpecBeforeLaunch, SpecReady
<1> QED BY <1>1, Invariance, PTL

\* Files are there when they are read: finish_plan finds the graph of every row
\* of an unsettled planner attempt and a launched worker its spec.json.
THEOREM FilesStayInPlace == Spec => []FilesInPlace
BY TypeCorrect, GraphsStayIntact, SpecAlwaysReady, PTL DEF FilesInPlace

\* A success or a failure is settled only as the worker published it.
THEOREM ResultsAreRecorded == Spec => []ResultIsRecorded
<1>1. IInv => ResultIsRecorded
  BY DEF IInv, FilesOrdered, VerdictRecorded, ResultIsRecorded
<1> QED BY <1>1, Invariance, PTL

\* What may become of a settled row in one step.
Settled(a) ==
  \/ row'[a] = row[a]
  \/ /\ row[a].verdict = "cancelled"
     /\ row'[a] = [row[a] EXCEPT !.verdict = "excluded"]

\* A settled row never changes, reclassification aside: a handler of the
\* controller only writes the row it stands at, and no handler that settles or
\* cancels stands at a settled one.
THEOREM SettledForever == Spec => SettledIsFinal
<1>1. ASSUME IInv, [Next]_vars, NEW a \in Attempt, row[a].state = "finished"
      PROVE  Settled(a)
  <2> USE <1>1 DEF IInv, TypeOK, ControllerPosition, Active, At, Settled
  <2>1. CASE \E b \in Attempt : Controller(b) /\ ~Reclassify(b)
    BY <2>1 DEF Controller, IntentFiles, IntentCommit, ReconcileRead,
         ReconcileUnit, ReconcileRunning, ReconcileLaunch, ReconcileStart,
         ReconcileLost, ReconcileCommit, CancelCommit, CancelStop
  <2>2. CASE \E b \in Attempt : Systemd(b) \/ Worker(b) \/ Prune(b)
    BY <2>2 DEF Systemd, Launch, StartLost, RuntimeLimit, UnitDown, Worker,
         WorkerBegin, WorkerSkip, WorkerGraph, WorkerRow, WorkerExit,
         WorkerStopped, WorkerDie, Prune
  <2>3. CASE ControllerCrash \/ PowerLoss \/ UNCHANGED vars
    BY <2>3 DEF ControllerCrash, PowerLoss, vars
  <2>4. CASE \E b \in Attempt : Reclassify(b)
    BY <2>4 DEF Reclassify
  <2> QED BY <2>1, <2>2, <2>3, <2>4 DEF Next
<1>2. IInv /\ [Next]_vars =>
        [\A a \in Attempt : row[a].state = "finished" =>
           \/ row'[a] = row[a]
           \/ /\ row[a].verdict = "cancelled"
              /\ row'[a] = [row[a] EXCEPT !.verdict = "excluded"]]_vars
  BY <1>1 DEF Settled
<1> QED BY <1>2, Invariance, PTL DEF Spec, SettledIsFinal

\* A step that moves one row moves one phase.
LEMMA PhaseStep ==
  ASSUME NEW a \in Attempt, NEW s,
         \A b \in Attempt : row'[b].state = IF b = a THEN s ELSE row[b].state
  PROVE  Phase' = [Phase EXCEPT ![a] = PhaseOf(s)]
BY DEF Phase, PhaseOf

\* The protocol implements the contract of an attempt: an intent opens it, a
\* terminal transaction settles it, a worker runs it at most once, and every
\* other step is invisible at that level.
THEOREM Refinement == Spec => ContractSpec
<1>1. Init => Contract!Init
  BY DEF Init, Phase, PhaseOf, Contract!Init
<1>2. IInv /\ [Next]_vars => [Contract!Next]_Contract!vars
  <2> SUFFICES ASSUME IInv, [Next]_vars
               PROVE  Contract!Next \/ UNCHANGED Contract!vars
    OBVIOUS
  <2>1. ASSUME NEW a \in Attempt, IntentCommit(a) PROVE Contract!Open(a)
    <3>1. row[a].state = "none" /\ UNCHANGED ran
      BY <2>1 DEF IntentCommit, IInv, ControllerPosition, At
    <3>2. \A b \in Attempt : row'[b].state =
             IF b = a THEN "intended" ELSE row[b].state
      BY <2>1 DEF IntentCommit, IInv, TypeOK, RowType
    <3>3. Phase' = [Phase EXCEPT ![a] = PhaseOf("intended")]
      BY <3>2, PhaseStep
    <3> QED BY <3>1, <3>3 DEF Phase, PhaseOf, Contract!Open
  <2>2. ASSUME NEW a \in Attempt, WorkerBegin(a) PROVE Contract!Run(a)
    <3>1. row[a].state # "none" /\ ran[a] = 0 /\ UNCHANGED row
      BY <2>2 DEF WorkerBegin, IInv, NothingBeforeIntent, RunOnce
    <3>2. ran' = [ran EXCEPT ![a] = 1]
      BY <2>2, <3>1 DEF WorkerBegin, IInv, TypeOK
    <3> QED BY <3>1, <3>2 DEF Phase, PhaseOf, Contract!Run
  <2>3. ASSUME NEW a \in Attempt, ReconcileCommit(a) PROVE Contract!Settle(a)
    <3>1. row[a].state \in {"intended", "running"} /\ UNCHANGED ran
      BY <2>3 DEF ReconcileCommit, IInv, ControllerPosition, Active, At
    <3>2. \A b \in Attempt : row'[b].state =
             IF b = a THEN "finished" ELSE row[b].state
      BY <2>3 DEF ReconcileCommit, IInv, TypeOK, RowType
    <3>3. Phase' = [Phase EXCEPT ![a] = PhaseOf("finished")]
      BY <3>2, PhaseStep
    <3> QED BY <3>1, <3>3 DEF Phase, PhaseOf, Contract!Settle
  <2>4. ASSUME NEW a \in Attempt, ReconcileRunning(a) \/ CancelCommit(a)
        PROVE  UNCHANGED Contract!vars
    <3>1. /\ row[a].state \in {"intended", "running"} /\ UNCHANGED ran
          /\ row'[a].state \in {"intended", "running"}
          /\ \A b \in Attempt \ {a} : row'[b] = row[b]
      BY <2>4 DEF ReconcileRunning, CancelCommit, IInv, TypeOK, RowType,
         ControllerPosition, Active, At
    <3> QED BY <3>1 DEF Phase, PhaseOf, Contract!vars
  <2>6. ASSUME NEW a \in Attempt, Reclassify(a) PROVE UNCHANGED Contract!vars
    <3>1. UNCHANGED ran /\ \A b \in Attempt : row'[b].state = row[b].state
      BY <2>6 DEF Reclassify, IInv, TypeOK, RowType
    <3> QED BY <3>1 DEF Phase, PhaseOf, Contract!vars
  <2>5. CASE UNCHANGED <<row, ran>>
    BY <2>5 DEF Phase, Contract!vars
  <2> QED
    BY <2>1, <2>2, <2>3, <2>4, <2>5, <2>6 DEF Next, Controller, Systemd, Worker,
       IntentFiles, ReconcileRead, ReconcileUnit, ReconcileLaunch,
       ReconcileStart, ReconcileLost, CancelStop, Launch, StartLost,
       RuntimeLimit, UnitDown, WorkerSkip, WorkerGraph, WorkerRow, WorkerExit, WorkerStopped,
       WorkerDie, Prune, ControllerCrash, PowerLoss, vars, Contract!Next
<1> QED BY <1>1, <1>2, Invariance, PTL DEF Spec, ContractSpec, Contract!Spec
=============================================================================
