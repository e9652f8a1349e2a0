-------------------------- MODULE AgentTasks_proofs --------------------------
(***************************************************************************)
(* What holds of the task queue for any number of tasks and faults.        *)
(*                                                                         *)
(* Type correctness holds of every deployment.  The rest is about the one  *)
(* in which a single worker process handles every task (SingleWorker), the *)
(* deployment for which worker.py alone is started: there the inductive    *)
(* invariant WorkerInv ties the two rows of the task at hand to the place  *)
(* the worker has reached, and leaves all other tasks alone.               *)
(***************************************************************************)
EXTENDS AgentTasks, TLAPS

-----------------------------------------------------------------------------
\* Facts about the statuses.

\* Whatever Done is, the entity's table has the moves that the code makes.
LEMMA DoneMoves ==
    /\ Done \in RowStatuses
    /\ Done \notin {"absent", "queued", "running", "failed"}
    /\ AfterExcept(Done) = Done
    /\ <<"queued", "running">> \in EntityMoves[Done]
    /\ <<"running", Done>> \in EntityMoves[Done]
    /\ <<"running", "failed">> \in EntityMoves[Done]
<1>1. CASE Done = "completed"
  BY <1>1 DEF RowStatuses, DoneStatuses, AfterExcept, Active, EntityMoves,
              SearchMoves, CommonMoves
<1>2. CASE Done = "sent"
  BY <1>2 DEF RowStatuses, DoneStatuses, AfterExcept, Active, EntityMoves,
              AttemptMoves, CommonMoves
<1>3. CASE Done = "ready"
  BY <1>3 DEF RowStatuses, DoneStatuses, AfterExcept, Active, EntityMoves,
              DraftMoves, CommonMoves
<1>. QED BY <1>1, <1>2, <1>3, TasksAssumption DEF DoneStatuses

LEMMA TaskMovesOfWorker ==
    /\ <<"queued", "running">> \in TaskMoves
    /\ <<"running", "completed">> \in TaskMoves
    /\ <<"running", "failed">> \in TaskMoves
BY DEF TaskMoves, CommonMoves

LEMMA AfterExceptType ==
    ASSUME NEW s \in RowStatuses PROVE AfterExcept(s) \in RowStatuses
BY DEF AfterExcept, RowStatuses

LEMMA EntityWriteType ==
    /\ EntityWrite("startTask") = "startEntity"
    /\ EntityWrite("finishTask") = "finishEntity"
    /\ EntityWrite("failTask") = "failEntity"
    /\ \A s \in SavingTask : EntityWrite(s) \in SavingEntity
BY DEF EntityWrite, SavingTask, SavingEntity

-----------------------------------------------------------------------------
(***************************************************************************)
(* Type correctness, for every deployment: any workers, with background    *)
(* jobs or without.                                                        *)
(***************************************************************************)
LEMMA TypeInit == TasksInit => TasksTypeOK
BY TasksAssumption DEF TasksInit, TasksTypeOK, Procs, Steps, RowStatuses, SavingTask, SavingEntity

LEMMA TypeStep == TasksTypeOK /\ [TasksNext]_tasksVars => TasksTypeOK'
<1>. SUFFICES ASSUME TasksTypeOK, [TasksNext]_tasksVars
              PROVE  TasksTypeOK'
  OBVIOUS
<1>. USE TasksAssumption, DoneMoves, AfterExceptType, EntityWriteType
<1>. USE DEF TasksTypeOK, Steps
<1>1. ASSUME NEW t \in Tasks, ApiAddTask(t) PROVE TasksTypeOK'
  BY <1>1 DEF ApiAddTask, procVars, RowStatuses
<1>2. ASSUME NEW t \in Tasks, ApiAddEntity(t) PROVE TasksTypeOK'
  <2>1. CASE AutoProcess
    <3>1. t \in Procs \ Workers
      BY <2>1 DEF Procs
    <3>. QED BY <1>2, <2>1, <3>1 DEF ApiAddEntity, RowStatuses
  <2>2. CASE ~AutoProcess
    BY <1>2, <2>2 DEF ApiAddEntity, RowStatuses
  <2>. QED BY <2>1, <2>2
<1>3. ASSUME NEW t \in Tasks, ApiFault(t) PROVE TasksTypeOK'
  BY <1>3 DEF ApiFault, procVars
<1>4. ASSUME NEW w \in Workers, Poll(w) PROVE TasksTypeOK'
  BY <1>4 DEF Poll, Queued
<1>5. ASSUME NEW w \in Workers, Pick(w) PROVE TasksTypeOK'
  BY <1>5 DEF Pick, Procs
<1>6. ASSUME NEW w \in Workers, Restart(w) PROVE TasksTypeOK'
  BY <1>6 DEF Restart, Procs, SavingTask, SavingEntity
<1>7. ASSUME NEW p \in Procs, LoadTask(p) PROVE TasksTypeOK'
  BY <1>7 DEF LoadTask
<1>8. ASSUME NEW p \in Procs, LoadNoEntity(p) PROVE TasksTypeOK'
  BY <1>8 DEF LoadNoEntity
<1>9. ASSUME NEW p \in Procs, LoadEntity(p) PROVE TasksTypeOK'
  <2>1. job[p] \in Tasks /\ entity[job[p]] \in RowStatuses /\ taskCopy[p] \in RowStatuses
    BY <1>9 DEF LoadEntity
  <2>2. "running" \in RowStatuses /\ {"startTask", "failTask"} \subseteq SavingTask
    BY DEF RowStatuses, SavingTask
  <2>3. taskCopy' \in [Procs -> RowStatuses] /\ entityCopy' \in [Procs -> RowStatuses]
    BY <1>9, <2>1, <2>2 DEF LoadEntity
  <2>4. pc' \in [Procs -> Steps \cup {"idle", "waiting", "done"}]
    BY <1>9, <2>2 DEF LoadEntity
  <2>. QED BY <1>9, <2>1, <2>3, <2>4 DEF LoadEntity
<1>10. ASSUME NEW p \in Procs, SaveTask(p) PROVE TasksTypeOK'
  BY <1>10 DEF SaveTask, SavingTask
<1>11. ASSUME NEW p \in Procs, BeginWork(p) PROVE TasksTypeOK'
  BY <1>11 DEF BeginWork, SavingEntity
<1>12. ASSUME NEW p \in Procs, WorkSucceeds(p) PROVE TasksTypeOK'
  BY <1>12 DEF WorkSucceeds, SavingTask, RowStatuses, DoneStatuses
<1>13. ASSUME NEW p \in Procs, WorkFails(p) PROVE TasksTypeOK'
  BY <1>13 DEF WorkFails, Raise, SavingTask
<1>14. ASSUME NEW p \in Procs, EndTask(p) PROVE TasksTypeOK'
  BY <1>14 DEF EndTask, Return, SavingEntity, SavingTask
<1>15. ASSUME NEW p \in Procs, FailTaskOnly(p) PROVE TasksTypeOK'
  BY <1>15 DEF FailTaskOnly, Return, SavingEntity, SavingTask
<1>16. ASSUME NEW p \in Procs, TryFault(p) PROVE TasksTypeOK'
  BY <1>16 DEF TryFault, Raise, InTry, SavingTask, SavingEntity
<1>17. ASSUME NEW p \in Procs, Crash(p) PROVE TasksTypeOK'
  BY <1>17 DEF Crash, Die
<1>18. CASE UNCHANGED tasksVars
  BY <1>18 DEF tasksVars, procVars
<1>. QED
  BY <1>1, <1>2, <1>3, <1>4, <1>5, <1>6, <1>7, <1>8, <1>9, <1>10, <1>11, <1>12,
     <1>13, <1>14, <1>15, <1>16, <1>17, <1>18
     DEF TasksNext, ApiNext, WorkerStep, Protocol, Fault

\* Every row, copy and program counter of the queue has its type, in every deployment.
THEOREM TypeCorrect == TasksSpec => []TasksTypeOK
BY TypeInit, TypeStep, PTL DEF TasksSpec

-----------------------------------------------------------------------------
(***************************************************************************)
(* The deployment with a single worker.                                    *)
(***************************************************************************)

LEMMA WorkersAreProcs == SingleWorker => Procs = Workers
BY DEF SingleWorker, Procs

LEMMA WorkerInvInit == TasksInit => WorkerInv
<1>. SUFFICES ASSUME TasksInit PROVE WorkerInv
  OBVIOUS
<1>1. TasksTypeOK
  BY TypeInit
<1>2. SnapshotsAreQueued /\ UnstartedAreUntouched /\ WorkRunsAtMostOnce /\ EntityFollowsTask
  BY DoneMoves DEF TasksInit, SnapshotsAreQueued, UnstartedAreUntouched,
                   WorkRunsAtMostOnce, EntityFollowsTask
<1>3. \A w \in Workers : RowsFollowWorker(w)
  BY DEF TasksInit, RowsFollowWorker, Procs
<1>. QED BY <1>1, <1>2, <1>3 DEF WorkerInv

LEMMA WorkerInvStep ==
    SingleWorker /\ WorkerInv /\ [TasksNext]_tasksVars => WorkerInv'
<1>. SUFFICES ASSUME SingleWorker, WorkerInv, [TasksNext]_tasksVars
              PROVE  WorkerInv'
  OBVIOUS
<1>. USE TasksAssumption, DoneMoves
<1>0. Procs = Workers /\ TasksTypeOK /\ TasksTypeOK'
  BY WorkersAreProcs, TypeStep DEF WorkerInv
<1>. DEFINE Rest == /\ SnapshotsAreQueued
                    /\ UnstartedAreUntouched
                    /\ \A w \in Workers : RowsFollowWorker(w)
                    /\ WorkRunsAtMostOnce
                    /\ EntityFollowsTask
<1>. USE <1>0 DEF SingleWorker, WorkerInv, SnapshotsAreQueued, UnstartedAreUntouched,
                  RowsFollowWorker, RowsAre, CopiesAre, WorkRunsAtMostOnce,
                  EntityFollowsTask, Steps, SavingTask, SavingEntity
<1>. USE DEF TasksTypeOK
<1>1. ASSUME NEW t \in Tasks, ApiAddTask(t) PROVE Rest'
  BY <1>1 DEF ApiAddTask, procVars
<1>2. ASSUME NEW t \in Tasks, ApiAddEntity(t) PROVE Rest'
  BY <1>2 DEF ApiAddEntity
<1>3. ASSUME NEW t \in Tasks, ApiFault(t) PROVE Rest'
  BY <1>3 DEF ApiFault, procVars
<1>4. ASSUME NEW w \in Workers, Poll(w) PROVE Rest'
  BY <1>4 DEF Poll, Queued
<1>5. ASSUME NEW w \in Workers, Pick(w) PROVE Rest'
  BY <1>5 DEF Pick
<1>6. ASSUME NEW w \in Workers, Restart(w) PROVE Rest'
  BY <1>6 DEF Restart
<1>7. ASSUME NEW p \in Procs, LoadTask(p) PROVE Rest'
  BY <1>7 DEF LoadTask
<1>8. ASSUME NEW p \in Procs, LoadNoEntity(p) PROVE Rest'
  BY <1>8 DEF LoadNoEntity, AfterExcept, Active
<1>9. ASSUME NEW p \in Procs, LoadEntity(p) PROVE Rest'
  \* The entity is there and the task is queued: neither transition raises.
  <2>1. pc[p] = "loadEntity" /\ job[p] \in Tasks
    BY <1>9 DEF LoadEntity
  <2>2. taskCopy[p] = "queued" /\ RowsAre(p, "queued", "queued")
    BY <1>9, <2>1 DEF LoadEntity
  <2>3. CanStart(taskCopy[p], TaskMoves) /\ CanStart(entity[job[p]], EntityMoves[Done])
    BY <2>2, TaskMovesOfWorker DEF CanStart
  <2>4. pc'[p] = "startTask" /\ CopiesAre(p, "running", "running")'
    BY <1>9, <2>3 DEF LoadEntity
  <2>5. UNCHANGED <<task, entity, api, job, batch, runs>>
    BY <1>9 DEF LoadEntity
  <2>6. SnapshotsAreQueued'
    BY <2>1, <2>5
  <2>7. RowsFollowWorker(p)'
    BY <2>2, <2>4, <2>5
  <2>. QED BY <2>5, <2>6, <2>7
<1>10. ASSUME NEW p \in Procs, SaveTask(p) PROVE Rest'
  <2>1. job[p] \in Tasks /\ pc[p] \in SavingTask
    BY <1>10 DEF SaveTask
  \* The task whose row is written is in nobody's snapshot.
  <2>2. SnapshotsAreQueued'
    BY <1>10, <2>1 DEF SaveTask
  \* It has left the queue, with work that was or was not begun.
  <2>3. task'[job[p]] \in {"running", "completed", "failed"}
    BY <1>10, <2>1 DEF SaveTask
  <2>4. UnstartedAreUntouched'
    BY <1>10, <2>1, <2>3 DEF SaveTask
  <2>5. RowsFollowWorker(p)'
    <3>1. CASE pc[p] = "startTask"
      BY <1>10, <2>1, <3>1, EntityWriteType DEF SaveTask
    <3>2. CASE pc[p] = "finishTask"
      BY <1>10, <2>1, <3>2, EntityWriteType DEF SaveTask
    <3>3. CASE pc[p] = "failTask"
      BY <1>10, <2>1, <3>3, EntityWriteType DEF SaveTask
    <3>. QED BY <2>1, <3>1, <3>2, <3>3
  \* Its entity has not settled yet.
  <2>6. EntityFollowsTask'
    BY <1>10, <2>1, <2>3 DEF SaveTask
  <2>7. WorkRunsAtMostOnce'
    BY <1>10 DEF SaveTask
  <2>. QED BY <2>2, <2>4, <2>5, <2>6, <2>7
<1>11. ASSUME NEW p \in Procs, BeginWork(p) PROVE Rest'
  <2>1. job[p] \in Tasks /\ runs[job[p]] = 0 /\ runs'[job[p]] = 1
    BY <1>11 DEF BeginWork
  \* The task is running, so the entity may leave the queue too.
  <2>2. UnstartedAreUntouched' /\ EntityFollowsTask'
    BY <1>11, <2>1 DEF BeginWork
  <2>3. WorkRunsAtMostOnce'
    BY <1>11, <2>1 DEF BeginWork
  <2>4. SnapshotsAreQueued' /\ RowsFollowWorker(p)'
    BY <1>11, <2>1 DEF BeginWork
  <2>. QED BY <2>2, <2>3, <2>4
<1>12. ASSUME NEW p \in Procs, WorkSucceeds(p) PROVE Rest'
  BY <1>12 DEF WorkSucceeds
<1>13. ASSUME NEW p \in Procs, WorkFails(p) PROVE Rest'
  BY <1>13 DEF WorkFails, Raise, AfterExcept, Active
<1>14. ASSUME NEW p \in Procs, EndTask(p) PROVE Rest'
  <2>1. /\ job[p] \in Tasks
        /\ \/ task[job[p]] = "completed" /\ entity'[job[p]] = Done
           \/ task[job[p]] = "failed" /\ entity'[job[p]] = "failed"
    BY <1>14 DEF EndTask
  <2>2. EntityFollowsTask' /\ UnstartedAreUntouched'
    BY <1>14, <2>1 DEF EndTask
  <2>3. SnapshotsAreQueued' /\ RowsFollowWorker(p)' /\ WorkRunsAtMostOnce'
    BY <1>14 DEF EndTask, Return
  <2>. QED BY <2>2, <2>3
<1>15. ASSUME NEW p \in Procs, FailTaskOnly(p) PROVE Rest'
  BY <1>15 DEF FailTaskOnly, Return
<1>16. ASSUME NEW p \in Procs, TryFault(p) PROVE Rest'
  BY <1>16 DEF TryFault, Raise, InTry, AfterExcept, Active
<1>17. ASSUME NEW p \in Procs, Crash(p) PROVE Rest'
  BY <1>17 DEF Crash, Die
<1>18. CASE UNCHANGED tasksVars
  BY <1>18 DEF tasksVars, procVars
<1>. QED
  BY <1>1, <1>2, <1>3, <1>4, <1>5, <1>6, <1>7, <1>8, <1>9, <1>10, <1>11, <1>12,
     <1>13, <1>14, <1>15, <1>16, <1>17, <1>18, ZenonT(30)
     DEF TasksNext, ApiNext, WorkerStep, Protocol, Fault

(***************************************************************************)
(* With a single worker, WorkerInv holds whatever fails and however often  *)
(* the worker is killed and started again.                                 *)
(***************************************************************************)
THEOREM WorkerInvariant == ASSUME SingleWorker PROVE TasksSpec => []WorkerInv
<1>1. WorkerInv /\ [TasksNext]_tasksVars => WorkerInv'
  BY WorkerInvStep
<1>. QED BY <1>1, WorkerInvInit, PTL DEF TasksSpec

\* The work of a task is begun at most once: no second search, message or draft.
THEOREM WorkBegunOnce == ASSUME SingleWorker PROVE TasksSpec => []WorkRunsAtMostOnce
<1>1. WorkerInv => WorkRunsAtMostOnce
  BY DEF WorkerInv
<1>. QED BY <1>1, WorkerInvariant, PTL

\* A settled entity stands beside a task that settled the same way.
THEOREM RowsAgree == ASSUME SingleWorker PROVE TasksSpec => []EntityFollowsTask
<1>1. WorkerInv => EntityFollowsTask
  BY DEF WorkerInv
<1>. QED BY <1>1, WorkerInvariant, PTL

-----------------------------------------------------------------------------
(***************************************************************************)
(* The detailed queue implements the lifecycle of each row: what a client  *)
(* polls is a path of the table of transitions.                            *)
(***************************************************************************)

\* A whole-row write of a task is one move, a refusal, or no change.
LEMMA TaskWriteIsMove ==
    ASSUME SingleWorker, WorkerInv, NEW p \in Procs, SaveTask(p) \/ FailTaskOnly(p)
    PROVE  /\ job[p] \in Tasks
           /\ task' = [task EXCEPT ![job[p]] = taskCopy[p]]
           /\ \/ <<task[job[p]], taskCopy[p]>> \in TaskMoves
              \/ task[job[p]] = "queued" /\ taskCopy[p] = "failed"
              \/ taskCopy[p] = task[job[p]]
<1>1. p \in Workers
  BY WorkersAreProcs
<1>2. job[p] \in Tasks /\ task' = [task EXCEPT ![job[p]] = taskCopy[p]]
  BY DEF WorkerInv, TasksTypeOK, SaveTask, FailTaskOnly, Steps, SavingTask
<1>3. CASE SaveTask(p)
  BY <1>1, <1>2, <1>3, TaskMovesOfWorker
     DEF WorkerInv, RowsFollowWorker, RowsAre, CopiesAre, SaveTask, SavingTask
<1>4. CASE FailTaskOnly(p)
  BY <1>1, <1>2, <1>4 DEF WorkerInv, RowsFollowWorker, FailTaskOnly
<1>. QED BY <1>2, <1>3, <1>4

LEMMA TaskRowStep ==
    ASSUME SingleWorker, WorkerInv, [TasksNext]_tasksVars
    PROVE  [TaskRows!Next]_task
<1>1. ASSUME NEW t \in Tasks, ApiAddTask(t) PROVE TaskRows!Next
  BY <1>1 DEF ApiAddTask, WorkerInv, UnstartedAreUntouched, TaskRows!Next, TaskRows!Create
<1>2. ASSUME NEW p \in Procs, SaveTask(p) \/ FailTaskOnly(p)
      PROVE  [TaskRows!Next]_task
  <2>0. /\ job[p] \in Tasks
        /\ task' = [task EXCEPT ![job[p]] = taskCopy[p]]
        /\ \/ <<task[job[p]], taskCopy[p]>> \in TaskMoves
           \/ task[job[p]] = "queued" /\ taskCopy[p] = "failed"
           \/ taskCopy[p] = task[job[p]]
    BY <1>2, TaskWriteIsMove
  <2>1. CASE <<task[job[p]], taskCopy[p]>> \in TaskMoves
    <3>1. TaskRows!Commit(job[p])
      BY <2>0, <2>1 DEF TaskRows!Commit
    <3>. QED BY <2>0, <3>1 DEF TaskRows!Next
  <2>2. CASE task[job[p]] = "queued" /\ taskCopy[p] = "failed"
    <3>1. TaskRows!Refuse(job[p])
      BY <2>0, <2>2 DEF TaskRows!Refuse
    <3>. QED BY <2>0, <3>1 DEF TaskRows!Next
  <2>3. CASE taskCopy[p] = task[job[p]]
    BY <2>0, <2>3 DEF WorkerInv, TasksTypeOK
  <2>. QED BY <2>0, <2>1, <2>2, <2>3
<1>3. CASE UNCHANGED task
  BY <1>3
<1>. QED
  BY <1>1, <1>2, <1>3
     DEF TasksNext, ApiNext, WorkerStep, Protocol, Fault, tasksVars, ApiAddEntity, ApiFault,
         Poll, Pick, Restart, LoadTask, LoadNoEntity, LoadEntity, BeginWork, WorkSucceeds,
         WorkFails, Raise, EndTask, TryFault, Crash, Die

\* A client that polls a task sees the moves of AgentTask.transition_to, or a refusal.
THEOREM TasksFollowLifecycle ==
    ASSUME SingleWorker PROVE TasksSpec => TaskRowsFollowLifecycle
<1>1. TasksInit => TaskRows!Init
  BY DEF TasksInit, TaskRows!Init
<1>2. WorkerInv /\ [TasksNext]_tasksVars => [TaskRows!Next]_task
  BY TaskRowStep
<1>. QED
  BY <1>1, <1>2, WorkerInvariant, PTL DEF TasksSpec, TaskRowsFollowLifecycle, TaskRows!Spec

LEMMA EntityWriteIsMove ==
    ASSUME SingleWorker, WorkerInv, NEW p \in Procs, BeginWork(p) \/ EndTask(p)
    PROVE  /\ job[p] \in Tasks
           /\ entity' = [entity EXCEPT ![job[p]] = entityCopy[p]]
           /\ \/ <<entity[job[p]], entityCopy[p]>> \in EntityMoves[Done]
              \/ entity[job[p]] = "queued" /\ entityCopy[p] = "failed"
<1>1. p \in Workers
  BY WorkersAreProcs
<1>2. job[p] \in Tasks /\ entity' = [entity EXCEPT ![job[p]] = entityCopy[p]]
  BY DEF WorkerInv, TasksTypeOK, BeginWork, EndTask, Steps, SavingEntity
<1>3. CASE BeginWork(p)
  BY <1>1, <1>2, <1>3, DoneMoves
     DEF WorkerInv, RowsFollowWorker, RowsAre, CopiesAre, BeginWork
<1>4. CASE EndTask(p)
  BY <1>1, <1>2, <1>4, DoneMoves
     DEF WorkerInv, RowsFollowWorker, RowsAre, CopiesAre, EndTask, SavingEntity
<1>. QED BY <1>2, <1>3, <1>4

LEMMA EntityRowStep ==
    ASSUME SingleWorker, WorkerInv, [TasksNext]_tasksVars
    PROVE  [EntityRows!Next]_entity
<1>1. ASSUME NEW t \in Tasks, ApiAddEntity(t) PROVE EntityRows!Next
  <2>1. EntityRows!Create(t)
    BY <1>1 DEF ApiAddEntity, WorkerInv, UnstartedAreUntouched, EntityRows!Create
  <2>. QED BY <2>1 DEF EntityRows!Next
<1>2. ASSUME NEW p \in Procs, BeginWork(p) \/ EndTask(p)
      PROVE  EntityRows!Next
  <2>0. /\ job[p] \in Tasks
        /\ entity' = [entity EXCEPT ![job[p]] = entityCopy[p]]
        /\ \/ <<entity[job[p]], entityCopy[p]>> \in EntityMoves[Done]
           \/ entity[job[p]] = "queued" /\ entityCopy[p] = "failed"
    BY <1>2, EntityWriteIsMove
  <2>1. CASE <<entity[job[p]], entityCopy[p]>> \in EntityMoves[Done]
    <3>1. EntityRows!Commit(job[p])
      BY <2>0, <2>1 DEF EntityRows!Commit
    <3>. QED BY <2>0, <3>1 DEF EntityRows!Next
  <2>2. CASE entity[job[p]] = "queued" /\ entityCopy[p] = "failed"
    <3>1. EntityRows!Refuse(job[p])
      BY <2>0, <2>2 DEF EntityRows!Refuse
    <3>. QED BY <2>0, <3>1 DEF EntityRows!Next
  <2>. QED BY <2>0, <2>1, <2>2
<1>3. CASE UNCHANGED entity
  BY <1>3
<1>. QED
  BY <1>1, <1>2, <1>3
     DEF TasksNext, ApiNext, WorkerStep, Protocol, Fault, tasksVars, ApiAddTask, ApiFault,
         Poll, Pick, Restart, LoadTask, LoadNoEntity, LoadEntity, SaveTask, FailTaskOnly,
         WorkSucceeds, WorkFails, Raise, TryFault, Crash, Die

\* The same of the request, attempt or draft and the table of its class.
THEOREM EntitiesFollowLifecycle ==
    ASSUME SingleWorker PROVE TasksSpec => EntityRowsFollowLifecycle
<1>1. TasksInit => EntityRows!Init
  BY DEF TasksInit, EntityRows!Init
<1>2. WorkerInv /\ [TasksNext]_tasksVars => [EntityRows!Next]_entity
  BY EntityRowStep
<1>. QED
  BY <1>1, <1>2, WorkerInvariant, PTL
     DEF TasksSpec, EntityRowsFollowLifecycle, EntityRows!Spec

=============================================================================
