----------------------------- MODULE AgentTasks -----------------------------
(***************************************************************************)
(* The durable task queue between the API and whoever processes tasks.     *)
(*                                                                         *)
(* The API writes an AgentTask row and then, in a second transaction, the  *)
(* row of the entity the task is about: a SearchRequest, a ContactAttempt  *)
(* or a ContractDraft.  The worker process reads a batch of queued tasks   *)
(* and handles them one by one; with auto-processing on, the API process   *)
(* also handles each task it created, in a background job.  Both call the  *)
(* same process_* function, which loads copies of the two rows, moves the  *)
(* copies, and writes each copy back whole, every read and every write in  *)
(* a transaction of its own (SqlAlchemyRepository).                        *)
(*                                                                         *)
(* The three process_* functions have this protocol in common.  What a     *)
(* task does between BeginWork and WorkSucceeds or WorkFails is left open  *)
(* here; the modules of the single functions refine it.                    *)
(***************************************************************************)
EXTENDS Naturals, FiniteSets, Domain

CONSTANTS
    Tasks,       \* identities of AgentTask rows; the entity made with task t is t's
    NoTask,      \* the job of a processor that has none
    Workers,     \* worker processes in run_worker_loop
    AutoProcess, \* the settings' auto_process_* flag
    TickLimit,   \* max_tasks of a worker tick
    Done,        \* the status a successful entity ends in
    MaxFaults    \* bound on failed transactions and crashes

ASSUME TasksAssumption ==
    /\ NoTask \notin Tasks
    /\ Tasks \cap Workers = {}
    /\ AutoProcess \in BOOLEAN
    /\ TickLimit \in Nat \ {0}
    /\ Done \in DoneStatuses
    /\ MaxFaults \in Nat

VARIABLES
    task,       \* task[t]: status of the agent_tasks row
    entity,     \* entity[t]: status of the row the task is about
    api,        \* api[t]: how far the request that creates t has come
    pc,         \* pc[p]: what processor p does next
    job,        \* job[p]: the task p is at
    taskCopy,   \* taskCopy[p]: status of p's copy of the task
    entityCopy, \* entityCopy[p]: status of p's copy of the entity
    batch,      \* batch[w]: rest of the snapshot of w's tick
    runs,       \* runs[t]: times the work of t was begun (history)
    faults      \* failed transactions and crashes so far

procVars == <<pc, job, taskCopy, entityCopy, batch>>
tasksVars == <<task, entity, api, procVars, runs, faults>>

\* The background job of a request is named by its task.
Procs == Workers \cup (IF AutoProcess THEN Tasks ELSE {})

\* A try block's two writes, and the handler's two.
SavingTask == {"startTask", "finishTask", "failTask"}
SavingEntity == {"startEntity", "finishEntity", "failEntity"}
InTry == {"startTask", "startEntity", "finishTask", "finishEntity"}

Steps ==
    {"load", "loadEntity", "failTaskOnly", "work", "dead"}
        \cup SavingTask \cup SavingEntity

EntityWrite(step) ==
    CASE step = "startTask" -> "startEntity"
      [] step = "finishTask" -> "finishEntity"
      [] step = "failTask" -> "failEntity"

TasksInit ==
    /\ task = [t \in Tasks |-> "absent"]
    /\ entity = [t \in Tasks |-> "absent"]
    /\ api = [t \in Tasks |-> "new"]
    /\ pc = [p \in Procs |-> IF p \in Workers THEN "idle" ELSE "waiting"]
    /\ job = [p \in Procs |-> IF p \in Workers THEN NoTask ELSE p]
    /\ taskCopy = [p \in Procs |-> "absent"]
    /\ entityCopy = [p \in Procs |-> "absent"]
    /\ batch = [w \in Workers |-> {}]
    /\ runs = [t \in Tasks |-> 0]
    /\ faults = 0

-----------------------------------------------------------------------------
\* The create endpoints: repo.add_agent_task, then the entity.

ApiAddTask(t) ==
    /\ api[t] = "new"
    /\ task' = [task EXCEPT ![t] = "queued"]
    /\ api' = [api EXCEPT ![t] = "taskAdded"]
    /\ UNCHANGED <<entity, procVars, runs, faults>>

\* The background job is scheduled once the second row is in.
ApiAddEntity(t) ==
    /\ api[t] = "taskAdded"
    /\ entity' = [entity EXCEPT ![t] = "queued"]
    /\ api' = [api EXCEPT ![t] = "done"]
    /\ pc' = IF AutoProcess THEN [pc EXCEPT ![t] = "load"] ELSE pc
    /\ UNCHANGED <<task, job, taskCopy, entityCopy, batch, runs, faults>>

\* The second insert fails or the API stops before it.
ApiFault(t) ==
    /\ api[t] = "taskAdded"
    /\ faults < MaxFaults
    /\ api' = [api EXCEPT ![t] = "failed"]
    /\ faults' = faults + 1
    /\ UNCHANGED <<task, entity, procVars, runs>>

-----------------------------------------------------------------------------
\* run_worker_tick: the snapshot of queued tasks, then one after the other.

Queued == {t \in Tasks : task[t] = "queued"}

\* The tick's query is ordered by created_at; here any batch of that size.
Poll(w) ==
    /\ pc[w] = "idle" /\ batch[w] = {}
    /\ \E b \in SUBSET Queued :
        /\ Cardinality(b) = TickLimit \/ (b = Queued /\ Cardinality(b) < TickLimit)
        /\ batch' = [batch EXCEPT ![w] = b]
    /\ UNCHANGED <<task, entity, api, pc, job, taskCopy, entityCopy, runs, faults>>

\* Mutant: a task is picked and stays in the snapshot.
PickKeeps(w) ==
    /\ pc[w] = "idle"
    /\ \E t \in batch[w] : job' = [job EXCEPT ![w] = t]
    /\ pc' = [pc EXCEPT ![w] = "load"]
    /\ UNCHANGED <<task, entity, api, taskCopy, entityCopy, batch, runs, faults>>

\* The status the loop tests is the snapshot's: it is queued whatever the row says.
Pick(w) ==
    /\ pc[w] = "idle"
    /\ \E t \in batch[w] :
        /\ job' = [job EXCEPT ![w] = t]
        /\ batch' = [batch EXCEPT ![w] = @ \ {t}]
    /\ pc' = [pc EXCEPT ![w] = "load"]
    /\ UNCHANGED <<task, entity, api, taskCopy, entityCopy, runs, faults>>

-----------------------------------------------------------------------------
\* What the three process_* functions have in common.

LoadTask(p) ==
    /\ pc[p] = "load"
    /\ taskCopy' = [taskCopy EXCEPT ![p] = task[job[p]]]
    /\ pc' = [pc EXCEPT ![p] = "loadEntity"]
    /\ UNCHANGED <<task, entity, api, job, entityCopy, batch, runs, faults>>

\* The entity is not there: _fail_task_only.
LoadNoEntity(p) ==
    /\ pc[p] = "loadEntity" /\ entity[job[p]] = "absent"
    /\ taskCopy' = [taskCopy EXCEPT ![p] = AfterExcept(@)]
    /\ pc' = [pc EXCEPT ![p] = "failTaskOnly"]
    /\ UNCHANGED <<task, entity, api, job, entityCopy, batch, runs, faults>>

\* Both copies move to running, or one of the two transitions raises.
LoadEntity(p) ==
    LET row == entity[job[p]]
        starts == /\ CanStart(taskCopy[p], TaskMoves)
                  /\ CanStart(row, EntityMoves[Done])
    IN  /\ pc[p] = "loadEntity" /\ row # "absent"
        /\ taskCopy' = [taskCopy EXCEPT ![p] =
                            IF starts THEN "running" ELSE AfterExcept(@)]
        /\ entityCopy' = [entityCopy EXCEPT ![p] =
                            IF starts THEN "running" ELSE AfterExcept(row)]
        /\ pc' = [pc EXCEPT ![p] = IF starts THEN "startTask" ELSE "failTask"]
        /\ UNCHANGED <<task, entity, api, job, batch, runs, faults>>

\* _persist_agent_task: the whole row is overwritten with the copy.
SaveTask(p) ==
    /\ pc[p] \in SavingTask
    /\ task' = [task EXCEPT ![job[p]] = taskCopy[p]]
    /\ pc' = [pc EXCEPT ![p] = EntityWrite(@)]
    /\ UNCHANGED <<entity, api, job, taskCopy, entityCopy, batch, runs, faults>>

\* Mutant: the first write of the entity is left out.
BeginWorkUnsaved(p) ==
    /\ pc[p] = "startEntity"
    /\ runs' = [runs EXCEPT ![job[p]] = @ + 1]
    /\ pc' = [pc EXCEPT ![p] = "work"]
    /\ UNCHANGED <<task, entity, api, job, taskCopy, entityCopy, batch, faults>>

\* The entity's first write, after which the function turns to its own work.
BeginWork(p) ==
    /\ pc[p] = "startEntity"
    /\ entity' = [entity EXCEPT ![job[p]] = entityCopy[p]]
    /\ runs' = [runs EXCEPT ![job[p]] = @ + 1]
    /\ pc' = [pc EXCEPT ![p] = "work"]
    /\ UNCHANGED <<task, api, job, taskCopy, entityCopy, batch, faults>>

WorkSucceeds(p) ==
    /\ pc[p] = "work"
    /\ taskCopy' = [taskCopy EXCEPT ![p] = "completed"]
    /\ entityCopy' = [entityCopy EXCEPT ![p] = Done]
    /\ pc' = [pc EXCEPT ![p] = "finishTask"]
    /\ UNCHANGED <<task, entity, api, job, batch, runs, faults>>

\* Mutant: the handler fails the task without looking at its status.
RaiseFailsTask(p) ==
    /\ taskCopy' = [taskCopy EXCEPT ![p] = "failed"]
    /\ entityCopy' = [entityCopy EXCEPT ![p] = AfterExcept(@)]
    /\ pc' = [pc EXCEPT ![p] = "failTask"]
    /\ UNCHANGED <<task, entity, api, job, batch, runs>>

\* The except handler, up to its writes.
Raise(p) ==
    /\ taskCopy' = [taskCopy EXCEPT ![p] = AfterExcept(@)]
    /\ entityCopy' = [entityCopy EXCEPT ![p] = AfterExcept(@)]
    /\ pc' = [pc EXCEPT ![p] = "failTask"]
    /\ UNCHANGED <<task, entity, api, job, batch, runs>>

WorkFails(p) ==
    /\ pc[p] = "work"
    /\ Raise(p)
    /\ UNCHANGED faults

\* A worker goes on with its batch, a background job is over.
Return(p) == pc' = [pc EXCEPT ![p] = IF p \in Workers THEN "idle" ELSE "done"]

EndTask(p) ==
    /\ pc[p] \in SavingEntity \ {"startEntity"}
    /\ entity' = [entity EXCEPT ![job[p]] = entityCopy[p]]
    /\ Return(p)
    /\ UNCHANGED <<task, api, job, taskCopy, entityCopy, batch, runs, faults>>

\* Mutant: a task whose entity is missing is returned from and not failed.
ReturnsUnfailed(p) ==
    /\ pc[p] = "failTaskOnly"
    /\ Return(p)
    /\ UNCHANGED <<task, entity, api, job, taskCopy, entityCopy, batch, runs, faults>>

FailTaskOnly(p) ==
    /\ pc[p] = "failTaskOnly"
    /\ task' = [task EXCEPT ![job[p]] = taskCopy[p]]
    /\ Return(p)
    /\ UNCHANGED <<entity, api, job, taskCopy, entityCopy, batch, runs, faults>>

-----------------------------------------------------------------------------
\* Failures.  No exception that leaves process_* is caught: it ends the worker.

TryFault(p) ==
    /\ pc[p] \in InTry
    /\ faults < MaxFaults
    /\ Raise(p)
    /\ faults' = faults + 1

Die(p) ==
    /\ faults < MaxFaults
    /\ pc' = [pc EXCEPT ![p] = "dead"]
    /\ batch' = [w \in Workers |-> IF w = p THEN {} ELSE batch[w]]
    /\ faults' = faults + 1
    /\ UNCHANGED <<task, entity, api, job, taskCopy, entityCopy, runs>>

\* A transaction outside the try block fails, or the process is stopped.
Crash(p) ==
    /\ pc[p] \notin {"waiting", "done", "dead"}
    /\ Die(p)

\* Mutant: a restarted worker resumes the call it was killed in.
Resumes(w) ==
    /\ pc[w] = "dead"
    /\ pc' = [pc EXCEPT ![w] = "load"]
    /\ UNCHANGED <<task, entity, api, job, taskCopy, entityCopy, batch, runs, faults>>

\* The worker is started again; nothing starts a background job again.
Restart(w) ==
    /\ pc[w] = "dead"
    /\ pc' = [pc EXCEPT ![w] = "idle"]
    /\ UNCHANGED <<task, entity, api, job, taskCopy, entityCopy, batch, runs, faults>>

-----------------------------------------------------------------------------
ApiNext(t) == ApiAddTask(t) \/ ApiAddEntity(t) \/ ApiFault(t)

\* The steps every processor takes besides its work.
Protocol(p) ==
    \/ LoadTask(p) \/ LoadNoEntity(p) \/ LoadEntity(p)
    \/ SaveTask(p) \/ BeginWork(p) \/ EndTask(p) \/ FailTaskOnly(p)

WorkerStep(w) == Poll(w) \/ Pick(w)

Fault(p) == TryFault(p) \/ Crash(p)

TasksNext ==
    \/ \E t \in Tasks : ApiNext(t)
    \/ \E w \in Workers : WorkerStep(w) \/ Restart(w)
    \/ \E p \in Procs : Protocol(p) \/ WorkSucceeds(p) \/ WorkFails(p) \/ Fault(p)

TasksSpec == TasksInit /\ [][TasksNext]_tasksVars

(***************************************************************************)
(* A processor that is alive goes on, a request under way goes on, and a   *)
(* dead worker is started again, as TC-E2E-038 and TC-E2E-039 of           *)
(* test_protocol.md do.  Nothing makes faults happen or users come.        *)
(***************************************************************************)
TasksFairness ==
    /\ \A t \in Tasks : WF_tasksVars(ApiAddEntity(t))
    /\ \A w \in Workers : WF_tasksVars(WorkerStep(w)) /\ WF_tasksVars(Restart(w))
    /\ \A p \in Procs : WF_tasksVars(Protocol(p) \/ WorkSucceeds(p) \/ WorkFails(p))

FairTasksSpec == TasksSpec /\ TasksFairness

-----------------------------------------------------------------------------
\* Properties.

\* Types; a processor at a task has one, a background job has its own and waits for it.
TasksTypeOK ==
    /\ task \in [Tasks -> RowStatuses]
    /\ entity \in [Tasks -> RowStatuses]
    /\ api \in [Tasks -> {"new", "taskAdded", "done", "failed"}]
    /\ pc \in [Procs -> Steps \cup {"idle", "waiting", "done"}]
    /\ job \in [Procs -> Tasks \cup {NoTask}]
    /\ \A p \in Procs : pc[p] \in Steps \ {"dead"} => job[p] \in Tasks
    /\ \A p \in Procs \ Workers :
        job[p] = p /\ (pc[p] = "waiting" \/ api[p] = "done")
    /\ taskCopy \in [Procs -> RowStatuses]
    /\ entityCopy \in [Procs -> RowStatuses]
    /\ batch \in [Workers -> SUBSET Tasks]
    /\ runs \in [Tasks -> Nat]
    /\ faults \in 0..MaxFaults

(***************************************************************************)
(* What a client that polls a row sees is a path of its class's lifecycle, *)
(* although the code writes whole rows from copies and never compares with *)
(* what it overwrites (_upsert).                                           *)
(***************************************************************************)
TaskRows == INSTANCE Lifecycle WITH Items <- Tasks, Moves <- TaskMoves, status <- task

EntityRows ==
    INSTANCE Lifecycle WITH
        Items <- Tasks, Moves <- EntityMoves[Done], status <- entity

TaskRowsFollowLifecycle == TaskRows!Spec

EntityRowsFollowLifecycle == EntityRows!Spec

\* The work of a task (a search, a message, a draft) is never begun twice.
WorkRunsAtMostOnce == \A t \in Tasks : runs[t] <= 1

(***************************************************************************)
(* The two rows are written in two transactions, the task's first: an      *)
(* entity that has settled is never seen beside a task that has not, nor   *)
(* beside one that settled the other way.                                  *)
(***************************************************************************)
EntityFollowsTask ==
    \A t \in Tasks :
        /\ entity[t] = Done => task[t] = "completed"
        /\ entity[t] = "failed" => task[t] = "failed"
        /\ entity[t] = "running" => task[t] \notin {"absent", "queued"}

\* The worker gets to every queued task, across crashes and restarts (TC-E2E-038).
EveryQueuedTaskLeavesQueue ==
    \A t \in Tasks : task[t] = "queued" ~> task[t] # "queued"

(***************************************************************************)
(* A task that was started settles: "a status stuck in running without     *)
(* timeout or recovery" is what TC-E2E-039 forbids.                        *)
(***************************************************************************)
RunningTasksSettle ==
    \A t \in Tasks : task[t] = "running" ~> task[t] \in Terminal

-----------------------------------------------------------------------------
(***************************************************************************)
(* The inductive invariant of the deployment with one worker process and   *)
(* no background jobs: there the rows of the task at hand are where the    *)
(* worker left them.  It is what the proofs of AgentTasks_proofs rest on.  *)
(***************************************************************************)
SingleWorker == ~AutoProcess /\ \A v, w \in Workers : v = w

\* What is left of a snapshot is still queued, and is not the task at hand.
SnapshotsAreQueued ==
    \A w \in Workers : \A t \in batch[w] :
        task[t] = "queued" /\ (pc[w] \in Steps \ {"dead"} => job[w] # t)

\* A task that was not started has an entity that was not started, if any.
UnstartedAreUntouched ==
    \A t \in Tasks :
        /\ api[t] = "new" => task[t] = "absent"
        /\ api[t] \in {"new", "taskAdded"} => entity[t] = "absent"
        /\ task[t] \in {"absent", "queued"} =>
            entity[t] \in {"absent", "queued"} /\ runs[t] = 0

RowsAre(p, s, e) == task[job[p]] = s /\ entity[job[p]] = e
CopiesAre(p, s, e) == taskCopy[p] = s /\ entityCopy[p] = e

RowsFollowWorker(w) ==
    /\ pc[w] \in {"load", "loadEntity", "failTaskOnly"} => task[job[w]] = "queued"
    /\ pc[w] = "loadEntity" => taskCopy[w] = "queued"
    /\ pc[w] = "failTaskOnly" => taskCopy[w] = "failed"
    /\ pc[w] = "startTask" =>
        RowsAre(w, "queued", "queued") /\ CopiesAre(w, "running", "running")
    /\ pc[w] = "startEntity" =>
        /\ RowsAre(w, "running", "queued") /\ CopiesAre(w, "running", "running")
        /\ runs[job[w]] = 0
    /\ pc[w] = "work" =>
        RowsAre(w, "running", "running") /\ CopiesAre(w, "running", "running")
    /\ pc[w] = "finishTask" =>
        RowsAre(w, "running", "running") /\ CopiesAre(w, "completed", Done)
    /\ pc[w] = "finishEntity" =>
        RowsAre(w, "completed", "running") /\ CopiesAre(w, "completed", Done)
    /\ pc[w] = "failTask" =>
        \/ /\ CopiesAre(w, "failed", "failed")
           /\ \/ RowsAre(w, "queued", "queued")
              \/ RowsAre(w, "running", "queued")
              \/ RowsAre(w, "running", "running")
        \/ /\ CopiesAre(w, "completed", Done)
           /\ RowsAre(w, "running", "running") \/ RowsAre(w, "completed", "running")
    /\ pc[w] = "failEntity" =>
        \/ /\ CopiesAre(w, "failed", "failed")
           /\ RowsAre(w, "failed", "queued") \/ RowsAre(w, "failed", "running")
        \/ CopiesAre(w, "completed", Done) /\ RowsAre(w, "completed", "running")

WorkerInv ==
    /\ TasksTypeOK
    /\ SnapshotsAreQueued
    /\ UnstartedAreUntouched
    /\ \A w \in Workers : RowsFollowWorker(w)
    /\ WorkRunsAtMostOnce
    /\ EntityFollowsTask

=============================================================================
