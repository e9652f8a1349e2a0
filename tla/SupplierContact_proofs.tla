------------------------ MODULE SupplierContact_proofs ------------------------
(***************************************************************************)
(* Supplier contact: it implements the task queue, so all that is proved   *)
(* of the queue holds of it; its own types; in every deployment, that      *)
(* success is backed by a message, that no run sends or records twice and  *)
(* that deliveries are recorded; and that a single worker sends no message *)
(* twice.                                                                  *)
(***************************************************************************)
EXTENDS SupplierContact, AgentTasks_proofs, FiniteSetTheorems

-----------------------------------------------------------------------------
(***************************************************************************)
(* Every step of supplier contact is a step of the queue or a stutter.     *)
(***************************************************************************)
LEMMA StepIsTasksStep == [Next]_vars => [TasksNext]_tasksVars
<1>. SUFFICES ASSUME [Next]_vars PROVE [TasksNext]_tasksVars
  OBVIOUS
<1>1. ASSUME NEW t \in Tasks, Endpoint(t) PROVE [TasksNext]_tasksVars
  BY <1>1 DEF Endpoint, Admit, AddTask, AddAttempt, AddAttemptFails, TasksNext, ApiNext
<1>2. ASSUME NEW w \in Workers, WorkerTurn(w) \/ RestartWorker(w)
      PROVE  [TasksNext]_tasksVars
  BY <1>2 DEF WorkerTurn, RestartWorker, TasksNext
<1>3. ASSUME NEW p \in Procs, Shared(p) \/ Begin(p) PROVE [TasksNext]_tasksVars
  BY <1>3 DEF Shared, Begin, TasksNext, Protocol
<1>4. ASSUME NEW p \in Procs, Work(p) PROVE [TasksNext]_tasksVars
  BY <1>4 DEF Work, Composes, ComposeFails, Sends, SendFails, RecordSent, RecordFailed,
              TasksNext
<1>5. ASSUME NEW p \in Procs, RecordRaises(p) \/ SaveFault(p) \/ CrashContact(p)
      PROVE  [TasksNext]_tasksVars
  BY <1>5 DEF RecordRaises, SaveFault, CrashContact, TasksNext, Fault
<1>6. CASE UNCHANGED vars
  BY <1>6 DEF vars
<1>. QED BY <1>1, <1>2, <1>3, <1>4, <1>5, <1>6 DEF Next

\* process_supplier_contact is the work of a queued task, whatever fails in it.
THEOREM ImplementsTasks == Spec => TasksSpec
<1>1. Init => TasksInit
  BY DEF Init
<1>. QED BY <1>1, StepIsTasksStep, PTL DEF Spec, TasksSpec

\* So the attempts of a single worker's deployment follow the attempt's lifecycle.
THEOREM AttemptsFollowLifecycle ==
    ASSUME SingleWorker PROVE Spec => EntityRowsFollowLifecycle
BY ImplementsTasks, EntitiesFollowLifecycle

-----------------------------------------------------------------------------
\* Types.

LEMMA ContactTypeInit == Init => ContactTypeOK
BY TypeInit DEF Init, ContactTypeOK, TasksInit, WorkSteps

LEMMA ContactTypeStep == ContactTypeOK /\ [Next]_vars => ContactTypeOK'
<1>. SUFFICES ASSUME ContactTypeOK, [Next]_vars PROVE ContactTypeOK'
  OBVIOUS
<1>0. TasksTypeOK /\ TasksTypeOK'
  BY StepIsTasksStep, TypeStep DEF ContactTypeOK
<1>. USE <1>0 DEF ContactTypeOK, TasksTypeOK, WorkSteps, messageVars, contactVars
<1>1. ASSUME NEW t \in Tasks, Endpoint(t) PROVE ContactTypeOK'
  <2>1. CASE Admit(t)
    BY <1>1, <2>1 DEF Admit, tasksVars, procVars
  <2>2. CASE AddTask(t) \/ AddAttemptFails(t)
    BY <2>2 DEF AddTask, AddAttemptFails, ApiAddTask, ApiFault, procVars
  <2>3. CASE AddAttempt(t)
    \* The background job that is released was waiting, so it was not at work.
    <3>1. AutoProcess => t \in Procs \ Workers /\ pc[t] = "waiting"
      BY <2>3, TasksAssumption DEF AddAttempt, ApiAddEntity, Procs
    <3>2. \A p \in Procs : pc'[p] = "work" <=> pc[p] = "work"
      BY <2>3, <3>1 DEF AddAttempt, ApiAddEntity
    <3>. QED BY <2>3, <3>2 DEF AddAttempt
  <2>. QED BY <1>1, <2>1, <2>2, <2>3 DEF Endpoint
<1>2. ASSUME NEW w \in Workers, WorkerTurn(w) \/ RestartWorker(w) PROVE ContactTypeOK'
  BY <1>2 DEF WorkerTurn, RestartWorker, WorkerStep, Poll, Pick, Restart
<1>3. ASSUME NEW p \in Procs, Shared(p) PROVE ContactTypeOK'
  BY <1>3, EntityWriteType
     DEF Shared, LoadTask, LoadNoEntity, LoadEntity, SaveTask, EndTask, FailTaskOnly,
         Return, SavingTask, SavingEntity
<1>4. ASSUME NEW p \in Procs, Begin(p) PROVE ContactTypeOK'
  BY <1>4 DEF Begin, BeginWork
<1>5. ASSUME NEW p \in Procs, Composes(p) \/ ComposeFails(p) PROVE ContactTypeOK'
  BY <1>5 DEF Composes, ComposeFails, At, WorkFails, Raise, tasksVars, procVars
<1>6. ASSUME NEW p \in Procs, Sends(p) \/ SendFails(p) PROVE ContactTypeOK'
  BY <1>6 DEF Sends, SendFails, Deliver, At, tasksVars, procVars, Steps
<1>7. ASSUME NEW p \in Procs, RecordSent(p) \/ RecordRaises(p) \/ RecordFailed(p)
      PROVE  ContactTypeOK'
  <2>1. CASE RecordSent(p)
    BY <2>1 DEF RecordSent, At, WorkSucceeds, Steps
  <2>2. CASE RecordRaises(p)
    BY <2>2 DEF RecordRaises, At, tasksVars, procVars
  <2>3. CASE RecordFailed(p)
    BY <2>3 DEF RecordFailed, At, WorkFails, Raise, Steps
  <2>. QED BY <1>7, <2>1, <2>2, <2>3
<1>8. ASSUME NEW p \in Procs, SaveFault(p) \/ CrashContact(p) PROVE ContactTypeOK'
  BY <1>8 DEF SaveFault, CrashContact, TryFault, Crash, Die, Raise, InTry
<1>9. CASE UNCHANGED vars
  BY <1>9 DEF vars, tasksVars, procVars
<1>. QED BY <1>1, <1>2, <1>3, <1>4, <1>5, <1>6, <1>7, <1>8, <1>9 DEF Next, Work

\* Types, and that a processor is in a step of the work only while at work.
THEOREM ContactTypeCorrect == Spec => []ContactTypeOK
BY ContactTypeInit, ContactTypeStep, PTL DEF Spec

-----------------------------------------------------------------------------
(***************************************************************************)
(* Success is backed, in every deployment.  Rows are overwritten with      *)
(* copies that may be old, so the invariant is about the copies as well: a *)
(* copy that says sent or completed was loaded from a row that said so, or *)
(* was made by a run that recorded its message.  Messages and records only *)
(* become more, so what backed a copy once backs it when it is written.    *)
(***************************************************************************)
Backed(t) == sends[t] >= 1 /\ sentRows[t] >= 1

\* Where the copies are those of the task at hand.
TaskCopyInUse == {"loadEntity", "failTaskOnly", "work"} \cup SavingTask \cup SavingEntity
EntityCopyInUse == {"work"} \cup SavingTask \cup SavingEntity

BackedInv ==
    /\ SuccessIsBacked
    /\ \A p \in Procs :
        /\ pc[p] \in TaskCopyInUse /\ taskCopy[p] = "completed" => Backed(job[p])
        /\ pc[p] \in EntityCopyInUse /\ entityCopy[p] = "sent" => Backed(job[p])
        /\ pc[p] = "work" /\ step[p] = "record" => sends[job[p]] >= 1

LEMMA BackedInit == Init => BackedInv
BY DEF Init, TasksInit, BackedInv, SuccessIsBacked, TaskCopyInUse, EntityCopyInUse,
       SavingTask, SavingEntity

LEMMA BackedStep == ContactTypeOK /\ BackedInv /\ [Next]_vars => BackedInv'
<1>. SUFFICES ASSUME ContactTypeOK, BackedInv, [Next]_vars PROVE BackedInv'
  OBVIOUS
<1>0. TasksTypeOK /\ ContactTypeOK' /\ TasksTypeOK' /\ Done = "sent"
  BY ContactTypeStep, ContactAssumption DEF ContactTypeOK
<1>. USE <1>0 DEF BackedInv, SuccessIsBacked, Backed, TaskCopyInUse, EntityCopyInUse,
                  SavingTask, SavingEntity, Steps
<1>. USE DEF ContactTypeOK, TasksTypeOK, contactVars, messageVars
<1>1. ASSUME NEW t \in Tasks, Endpoint(t) PROVE BackedInv'
  BY <1>1, TasksAssumption
     DEF Endpoint, Admit, AddTask, AddAttempt, AddAttemptFails, ApiAddTask, ApiAddEntity,
         ApiFault, tasksVars, procVars
<1>2. ASSUME NEW w \in Workers, WorkerTurn(w) \/ RestartWorker(w) PROVE BackedInv'
  BY <1>2 DEF WorkerTurn, RestartWorker, WorkerStep, Poll, Pick, Restart, Procs
<1>3. ASSUME NEW p \in Procs, LoadTask(p) \/ LoadNoEntity(p), UNCHANGED contactVars
      PROVE  BackedInv'
  BY <1>3 DEF LoadTask, LoadNoEntity, AfterExcept
<1>4. ASSUME NEW p \in Procs, LoadEntity(p), UNCHANGED contactVars PROVE BackedInv'
  BY <1>4 DEF LoadEntity, AfterExcept
<1>5. ASSUME NEW p \in Procs, SaveTask(p) \/ FailTaskOnly(p), UNCHANGED contactVars
      PROVE  BackedInv'
  BY <1>5, EntityWriteType DEF SaveTask, FailTaskOnly, Return
<1>6. ASSUME NEW p \in Procs, EndTask(p), UNCHANGED contactVars PROVE BackedInv'
  BY <1>6 DEF EndTask, Return
<1>7. ASSUME NEW p \in Procs, Begin(p) PROVE BackedInv'
  BY <1>7 DEF Begin, BeginWork
<1>8. ASSUME NEW p \in Procs, Composes(p) \/ ComposeFails(p) PROVE BackedInv'
  BY <1>8 DEF Composes, ComposeFails, At, WorkFails, Raise, AfterExcept, tasksVars, procVars
<1>9. ASSUME NEW p \in Procs, Sends(p) \/ SendFails(p) PROVE BackedInv'
  BY <1>9 DEF Sends, SendFails, Deliver, At, tasksVars, procVars
<1>10. ASSUME NEW p \in Procs, RecordSent(p) PROVE BackedInv'
  BY <1>10 DEF RecordSent, At, WorkSucceeds
<1>11. ASSUME NEW p \in Procs, RecordRaises(p) PROVE BackedInv'
  BY <1>11 DEF RecordRaises, At, tasksVars, procVars
<1>12. ASSUME NEW p \in Procs, RecordFailed(p) PROVE BackedInv'
  BY <1>12 DEF RecordFailed, At, WorkFails, Raise, AfterExcept
<1>13. ASSUME NEW p \in Procs, SaveFault(p) PROVE BackedInv'
  BY <1>13 DEF SaveFault, TryFault, Raise, AfterExcept, InTry
<1>14. ASSUME NEW p \in Procs, CrashContact(p) PROVE BackedInv'
  BY <1>14 DEF CrashContact, Crash, Die
<1>15. CASE UNCHANGED vars
  BY <1>15 DEF vars, tasksVars, procVars
<1>. QED
  BY <1>1, <1>2, <1>3, <1>4, <1>5, <1>6, <1>7, <1>8, <1>9, <1>10, <1>11, <1>12, <1>13,
     <1>14, <1>15
     DEF Next, Shared, Work

(***************************************************************************)
(* An attempt shown as sent, or a task as completed, has a message that    *)
(* the supplier received and a sent conversation message, for any number   *)
(* of workers and background jobs at the same task.                        *)
(***************************************************************************)
THEOREM SuccessBacked == Spec => []SuccessIsBacked
<1>1. BackedInv => SuccessIsBacked
  BY DEF BackedInv
<1>. QED BY <1>1, ContactTypeCorrect, BackedInit, BackedStep, PTL DEF Spec

-----------------------------------------------------------------------------
(***************************************************************************)
(* A single worker never sends a message twice: the queue begins the work  *)
(* of a task once (WorkerInv), and the work sends once.                    *)
(***************************************************************************)
SendInv ==
    /\ NoDoubleSend
    /\ \A t \in Tasks : runs[t] = 0 => sends[t] = 0
    /\ \A p \in Procs : pc[p] = "work" =>
        /\ runs[job[p]] >= 1
        /\ step[p] \in {"compose", "send"} => sends[job[p]] = 0

LEMMA SendInit == Init => SendInv
BY DEF Init, TasksInit, SendInv, NoDoubleSend

LEMMA SendStep ==
    ASSUME SingleWorker, ContactTypeOK, WorkerInv, SendInv, [Next]_vars
    PROVE  SendInv'
<1>0. Procs = Workers /\ TasksTypeOK
  BY WorkersAreProcs DEF ContactTypeOK
<1>. USE <1>0 DEF SingleWorker, SendInv, NoDoubleSend, ContactTypeOK, TasksTypeOK,
                  contactVars, messageVars, Steps, SavingTask, SavingEntity
<1>1. ASSUME NEW t \in Tasks, Endpoint(t) PROVE SendInv'
  BY <1>1 DEF Endpoint, Admit, AddTask, AddAttempt, AddAttemptFails, ApiAddTask,
              ApiAddEntity, ApiFault, tasksVars, procVars
<1>2. ASSUME NEW w \in Workers, WorkerTurn(w) \/ RestartWorker(w) PROVE SendInv'
  BY <1>2 DEF WorkerTurn, RestartWorker, WorkerStep, Poll, Pick, Restart
<1>3. ASSUME NEW p \in Procs, Shared(p) PROVE SendInv'
  BY <1>3, EntityWriteType
     DEF Shared, LoadTask, LoadNoEntity, LoadEntity, SaveTask, EndTask, FailTaskOnly, Return
<1>4. ASSUME NEW p \in Procs, Begin(p) PROVE SendInv'
  \* The work of this task was never begun, so nothing was sent for it.
  <2>1. job[p] \in Tasks /\ runs[job[p]] = 0
    BY <1>4 DEF Begin, BeginWork, WorkerInv, RowsFollowWorker
  <2>2. sends[job[p]] = 0
    BY <2>1
  <2>. QED BY <1>4, <2>1, <2>2 DEF Begin, BeginWork
<1>5. ASSUME NEW p \in Procs, Composes(p) \/ ComposeFails(p) PROVE SendInv'
  BY <1>5 DEF Composes, ComposeFails, At, WorkFails, Raise, tasksVars, procVars
<1>6. ASSUME NEW p \in Procs, Sends(p) \/ SendFails(p) PROVE SendInv'
  <2>1. job[p] \in Tasks /\ sends[job[p]] = 0 /\ runs[job[p]] >= 1
    BY <1>6 DEF Sends, SendFails, At
  <2>2. sends' = sends \/ sends' = [sends EXCEPT ![job[p]] = 1]
    BY <1>6, <2>1 DEF Sends, SendFails, Deliver
  <2>. QED BY <1>6, <2>1, <2>2 DEF Sends, SendFails, At, tasksVars, procVars
<1>7. ASSUME NEW p \in Procs, RecordSent(p) \/ RecordFailed(p) PROVE SendInv'
  BY <1>7 DEF RecordSent, RecordFailed, At, WorkSucceeds, WorkFails, Raise
<1>8. ASSUME NEW p \in Procs, RecordRaises(p) \/ SaveFault(p) \/ CrashContact(p)
      PROVE  SendInv'
  BY <1>8 DEF RecordRaises, SaveFault, CrashContact, TryFault, Raise, Crash, Die, InTry,
              tasksVars, procVars
<1>9. CASE UNCHANGED vars
  BY <1>9 DEF vars, tasksVars, procVars
<1>. QED BY <1>1, <1>2, <1>3, <1>4, <1>5, <1>6, <1>7, <1>8, <1>9 DEF Next, Work

\* Whatever fails and however often the worker is killed: one message per attempt.
THEOREM SentAtMostOnce == ASSUME SingleWorker PROVE Spec => []NoDoubleSend
<1>1. SendInv => NoDoubleSend
  BY DEF SendInv
<1>2. ContactTypeOK /\ WorkerInv /\ SendInv /\ [Next]_vars => SendInv'
  BY SendStep
<1>. QED
  BY <1>1, <1>2, SendInit, ContactTypeCorrect, ImplementsTasks, WorkerInvariant, PTL DEF Spec

-----------------------------------------------------------------------------
(***************************************************************************)
(* One message per run, in every deployment.  A run in compose or send may *)
(* still send one message, and a run at any step may still leave one row;  *)
(* together with what was sent and left, these are never more than the     *)
(* runs.  Finite is the set of runs under way, whatever Tasks and Workers. *)
(***************************************************************************)
InSteps(t, S) == {p \in Procs : job[p] = t /\ step[p] \in S}

BeforeSend == {"compose", "send"}
AfterSend == {"record", "recordFailed"}

StepSets == {BeforeSend, AfterSend, WorkSteps}

PerRunInv ==
    /\ \A t \in Tasks, S \in StepSets : IsFiniteSet(InSteps(t, S))
    /\ \A t \in Tasks :
        /\ sends[t] + Cardinality(InSteps(t, BeforeSend)) <= runs[t]
        /\ sentRows[t] + failedRows[t] + Cardinality(InSteps(t, WorkSteps)) <= runs[t]
        /\ faults = 0 =>
            sends[t] <= sentRows[t] + failedRows[t] + Cardinality(InSteps(t, AfterSend))

LEMMA PerRunInit == Init => PerRunInv
<1>. SUFFICES ASSUME Init PROVE PerRunInv
  OBVIOUS
<1>1. \A t \in Tasks, S \in StepSets : InSteps(t, S) = {}
  BY DEF Init, InSteps, StepSets, BeforeSend, AfterSend, WorkSteps
<1>2. \A t \in Tasks : runs[t] = 0 /\ sends[t] = 0 /\ sentRows[t] = 0 /\ failedRows[t] = 0
  BY DEF Init, TasksInit
<1>. QED BY <1>1, <1>2, FS_EmptySet DEF PerRunInv, StepSets

\* How many runs of t are in S after a processor has gone to step s.
Is(s, S) == IF s \in S THEN 1 ELSE 0

LEMMA Recount ==
    ASSUME ContactTypeOK, PerRunInv, NEW p \in Procs, NEW s,
           step' = [step EXCEPT ![p] = s], UNCHANGED job,
           NEW t \in Tasks, NEW S \in StepSets
    PROVE  /\ Cardinality(InSteps(t, S)) \in Nat
           /\ IsFiniteSet(InSteps(t, S)') /\ Cardinality(InSteps(t, S)') \in Nat
           /\ Cardinality(InSteps(t, S)') =
                IF job[p] = t THEN Cardinality(InSteps(t, S)) + Is(s, S) - Is(step[p], S)
                ELSE Cardinality(InSteps(t, S))
<1>. DEFINE P == InSteps(t, S)
            n == Cardinality(P)
<1>1. IsFiniteSet(P) /\ n \in Nat
  BY FS_CardinalityType DEF PerRunInv
<1>2. step \in [Procs -> WorkSteps \cup {"none"}]
  BY DEF ContactTypeOK
<1>3. p \in P <=> job[p] = t /\ step[p] \in S
  BY DEF InSteps
<1>4. CASE job[p] = t /\ s \in S
  <2>1. P' = P \cup {p}
    BY <1>2, <1>4 DEF InSteps
  <2>2. IsFiniteSet(P') /\ Cardinality(P') = IF p \in P THEN n ELSE n + 1
    BY <1>1, <2>1, FS_AddElement
  <2>. HIDE DEF P, n
  <2>3. Cardinality(P') \in Nat /\ Cardinality(P') = n + Is(s, S) - Is(step[p], S)
    BY <1>1, <1>3, <1>4, <2>2 DEF Is
  <2>. QED BY <1>1, <1>4, <2>2, <2>3 DEF P, n
<1>5. CASE ~(job[p] = t /\ s \in S)
  <2>1. P' = P \ {p}
    BY <1>2, <1>5 DEF InSteps
  <2>2. IsFiniteSet(P') /\ Cardinality(P') = IF p \in P THEN n - 1 ELSE n
    BY <1>1, <2>1, FS_RemoveElement
  <2>3. Cardinality(P') \in Nat
    BY <2>2, FS_CardinalityType
  <2>. HIDE DEF P, n
  <2>4. CASE job[p] = t
    <3>1. Cardinality(P') = n + Is(s, S) - Is(step[p], S)
      BY <1>1, <1>3, <1>5, <2>2, <2>4 DEF Is
    <3>. QED BY <1>1, <2>2, <2>3, <2>4, <3>1 DEF P, n
  <2>5. CASE job[p] # t
    <3>1. Cardinality(P') = n
      BY <1>3, <2>2, <2>5
    <3>. QED BY <1>1, <2>2, <2>3, <2>5, <3>1 DEF P, n
  <2>. QED BY <2>4, <2>5
<1>. QED BY <1>4, <1>5

\* Messages, rows and runs of the task at hand change as the places of its run do.
Goes(p, s) == step' = [step EXCEPT ![p] = s] /\ UNCHANGED job /\ (faults' = 0 => faults = 0)

Balanced(p, s) ==
    /\ \A t \in Tasks : t # job[p] =>
        /\ sends'[t] = sends[t] /\ runs'[t] = runs[t]
        /\ sentRows'[t] = sentRows[t] /\ failedRows'[t] = failedRows[t]
    /\ job[p] \in Tasks =>
        LET t == job[p]
            messages == sends'[t] - sends[t]
            rows == (sentRows'[t] + failedRows'[t]) - (sentRows[t] + failedRows[t])
            begun == runs'[t] - runs[t]
        IN  /\ messages + Is(s, BeforeSend) - Is(step[p], BeforeSend) <= begun
            /\ rows + Is(s, WorkSteps) - Is(step[p], WorkSteps) <= begun
            /\ faults' = 0 => messages <= rows + Is(s, AfterSend) - Is(step[p], AfterSend)

LEMMA Counted ==
    ASSUME ContactTypeOK, PerRunInv, [Next]_vars,
           NEW p \in Procs, NEW s, Goes(p, s), Balanced(p, s)
    PROVE  PerRunInv'
<1>. ContactTypeOK'
  BY ContactTypeStep
<1>. USE DEF Goes, Balanced
<1>1. BeforeSend \in StepSets /\ AfterSend \in StepSets /\ WorkSteps \in StepSets
  BY DEF StepSets
<1>2. ASSUME NEW t \in Tasks, NEW S \in StepSets PROVE IsFiniteSet(InSteps(t, S)')
  BY Recount
<1>3. ASSUME NEW t \in Tasks
      PROVE  /\ sends'[t] + Cardinality(InSteps(t, BeforeSend)') <= runs'[t]
             /\ sentRows'[t] + failedRows'[t] + Cardinality(InSteps(t, WorkSteps)') <= runs'[t]
             /\ faults' = 0 =>
                  sends'[t] <=
                      sentRows'[t] + failedRows'[t] + Cardinality(InSteps(t, AfterSend)')
  <2>. DEFINE Count(S) == Cardinality(InSteps(t, S))
              Later(S) == Cardinality(InSteps(t, S)')
  <2>1. \A S \in StepSets :
          /\ Count(S) \in Nat /\ Later(S) \in Nat
          /\ Later(S) = IF job[p] = t THEN Count(S) + Is(s, S) - Is(step[p], S) ELSE Count(S)
    BY Recount
  <2>2. /\ sends[t] + Count(BeforeSend) <= runs[t]
        /\ sentRows[t] + failedRows[t] + Count(WorkSteps) <= runs[t]
        /\ faults' = 0 => sends[t] <= sentRows[t] + failedRows[t] + Count(AfterSend)
    BY DEF PerRunInv
  <2>3. /\ sends[t] \in Nat /\ runs[t] \in Nat /\ sentRows[t] \in Nat /\ failedRows[t] \in Nat
        /\ sends'[t] \in Nat /\ runs'[t] \in Nat
        /\ sentRows'[t] \in Nat /\ failedRows'[t] \in Nat
    BY DEF ContactTypeOK, TasksTypeOK
  <2>4. \A S : Is(s, S) \in Nat /\ Is(step[p], S) \in Nat
    BY DEF Is
  <2>. HIDE DEF Count, Later
  <2>5. /\ sends'[t] + Later(BeforeSend) <= runs'[t]
        /\ sentRows'[t] + failedRows'[t] + Later(WorkSteps) <= runs'[t]
        /\ faults' = 0 => sends'[t] <= sentRows'[t] + failedRows'[t] + Later(AfterSend)
    <3>1. CASE job[p] = t
      BY <1>1, <2>1, <2>2, <2>3, <2>4, <3>1
    <3>2. CASE job[p] # t
      BY <1>1, <2>1, <2>2, <2>3, <3>2
    <3>. QED BY <3>1, <3>2
  <2>. QED BY <2>5 DEF Later
<1>. QED BY <1>2, <1>3 DEF PerRunInv

\* Nothing that is counted changes.
LEMMA NothingCounted ==
    ASSUME PerRunInv, UNCHANGED <<runs, messageVars>>, faults' = 0 => faults = 0,
           \A t \in Tasks, S \in StepSets : InSteps(t, S)' = InSteps(t, S)
    PROVE  PerRunInv'
<1>1. \A t \in Tasks : /\ InSteps(t, BeforeSend)' = InSteps(t, BeforeSend)
                       /\ InSteps(t, AfterSend)' = InSteps(t, AfterSend)
                       /\ InSteps(t, WorkSteps)' = InSteps(t, WorkSteps)
  BY DEF StepSets
<1>. QED BY <1>1 DEF PerRunInv, messageVars

LEMMA PerRunStep == ContactTypeOK /\ PerRunInv /\ [Next]_vars => PerRunInv'
<1>. SUFFICES ASSUME ContactTypeOK, PerRunInv, [Next]_vars PROVE PerRunInv'
  OBVIOUS
<1>0. /\ TasksTypeOK /\ faults \in Nat /\ runs \in [Tasks -> Nat]
      /\ sends \in [Tasks -> Nat] /\ sentRows \in [Tasks -> Nat] /\ failedRows \in [Tasks -> Nat]
      /\ \A p \in Procs : pc[p] = "work" => job[p] \in Tasks
  BY TasksAssumption DEF ContactTypeOK, TasksTypeOK, Steps
<1>1. ASSUME UNCHANGED <<job, step, runs, messageVars>>, faults' = 0 => faults = 0
      PROVE  PerRunInv'
  BY <1>1, NothingCounted DEF InSteps
<1>2. ASSUME NEW t \in Tasks, Endpoint(t) PROVE PerRunInv'
  BY <1>0, <1>1, <1>2 DEF Endpoint, Admit, AddTask, AddAttempt, AddAttemptFails, ApiAddTask,
                    ApiAddEntity, ApiFault, tasksVars, procVars, contactVars
<1>3. ASSUME NEW w \in Workers, RestartWorker(w) \/ (WorkerTurn(w) /\ Poll(w)) PROVE PerRunInv'
  BY <1>1, <1>3 DEF RestartWorker, Restart, WorkerTurn, Poll, contactVars
<1>4. ASSUME NEW w \in Workers, Pick(w), UNCHANGED contactVars PROVE PerRunInv'
  <2>1. PICK u : job' = [job EXCEPT ![w] = u]
    BY <1>4 DEF Pick
  <2>2. w \in Procs /\ step[w] = "none" /\ UNCHANGED <<step, runs, faults, messageVars>>
    BY <1>0, <1>4 DEF Pick, Procs, ContactTypeOK, contactVars
  <2>3. \A t \in Tasks, S \in StepSets : InSteps(t, S)' = InSteps(t, S)
    BY <1>0, <2>1, <2>2 DEF InSteps, StepSets, BeforeSend, AfterSend, WorkSteps, TasksTypeOK
  <2>. QED BY <2>2, <2>3, NothingCounted
<1>5. ASSUME NEW p \in Procs, Shared(p) \/ SaveFault(p) PROVE PerRunInv'
  BY <1>0, <1>1, <1>5
     DEF Shared, LoadTask, LoadNoEntity, LoadEntity, SaveTask, EndTask, FailTaskOnly, Return,
         SaveFault, TryFault, Raise, contactVars
<1>. USE DEF Is, BeforeSend, AfterSend, WorkSteps
<1>6. ASSUME NEW p \in Procs, Begin(p) PROVE PerRunInv'
  <2>1. /\ step' = [step EXCEPT ![p] = "compose"] /\ step[p] = "none" /\ job[p] \in Tasks
        /\ UNCHANGED <<job, faults, sends, sentRows, failedRows>>
        /\ runs' = [runs EXCEPT ![job[p]] = @ + 1]
    BY <1>0, <1>6 DEF Begin, BeginWork, ContactTypeOK, TasksTypeOK, messageVars, Steps, SavingEntity
  <2>2. runs'[job[p]] = runs[job[p]] + 1 /\ \A t \in Tasks : t # job[p] => runs'[t] = runs[t]
    BY <1>0, <2>1
  <2>3. Goes(p, "compose") /\ Balanced(p, "compose")
    BY <1>0, <2>1, <2>2 DEF Goes, Balanced
  <2>. QED BY <2>3, Counted
<1>7. ASSUME NEW p \in Procs, Composes(p) \/ ComposeFails(p) \/ RecordRaises(p) PROVE PerRunInv'
  <2>1. UNCHANGED <<job, faults, runs, sends, sentRows, failedRows>>
    BY <1>7 DEF Composes, ComposeFails, RecordRaises, WorkFails, Raise, tasksVars, procVars,
                messageVars
  <2>2. CASE step[p] = "compose" /\ step' = [step EXCEPT ![p] = "send"]
    <3>1. Goes(p, "send") /\ Balanced(p, "send")
      BY <1>0, <2>1, <2>2 DEF Goes, Balanced
    <3>. QED BY <3>1, Counted
  <2>3. CASE step[p] = "compose" /\ step' = [step EXCEPT ![p] = "none"]
    <3>1. Goes(p, "none") /\ Balanced(p, "none")
      BY <1>0, <2>1, <2>3 DEF Goes, Balanced
    <3>. QED BY <3>1, Counted
  <2>4. CASE step[p] = "record" /\ step' = [step EXCEPT ![p] = "recordFailed"]
    <3>1. Goes(p, "recordFailed") /\ Balanced(p, "recordFailed")
      BY <1>0, <2>1, <2>4 DEF Goes, Balanced
    <3>. QED BY <3>1, Counted
  <2>. QED BY <1>7, <2>2, <2>3, <2>4 DEF Composes, ComposeFails, RecordRaises, At
<1>8. ASSUME NEW p \in Procs, Sends(p) \/ SendFails(p) PROVE PerRunInv'
  <2>1. step[p] = "send" /\ job[p] \in Tasks
    BY <1>0, <1>8 DEF Sends, SendFails, At
  <2>2. PICK s \in AfterSend : step' = [step EXCEPT ![p] = s]
    BY <1>8 DEF Sends, SendFails
  <2>3. UNCHANGED <<job, faults, runs, sentRows, failedRows>>
    BY <1>8 DEF Sends, SendFails, tasksVars, procVars
  <2>4. sends' = sends \/ sends' = [sends EXCEPT ![job[p]] = @ + 1]
    BY <1>8 DEF Sends, SendFails, Deliver
  <2>5. /\ sends'[job[p]] - sends[job[p]] \in {0, 1}
        /\ \A t \in Tasks : t # job[p] => sends'[t] = sends[t]
    BY <1>0, <2>1, <2>4
  <2>6. /\ Is(s, BeforeSend) = 0 /\ Is(s, WorkSteps) = 1 /\ Is(s, AfterSend) = 1
        /\ Is(step[p], BeforeSend) = 1 /\ Is(step[p], WorkSteps) = 1
        /\ Is(step[p], AfterSend) = 0
    BY <2>1
  <2>. HIDE DEF Is
  <2>7. Goes(p, s) /\ Balanced(p, s)
    BY <1>0, <2>1, <2>2, <2>3, <2>5, <2>6 DEF Goes, Balanced
  <2>. QED BY <2>7, Counted
<1>9. ASSUME NEW p \in Procs, RecordSent(p) \/ RecordFailed(p) PROVE PerRunInv'
  <2>1. /\ step[p] \in AfterSend /\ job[p] \in Tasks /\ step' = [step EXCEPT ![p] = "none"]
        /\ UNCHANGED <<job, faults, runs, sends>>
    BY <1>0, <1>9 DEF RecordSent, RecordFailed, At, WorkSucceeds, WorkFails, Raise
  <2>2. \/ sentRows' = [sentRows EXCEPT ![job[p]] = @ + 1] /\ UNCHANGED failedRows
        \/ failedRows' = [failedRows EXCEPT ![job[p]] = @ + 1] /\ UNCHANGED sentRows
    BY <1>9 DEF RecordSent, RecordFailed
  <2>3. /\ sentRows'[job[p]] + failedRows'[job[p]] = sentRows[job[p]] + failedRows[job[p]] + 1
        /\ \A t \in Tasks : t # job[p] =>
                sentRows'[t] = sentRows[t] /\ failedRows'[t] = failedRows[t]
    BY <1>0, <2>1, <2>2
  <2>4. /\ Is("none", BeforeSend) = 0 /\ Is("none", WorkSteps) = 0 /\ Is("none", AfterSend) = 0
        /\ Is(step[p], BeforeSend) = 0 /\ Is(step[p], WorkSteps) = 1
        /\ Is(step[p], AfterSend) = 1
    BY <2>1
  <2>. HIDE DEF Is
  <2>5. Goes(p, "none") /\ Balanced(p, "none")
    BY <1>0, <2>1, <2>3, <2>4 DEF Goes, Balanced
  <2>. QED BY <2>5, Counted
<1>10. ASSUME NEW p \in Procs, CrashContact(p) PROVE PerRunInv'
  <2>1. /\ step' = [step EXCEPT ![p] = "none"] /\ faults' # 0
        /\ UNCHANGED <<job, runs, sends, sentRows, failedRows>>
    BY <1>0, <1>10 DEF CrashContact, Crash, Die, messageVars
  <2>2. Goes(p, "none") /\ Balanced(p, "none")
    BY <1>0, <2>1 DEF Goes, Balanced
  <2>. QED BY <2>2, Counted
<1>11. CASE UNCHANGED vars
  BY <1>1, <1>11 DEF vars, tasksVars, procVars, contactVars
<1>. QED
  BY <1>2, <1>3, <1>4, <1>5, <1>6, <1>7, <1>8, <1>9, <1>10, <1>11
     DEF Next, Work, WorkerTurn, WorkerStep

LEMMA PerRunInvariant == Spec => []PerRunInv
BY PerRunInit, PerRunStep, ContactTypeCorrect, PTL DEF Spec

(***************************************************************************)
(* However many processors are at an attempt and whatever fails, there are *)
(* no more messages and no more conversation rows than runs.               *)
(***************************************************************************)
THEOREM OneMessageOfEachRun == Spec => []OneMessagePerRun
<1>1. ASSUME ContactTypeOK, PerRunInv, NEW t \in Tasks
      PROVE  sends[t] <= runs[t] /\ sentRows[t] + failedRows[t] <= runs[t]
  <2>1. /\ Cardinality(InSteps(t, BeforeSend)) \in Nat
        /\ Cardinality(InSteps(t, WorkSteps)) \in Nat
    BY <1>1, FS_CardinalityType DEF PerRunInv, StepSets
  <2>2. /\ sends[t] \in Nat /\ runs[t] \in Nat /\ sentRows[t] \in Nat /\ failedRows[t] \in Nat
        /\ sends[t] + Cardinality(InSteps(t, BeforeSend)) <= runs[t]
        /\ sentRows[t] + failedRows[t] + Cardinality(InSteps(t, WorkSteps)) <= runs[t]
    BY <1>1 DEF ContactTypeOK, TasksTypeOK, PerRunInv
  <2>. QED BY <2>1, <2>2
<1>2. ContactTypeOK /\ PerRunInv => OneMessagePerRun
  BY <1>1 DEF OneMessagePerRun
<1>. QED BY <1>2, ContactTypeCorrect, PerRunInvariant, PTL

(***************************************************************************)
(* While nothing has failed, what reached the supplier is in the           *)
(* conversation or about to be recorded by the run that sent it.           *)
(***************************************************************************)
THEOREM DeliveriesRecorded == Spec => []EveryDeliveryRecorded
<1>1. \A t \in Tasks : AtRecord(t) = InSteps(t, AfterSend)
  BY DEF AtRecord, InSteps, AfterSend
<1>2. PerRunInv => EveryDeliveryRecorded
  BY <1>1 DEF PerRunInv, EveryDeliveryRecorded
<1>. QED BY <1>2, PerRunInvariant, PTL

=============================================================================
