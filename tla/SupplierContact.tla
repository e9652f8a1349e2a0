--------------------------- MODULE SupplierContact ---------------------------
(***************************************************************************)
(* Contacting a supplier: process_supplier_contact as the work of a queued *)
(* task, and the two endpoints that create contact attempts.               *)
(*                                                                         *)
(* Here the entity of a task is a ContactAttempt and Done is "sent".  The  *)
(* work generates a message, hands it to the e-mail or Telegram connector  *)
(* and records it as a conversation message.  What the supplier receives   *)
(* is outside every transaction.  Each step below is a step of AgentTasks  *)
(* or leaves its variables alone.                                          *)
(***************************************************************************)
EXTENDS AgentTasks

CONSTANTS
    Products,  \* the products of the attempts
    ProductOf  \* ProductOf[t]: the product that task t is about

ASSUME ContactAssumption ==
    /\ Done = "sent"
    /\ ProductOf \in [Tasks -> Products]

VARIABLES
    admitted,   \* admitted[t]: the endpoint's has_active test let the request pass
    step,       \* step[p]: where p is in the work of its task
    sends,      \* sends[t]: messages of t that reached the supplier (history)
    sentRows,   \* sentRows[t]: conversation messages of t marked sent
    failedRows  \* failedRows[t]: conversation messages of t marked failed

messageVars == <<sends, sentRows, failedRows>>
contactVars == <<admitted, step, messageVars>>
vars == <<tasksVars, contactVars>>

WorkSteps == {"compose", "send", "record", "recordFailed"}

Init ==
    /\ TasksInit
    /\ admitted = [t \in Tasks |-> FALSE]
    /\ step = [p \in Procs |-> "none"]
    /\ sends = [t \in Tasks |-> 0]
    /\ sentRows = [t \in Tasks |-> 0]
    /\ failedRows = [t \in Tasks |-> 0]

-----------------------------------------------------------------------------
\* contact_supplier and request_agent_reply.

HasActive(product) ==
    \E t \in Tasks : ProductOf[t] = product /\ entity[t] \in Active

\* The test reads the attempts before anything is written; a refusal is a 409.
Admit(t) ==
    /\ api[t] = "new" /\ ~admitted[t]
    /\ ~HasActive(ProductOf[t])
    /\ admitted' = [admitted EXCEPT ![t] = TRUE]
    /\ UNCHANGED <<tasksVars, step, messageVars>>

AddTask(t) == admitted[t] /\ ApiAddTask(t) /\ UNCHANGED contactVars

AddAttempt(t) == ApiAddEntity(t) /\ UNCHANGED contactVars

AddAttemptFails(t) == ApiFault(t) /\ UNCHANGED contactVars

-----------------------------------------------------------------------------
\* The work: generate, test against the policy, send, record.

Begin(p) ==
    /\ BeginWork(p)
    /\ step' = [step EXCEPT ![p] = "compose"]
    /\ UNCHANGED <<admitted, messageVars>>

At(p, s) == pc[p] = "work" /\ step[p] = s

Composes(p) ==
    /\ At(p, "compose")
    /\ step' = [step EXCEPT ![p] = "send"]
    /\ UNCHANGED <<tasksVars, admitted, messageVars>>

\* Mutant: a text that the policy rejects ends the call and fails nothing.
ComposeReturns(p) ==
    /\ At(p, "compose")
    /\ Return(p)
    /\ step' = [step EXCEPT ![p] = "none"]
    /\ UNCHANGED <<task, entity, api, job, taskCopy, entityCopy, batch, runs, faults>>
    /\ UNCHANGED <<admitted, messageVars>>

\* Generation raises, the policy rejects the text or there is no connector.
ComposeFails(p) ==
    /\ At(p, "compose")
    /\ WorkFails(p)
    /\ step' = [step EXCEPT ![p] = "none"]
    /\ UNCHANGED <<admitted, messageVars>>

Deliver(t) == sends' = [sends EXCEPT ![t] = @ + 1]

Sends(p) ==
    /\ At(p, "send")
    /\ Deliver(job[p])
    /\ step' = [step EXCEPT ![p] = "record"]
    /\ UNCHANGED <<tasksVars, admitted, sentRows, failedRows>>

\* Mutant: the connector's success flag is not looked at.
SendFailureIgnored(p) ==
    /\ At(p, "send")
    /\ Deliver(job[p]) \/ UNCHANGED sends
    /\ step' = [step EXCEPT ![p] = "record"]
    /\ UNCHANGED <<tasksVars, admitted, sentRows, failedRows>>

(***************************************************************************)
(* The connector answers success=False.  The supplier may have the message *)
(* all the same: an error after the server took the data, at the closing   *)
(* of the SMTP session or in reading the HTTP answer, is a failure too.    *)
(***************************************************************************)
SendFails(p) ==
    /\ At(p, "send")
    /\ Deliver(job[p]) \/ UNCHANGED sends
    /\ step' = [step EXCEPT ![p] = "recordFailed"]
    /\ UNCHANGED <<tasksVars, admitted, sentRows, failedRows>>

\* Mutant: the message that was sent is not recorded.
SucceedsUnrecorded(p) ==
    /\ At(p, "record")
    /\ WorkSucceeds(p)
    /\ step' = [step EXCEPT ![p] = "none"]
    /\ UNCHANGED <<admitted, messageVars>>

RecordSent(p) ==
    /\ At(p, "record")
    /\ WorkSucceeds(p)
    /\ sentRows' = [sentRows EXCEPT ![job[p]] = @ + 1]
    /\ step' = [step EXCEPT ![p] = "none"]
    /\ UNCHANGED <<admitted, sends, failedRows>>

\* Mutant: the insert is tried again together with the send.
RecordRetries(p) ==
    /\ At(p, "record")
    /\ faults < MaxFaults
    /\ step' = [step EXCEPT ![p] = "send"]
    /\ UNCHANGED <<tasksVars, admitted, messageVars>>

\* The insert raises: the handler marks the same message failed.
RecordRaises(p) ==
    /\ At(p, "record")
    /\ faults < MaxFaults
    /\ step' = [step EXCEPT ![p] = "recordFailed"]
    /\ UNCHANGED <<tasksVars, admitted, messageVars>>

RecordFailed(p) ==
    /\ At(p, "recordFailed")
    /\ WorkFails(p)
    /\ failedRows' = [failedRows EXCEPT ![job[p]] = @ + 1]
    /\ step' = [step EXCEPT ![p] = "none"]
    /\ UNCHANGED <<admitted, sends, sentRows>>

Work(p) ==
    \/ Composes(p) \/ ComposeFails(p) \/ Sends(p) \/ SendFails(p)
    \/ RecordSent(p) \/ RecordFailed(p)

\* Mutant: the handler marks a message that is in the table already.
SaveFaultOverwrites(p) ==
    /\ TryFault(p)
    /\ IF pc[p] \in {"finishTask", "finishEntity"}
       THEN /\ sentRows' = [sentRows EXCEPT ![job[p]] = @ - 1]
            /\ failedRows' = [failedRows EXCEPT ![job[p]] = @ + 1]
       ELSE UNCHANGED <<sentRows, failedRows>>
    /\ UNCHANGED <<admitted, step, sends>>

\* Before the work there is no message; after it the message is in the table.
SaveFault(p) == TryFault(p) /\ UNCHANGED contactVars

CrashContact(p) ==
    /\ Crash(p)
    /\ step' = [step EXCEPT ![p] = "none"]
    /\ UNCHANGED <<admitted, messageVars>>

-----------------------------------------------------------------------------
\* The steps in which nothing of this module changes.
Shared(p) ==
    /\ \/ LoadTask(p) \/ LoadNoEntity(p) \/ LoadEntity(p)
       \/ SaveTask(p) \/ EndTask(p) \/ FailTaskOnly(p)
    /\ UNCHANGED contactVars

WorkerTurn(w) == WorkerStep(w) /\ UNCHANGED contactVars

RestartWorker(w) == Restart(w) /\ UNCHANGED contactVars

Endpoint(t) == Admit(t) \/ AddTask(t) \/ AddAttempt(t) \/ AddAttemptFails(t)

Next ==
    \/ \E t \in Tasks : Endpoint(t)
    \/ \E w \in Workers : WorkerTurn(w) \/ RestartWorker(w)
    \/ \E p \in Procs : Shared(p) \/ Begin(p) \/ Work(p)
    \/ \E p \in Procs : RecordRaises(p) \/ SaveFault(p) \/ CrashContact(p)

Spec == Init /\ [][Next]_vars

\* As in AgentTasks; a request that was admitted is carried through.
Fairness ==
    /\ \A t \in Tasks : WF_vars(AddTask(t) \/ AddAttempt(t))
    /\ \A w \in Workers : WF_vars(WorkerTurn(w)) /\ WF_vars(RestartWorker(w))
    /\ \A p \in Procs : WF_vars(Shared(p) \/ Begin(p) \/ Work(p))

FairSpec == Spec /\ Fairness

-----------------------------------------------------------------------------
\* Properties.

\* Types; a processor is in a step of the work exactly when it is at work.
ContactTypeOK ==
    /\ TasksTypeOK
    /\ admitted \in [Tasks -> BOOLEAN]
    /\ step \in [Procs -> WorkSteps \cup {"none"}]
    /\ \A p \in Procs : pc[p] = "work" <=> step[p] # "none"
    /\ sends \in [Tasks -> Nat]
    /\ sentRows \in [Tasks -> Nat]
    /\ failedRows \in [Tasks -> Nat]

(***************************************************************************)
(* An attempt shown as sent, or a task as completed, has a message that    *)
(* the supplier received and a sent conversation message to show for it,   *)
(* however many processors are at the task and whatever fails.             *)
(***************************************************************************)
SuccessIsBacked ==
    \A t \in Tasks :
        entity[t] = "sent" \/ task[t] = "completed" => sends[t] >= 1 /\ sentRows[t] >= 1

(***************************************************************************)
(* A run of process_supplier_contact delivers at most one message and      *)
(* leaves at most one conversation message: a failed insert or a failed    *)
(* final write never turns into a second send or a second record.          *)
(***************************************************************************)
OneMessagePerRun ==
    \A t \in Tasks : sends[t] <= runs[t] /\ sentRows[t] + failedRows[t] <= runs[t]

AtRecord(t) == {p \in Procs : job[p] = t /\ step[p] \in {"record", "recordFailed"}}

\* As long as nothing fails, whatever reached the supplier is in the conversation.
EveryDeliveryRecorded ==
    faults = 0 =>
        \A t \in Tasks :
            sends[t] <= sentRows[t] + failedRows[t] + Cardinality(AtRecord(t))

\* No supplier gets two messages for one contact attempt (test_protocol.md:1881).
NoDoubleSend == \A t \in Tasks : sends[t] <= 1

(***************************************************************************)
(* While an attempt on a product is active a second request is refused: at *)
(* most one is active at a time (Main.md:1964).                            *)
(***************************************************************************)
OneActiveAttemptPerProduct ==
    \A t, u \in Tasks :
        ProductOf[t] = ProductOf[u] /\ entity[t] \in Active /\ entity[u] \in Active => t = u

\* A request that finds the product free does not stay without an outcome.
AttemptsSettle ==
    \A t \in Tasks : entity[t] = "queued" ~> entity[t] \in Terminal

(***************************************************************************)
(* With the worker and a background job at every task, a request that was  *)
(* answered settles in both rows and then stays settled, unless something  *)
(* fails: although the two overwrite each other's rows, and write running  *)
(* over settled ones, whoever does so settles them again.                  *)
(***************************************************************************)
WorkSettlesForGood ==
    \A t \in Tasks :
        api[t] = "done" ~>
            (faults > 0 \/ [](task[t] \in Terminal /\ entity[t] \in Terminal))

=============================================================================
