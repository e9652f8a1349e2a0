------------------------- MODULE ProductSearch_proofs -------------------------
(***************************************************************************)
(* Product search, in every deployment: it implements the task queue; a    *)
(* completed request has something to show; and while a request was worked *)
(* on once, no supplier with a site of its own is in its results twice.    *)
(***************************************************************************)
EXTENDS ProductSearch, AgentTasks_proofs, Lists_proofs

-----------------------------------------------------------------------------
\* A row has the URL and the key of the offer it is made from.
LEMMA RowOfOffer ==
    ASSUME NEW offer
    PROVE  Row(offer).url = offer.url /\ KeyOf(Row(offer)) = KeyOf(offer)
BY DEF Row, KeyOf

\* The demo product has a key of its own: nothing else is on its platform.
LEMMA DemoRow == Demo.url = DemoUrl /\ KeyOf(Demo) = DemoKey
BY DEF Demo, DemoKey

LEMMA KeyIsReal ==
    ASSUME NEW offer, offer.platform \in {"site", "made-in-china"}
    PROVE  KeyOf(offer) # DemoKey
BY DEF KeyOf, DemoKey, Demo

\* Two sites of one supplier have one key.
LEMMA SiteKey ==
    ASSUME NEW q, NEW r, q.platform = "site", r.platform = "site", q.supplier = r.supplier
    PROVE  KeyOf(q) = KeyOf(r)
BY DEF KeyOf

-----------------------------------------------------------------------------
(***************************************************************************)
(* Every step of a product search is a step of the queue or a stutter.     *)
(***************************************************************************)
LEMMA StepIsTasksStep == [Next]_vars => [TasksNext]_tasksVars
<1>. SUFFICES ASSUME [Next]_vars PROVE [TasksNext]_tasksVars
  OBVIOUS
<1>1. ASSUME NEW t \in Tasks, Endpoint(t) PROVE [TasksNext]_tasksVars
  BY <1>1 DEF Endpoint, TasksNext
<1>2. ASSUME NEW w \in Workers, WorkerTurn(w) PROVE [TasksNext]_tasksVars
  BY <1>2 DEF WorkerTurn, TasksNext
<1>3. ASSUME NEW p \in Procs, Shared(p) \/ Load(p) \/ Begin(p) \/ End(p)
      PROVE  [TasksNext]_tasksVars
  BY <1>3 DEF Shared, Load, Begin, End, TasksNext, Protocol
<1>4. ASSUME NEW p \in Procs, Work(p) \/ Clash(p) PROVE [TasksNext]_tasksVars
  BY <1>4 DEF Work, Research, Snapshot, Skip, Add, EndLoop, AddDemo, Succeed, Raises,
              Clash, AddClashes, AddDemoClashes, TasksNext
<1>5. ASSUME NEW p \in Procs, SaveFault(p) \/ CrashSearch(p) PROVE [TasksNext]_tasksVars
  BY <1>5 DEF SaveFault, CrashSearch, TasksNext, Fault
<1>6. CASE UNCHANGED vars
  BY <1>6 DEF vars
<1>. QED BY <1>1, <1>2, <1>3, <1>4, <1>5, <1>6 DEF Next

\* process_product_search is the work of a queued task, whatever its sources answer.
THEOREM SearchImplementsTasks == Spec => TasksSpec
<1>1. Init => TasksInit
  BY DEF Init
<1>. QED BY <1>1, StepIsTasksStep, PTL DEF Spec, TasksSpec

-----------------------------------------------------------------------------
(***************************************************************************)
(* What the steps of a search have in common, for both results below: a    *)
(* processor is in a stage while it is at work, and its counter counts.    *)
(***************************************************************************)
SearchFrame ==
    /\ TasksTypeOK
    /\ DOMAIN products = Tasks
    /\ DOMAIN seen = Procs
    /\ created \in [Procs -> Nat]
    /\ stage \in [Procs -> Stages]
    /\ \A p \in Procs : pc[p] = "work" <=> stage[p] # "none"

LEMMA FrameInit == Init => SearchFrame
BY TypeInit DEF Init, TasksInit, SearchFrame, Stages

\* A processor that stays at work goes from stage to stage.
LEMMA FrameOfStage ==
    ASSUME SearchFrame, TasksTypeOK', NEW p \in Procs, stage[p] # "none",
           NEW s \in Stages \ {"none"}, UNCHANGED pc,
           stage' = [stage EXCEPT ![p] = s], DOMAIN products' = Tasks, DOMAIN seen' = Procs,
           created' \in [Procs -> Nat]
    PROVE  SearchFrame'
BY DEF SearchFrame

\* One that leaves its work is in no stage, and has counted nothing.
LEMMA FrameOfForget ==
    ASSUME SearchFrame, TasksTypeOK', NEW p \in Procs, NEW step, step # "work",
           pc' = [pc EXCEPT ![p] = step], UNCHANGED products, Forget(p)
    PROVE  SearchFrame'
<1>1. pc \in [Procs -> Steps \cup {"idle", "waiting", "done"}]
  BY DEF SearchFrame, TasksTypeOK
<1>. QED BY <1>1 DEF SearchFrame, Forget, Stages

LEMMA FrameStep == SearchFrame /\ [Next]_vars => SearchFrame'
<1>. SUFFICES ASSUME SearchFrame, [Next]_vars PROVE SearchFrame'
  OBVIOUS
<1>0. TasksTypeOK /\ TasksTypeOK'
  BY StepIsTasksStep, TypeStep DEF SearchFrame
<1>1. ASSUME NEW t \in Tasks, Endpoint(t) PROVE SearchFrame'
  <2>1. \A p \in Procs : pc'[p] = "work" <=> pc[p] = "work"
    BY <1>0, <1>1, TasksAssumption
       DEF Endpoint, ApiNext, ApiAddTask, ApiAddEntity, ApiFault, procVars, Procs, TasksTypeOK
  <2>. QED BY <1>0, <1>1, <2>1 DEF Endpoint, SearchFrame, searchVars, localVars
<1>2. ASSUME NEW w \in Workers, WorkerTurn(w) PROVE SearchFrame'
  BY <1>0, <1>2
     DEF WorkerTurn, WorkerStep, Poll, Pick, Restart, SearchFrame, TasksTypeOK, searchVars,
         localVars
<1>3. ASSUME NEW p \in Procs, Shared(p) \/ Load(p) \/ End(p) PROVE SearchFrame'
  <2>1. \A q \in Procs : pc'[q] = "work" <=> pc[q] = "work"
    BY <1>0, <1>3, EntityWriteType
       DEF Shared, Load, End, LoadTask, LoadNoEntity, LoadEntity, SaveTask, EndTask,
           FailTaskOnly, Return, SavingTask, SavingEntity, TasksTypeOK
  <2>. QED BY <1>0, <1>3, <2>1
           DEF Shared, Load, End, SearchFrame, searchVars, localVars
<1>4. ASSUME NEW p \in Procs, Begin(p) PROVE SearchFrame'
  BY <1>0, <1>4 DEF Begin, BeginWork, SearchFrame, TasksTypeOK, Stages
<1>5. ASSUME NEW p \in Procs, Research(p) \/ Snapshot(p) PROVE SearchFrame'
  <2>1. PICK s \in {"snapshot", "loop"} : stage' = [stage EXCEPT ![p] = s]
    BY <1>5 DEF Research, Snapshot
  <2>. QED BY <1>0, <1>5, <2>1, FrameOfStage
           DEF Research, Snapshot, At, SearchFrame, Stages, tasksVars, procVars
<1>6. ASSUME NEW p \in Procs, EndLoop(p) \/ AddDemo(p) PROVE SearchFrame'
  <2>1. PICK s \in {"addDemo", "count"} : stage' = [stage EXCEPT ![p] = s]
    BY <1>6 DEF EndLoop, AddDemo
  <2>2. stage[p] # "none" /\ DOMAIN products' = Tasks /\ UNCHANGED <<pc, seen, created>>
    BY <1>0, <1>6
       DEF EndLoop, LoopDone, AddDemo, Inserts, At, SearchFrame, tasksVars, procVars
  <2>. QED BY <1>0, <2>1, <2>2, FrameOfStage DEF SearchFrame, Stages
<1>7. ASSUME NEW p \in Procs, Skip(p) \/ Add(p) PROVE SearchFrame'
  BY <1>0, <1>7 DEF Skip, Add, Inserts, SearchFrame, tasksVars, procVars
<1>8. ASSUME NEW p \in Procs, Succeed(p) \/ Raises(p) \/ Clash(p) PROVE SearchFrame'
  <2>1. PICK step \in {"finishTask", "failTask"} : pc' = [pc EXCEPT ![p] = step]
    BY <1>8 DEF Succeed, WorkSucceeds, Raises, Clash, AddClashes, AddDemoClashes, WorkFails,
                Raise
  <2>2. UNCHANGED products /\ Forget(p)
    BY <1>8 DEF Succeed, Raises, Clash, AddClashes, AddDemoClashes
  <2>. QED BY <1>0, <2>1, <2>2, FrameOfForget
<1>9. ASSUME NEW p \in Procs, SaveFault(p) PROVE SearchFrame'
  BY <1>0, <1>9 DEF SaveFault, TryFault, Raise, InTry, SearchFrame, TasksTypeOK, searchVars,
                    localVars
<1>10. ASSUME NEW p \in Procs, CrashSearch(p) PROVE SearchFrame'
  <2>1. pc' = [pc EXCEPT ![p] = "dead"] /\ UNCHANGED products /\ Forget(p)
    BY <1>10 DEF CrashSearch, Crash, Die
  <2>. QED BY <1>0, <2>1, FrameOfForget
<1>11. CASE UNCHANGED vars
  BY <1>0, <1>11 DEF vars, tasksVars, procVars, searchVars, localVars, SearchFrame
<1>. QED
  BY <1>1, <1>2, <1>3, <1>4, <1>5, <1>6, <1>7, <1>8, <1>9, <1>10, <1>11 DEF Next, Work

-----------------------------------------------------------------------------
(***************************************************************************)
(* A completed request has something to show.  Products are only added, so *)
(* it is enough that whoever comes to the count has seen one in the table: *)
(* it added one, or the demo product was there, or it put that in.  Copies *)
(* that say completed carry the fact to whenever they are written.         *)
(***************************************************************************)
Showing(t) == products[t] # {}

CopyInUse == {"work"} \cup SavingTask \cup SavingEntity

ShownInv ==
    /\ \A t \in Tasks : entity[t] = "completed" => Showing(t)
    /\ \A p \in Procs :
        /\ pc[p] \in CopyInUse /\ entityCopy[p] = "completed" => Showing(job[p])
        /\ created[p] # 0 => stage[p] # "none" /\ Showing(job[p])
        /\ stage[p] = "loop" => seen[p].urls \subseteq Urls(products[job[p]])
        /\ stage[p] = "count" => Showing(job[p])

LEMMA ShownInit == Init => ShownInv
BY DEF Init, TasksInit, ShownInv, CopyInUse, SavingTask, SavingEntity

\* The rows and the copies in use, as far as they say completed.
RowsShow == \A t \in Tasks : entity[t] = "completed" => Showing(t)

CopiesShow ==
    \A p \in Procs : pc[p] \in CopyInUse /\ entityCopy[p] = "completed" => Showing(job[p])

\* Steps of the queue concern the rows and copies, and leave the search's own state alone.
LEMMA QueueStepShows ==
    ASSUME ShownInv, UNCHANGED <<products, stage, seen, created>>, RowsShow', CopiesShow',
           \A p \in Procs : stage[p] # "none" => job'[p] = job[p]
    PROVE  ShownInv'
BY DEF ShownInv, RowsShow, CopiesShow, Showing

\* Steps of the work leave the queue's state alone, and take no product away.
LEMMA WorkStepShows ==
    ASSUME ShownInv, UNCHANGED <<entity, pc, job, entityCopy>>,
           \A t \in Tasks : products[t] \subseteq products'[t],
           \A p \in Procs : pc[p] \in CopyInUse => job[p] \in Tasks
    PROVE  RowsShow' /\ CopiesShow'
BY DEF ShownInv, RowsShow, CopiesShow, Showing

LEMMA ShownStep ==
    ASSUME DemoAllowed, SearchFrame, ShownInv, [Next]_vars
    PROVE  ShownInv'
<1>0. /\ pc \in [Procs -> Steps \cup {"idle", "waiting", "done"}]
      /\ job \in [Procs -> Tasks \cup {NoTask}]
      /\ entity \in [Tasks -> RowStatuses] /\ entityCopy \in [Procs -> RowStatuses]
      /\ \A p \in Procs : pc[p] \in Steps \ {"dead"} => job[p] \in Tasks
      /\ \A p \in Procs : stage[p] # "none" => pc[p] = "work"
  BY DEF SearchFrame, TasksTypeOK
<1>1. RowsShow /\ CopiesShow
  BY DEF ShownInv, RowsShow, CopiesShow
<1>2. ASSUME NEW t \in Tasks, Endpoint(t) PROVE ShownInv'
  <2>1. UNCHANGED <<products, stage, seen, created, job, entityCopy>>
    BY <1>2 DEF Endpoint, ApiNext, ApiAddTask, ApiAddEntity, ApiFault, procVars, searchVars,
                localVars
  <2>2. RowsShow'
    BY <1>0, <1>1, <1>2, <2>1
       DEF Endpoint, ApiNext, ApiAddTask, ApiAddEntity, ApiFault, RowsShow, Showing
  <2>3. \A p \in Procs : pc'[p] \in CopyInUse => pc'[p] = pc[p]
    BY <1>0, <1>2, TasksAssumption
       DEF Endpoint, ApiNext, ApiAddTask, ApiAddEntity, ApiFault, procVars, CopyInUse,
           SavingTask, SavingEntity
  <2>. QED BY <1>1, <2>1, <2>2, <2>3, QueueStepShows DEF CopiesShow, Showing
<1>3. ASSUME NEW w \in Workers, WorkerTurn(w) PROVE ShownInv'
  <2>1. UNCHANGED <<products, stage, seen, created, entity, entityCopy>>
    BY <1>3 DEF WorkerTurn, WorkerStep, Poll, Pick, Restart, searchVars, localVars
  <2>2. /\ \A p \in Procs : pc'[p] \in CopyInUse => pc'[p] = pc[p] /\ job'[p] = job[p]
        /\ \A p \in Procs : pc[p] = "work" => job'[p] = job[p]
    BY <1>0, <1>3 DEF WorkerTurn, WorkerStep, Poll, Pick, Restart, CopyInUse, SavingTask,
                      SavingEntity
  <2>. QED BY <1>0, <1>1, <2>1, <2>2, QueueStepShows DEF RowsShow, CopiesShow, Showing
<1>4. ASSUME NEW p \in Procs, Shared(p) PROVE ShownInv'
  <2>1. UNCHANGED <<products, stage, seen, created, entity, entityCopy, job>>
    BY <1>4 DEF Shared, LoadTask, LoadNoEntity, SaveTask, FailTaskOnly, searchVars, localVars
  <2>2. \A q \in Procs : pc'[q] \in CopyInUse => pc[q] \in CopyInUse
    BY <1>0, <1>4, EntityWriteType
       DEF Shared, LoadTask, LoadNoEntity, SaveTask, FailTaskOnly, Return, CopyInUse,
           SavingTask, SavingEntity
  <2>. QED BY <1>1, <2>1, <2>2, QueueStepShows DEF RowsShow, CopiesShow, Showing
<1>5. ASSUME NEW p \in Procs, Load(p) PROVE ShownInv'
  <2>1. UNCHANGED <<products, stage, seen, created, entity, job>> /\ job[p] \in Tasks
    BY <1>0, <1>5 DEF Load, LoadEntity, localVars, Steps
  <2>2. entityCopy'[p] = "completed" => entity[job[p]] = "completed"
    BY <1>0, <1>5 DEF Load, LoadEntity, AfterExcept
  <2>3. \A q \in Procs \ {p} : entityCopy'[q] = entityCopy[q] /\ pc'[q] = pc[q]
    BY <1>0, <1>5 DEF Load, LoadEntity
  <2>. QED BY <1>1, <2>1, <2>2, <2>3, QueueStepShows DEF RowsShow, CopiesShow, Showing
<1>6. ASSUME NEW p \in Procs, Begin(p) \/ End(p) PROVE ShownInv'
  <2>1. /\ UNCHANGED <<products, seen, created, entityCopy, job>>
        /\ entity' = [entity EXCEPT ![job[p]] = entityCopy[p]]
        /\ pc[p] \in SavingEntity /\ job[p] \in Tasks
    BY <1>0, <1>6 DEF Begin, BeginWork, End, EndTask, localVars, Steps, SavingEntity
  <2>2. RowsShow'
    BY <1>0, <1>1, <2>1 DEF RowsShow, CopiesShow, CopyInUse, Showing
  <2>3. \A q \in Procs : pc'[q] \in CopyInUse => pc[q] \in CopyInUse
    BY <1>0, <1>6 DEF Begin, BeginWork, End, EndTask, Return, CopyInUse, SavingTask, SavingEntity
  <2>4. CopiesShow'
    BY <1>1, <2>1, <2>3 DEF CopiesShow, Showing
  <2>5. \A q \in Procs : /\ stage'[q] \in {"loop", "count"} => stage'[q] = stage[q]
                         /\ stage[q] # "none" => stage'[q] # "none"
    BY <1>6 DEF Begin, End, localVars, SearchFrame
  <2>. QED BY <2>1, <2>2, <2>4, <2>5 DEF ShownInv, RowsShow, CopiesShow, Showing
<1>7. ASSUME NEW p \in Procs, Work(p) \/ Clash(p), ~(Succeed(p) \/ Raises(p) \/ Clash(p))
      PROVE  ShownInv'
  <2>1. UNCHANGED <<entity, pc, job, entityCopy>> /\ pc[p] = "work" /\ job[p] \in Tasks
    BY <1>0, <1>7 DEF Work, Research, Snapshot, Skip, Add, EndLoop, AddDemo, InLoop, LoopDone,
                      At, tasksVars, procVars, Steps
  <2>2. \A t \in Tasks : products[t] \subseteq products'[t]
    BY <1>7 DEF Work, Research, Snapshot, Skip, Add, EndLoop, AddDemo, Inserts, SearchFrame
  <2>3. RowsShow' /\ CopiesShow'
    BY <1>0, <2>1, <2>2, WorkStepShows DEF CopyInUse, SavingTask, SavingEntity, Steps
  <2>4. ASSUME NEW q \in Procs \ {p}
        PROVE  stage'[q] = stage[q] /\ seen'[q] = seen[q] /\ created'[q] = created[q]
    BY <1>7 DEF Work, Research, Snapshot, Skip, Add, EndLoop, AddDemo, SearchFrame
  <2>5. \A q \in Procs : stage[q] # "none" => job[q] \in Tasks
    BY <1>0 DEF Steps
  <2>6. /\ created'[p] # 0 => stage'[p] # "none" /\ products'[job[p]] # {}
        /\ stage'[p] = "loop" => seen'[p].urls \subseteq Urls(products'[job[p]])
        /\ stage'[p] = "count" => products'[job[p]] # {}
    <3>1. CASE Research(p) \/ Skip(p)
      BY <2>1, <3>1 DEF Research, Skip, InLoop, At, SearchFrame, ShownInv, Showing
    <3>2. CASE Snapshot(p)
      BY <2>1, <3>2 DEF Snapshot, At, SearchFrame, ShownInv, Showing
    <3>3. CASE Add(p)
      <4>. DEFINE offer == Head(found[p])
                  row == Row(offer)
      <4>0. DOMAIN products = Tasks /\ DOMAIN seen = Procs
        BY DEF SearchFrame
      <4>1. /\ stage[p] = "loop" /\ stage' = stage
            /\ seen'[p].urls = seen[p].urls \cup {offer.url}
        BY <3>3, <4>0 DEF Add, InLoop, At
      <4>2. products'[job[p]] = products[job[p]] \cup {row} /\ row.url = offer.url
        BY <2>1, <3>3, <4>0, RowOfOffer DEF Add, Inserts
      <4>. HIDE DEF row, offer
      <4>3. Urls(products'[job[p]]) = Urls(products[job[p]]) \cup {offer.url}
        BY <4>2 DEF Urls
      <4>4. seen[p].urls \subseteq Urls(products[job[p]])
        BY <4>1 DEF ShownInv
      <4>. QED BY <4>1, <4>2, <4>3, <4>4
    <3>4. CASE EndLoop(p)
      BY <2>1, <3>4 DEF EndLoop, LoopDone, At, WantsDemo, SearchFrame, ShownInv, Showing, Urls
    <3>5. CASE AddDemo(p)
      BY <2>1, <3>5 DEF AddDemo, Inserts, At, SearchFrame
    <3>. QED BY <1>7, <3>1, <3>2, <3>3, <3>4, <3>5 DEF Work
  <2>. QED BY <2>1, <2>2, <2>3, <2>4, <2>5, <2>6
           DEF ShownInv, RowsShow, CopiesShow, Showing, Urls
<1>8. ASSUME NEW p \in Procs, Succeed(p) \/ Raises(p) \/ Clash(p) PROVE ShownInv'
  <2>1. UNCHANGED <<products, entity, job>> /\ Forget(p) /\ pc[p] = "work"
    BY <1>8 DEF Succeed, WorkSucceeds, Raises, Clash, AddClashes, AddDemoClashes, WorkFails,
                Raise
  <2>2. entityCopy'[p] = "completed" => Showing(job[p])
    <3>1. CASE Succeed(p)
      BY <3>1 DEF Succeed, At, ShownInv
    <3>2. CASE Raises(p) \/ Clash(p)
      BY <1>0, <1>1, <2>1, <3>2
         DEF Raises, Clash, AddClashes, AddDemoClashes, WorkFails, Raise, AfterExcept,
             CopiesShow, CopyInUse
    <3>. QED BY <1>8, <3>1, <3>2
  <2>3. \A q \in Procs \ {p} : entityCopy'[q] = entityCopy[q] /\ pc'[q] = pc[q]
    BY <1>0, <1>8 DEF Succeed, WorkSucceeds, Raises, Clash, AddClashes, AddDemoClashes,
                      WorkFails, Raise
  <2>4. \A q \in Procs : stage'[q] # "none" \/ created'[q] # 0 =>
            stage'[q] = stage[q] /\ seen'[q] = seen[q] /\ created'[q] = created[q]
    BY <2>1 DEF Forget, SearchFrame
  <2>. QED BY <1>1, <2>1, <2>2, <2>3, <2>4 DEF ShownInv, RowsShow, CopiesShow, Showing
<1>9. ASSUME NEW p \in Procs, SaveFault(p) PROVE ShownInv'
  <2>1. /\ UNCHANGED <<products, stage, seen, created, entity, job>>
        /\ pc[p] \in CopyInUse
        /\ entityCopy' = [entityCopy EXCEPT ![p] = AfterExcept(@)]
        /\ pc' = [pc EXCEPT ![p] = "failTask"]
    BY <1>9 DEF SaveFault, TryFault, Raise, InTry, CopyInUse, SavingTask, SavingEntity,
                searchVars, localVars
  <2>2. entityCopy'[p] = "completed" => entityCopy[p] = "completed"
    BY <1>0, <2>1 DEF AfterExcept
  <2>. QED BY <1>0, <1>1, <2>1, <2>2, QueueStepShows DEF RowsShow, CopiesShow, Showing
<1>10. ASSUME NEW p \in Procs, CrashSearch(p) PROVE ShownInv'
  <2>1. /\ UNCHANGED <<products, entity, job, entityCopy>> /\ Forget(p)
        /\ pc' = [pc EXCEPT ![p] = "dead"]
    BY <1>10 DEF CrashSearch, Crash, Die
  <2>2. \A q \in Procs : stage'[q] # "none" \/ created'[q] # 0 =>
            stage'[q] = stage[q] /\ seen'[q] = seen[q] /\ created'[q] = created[q]
    BY <2>1 DEF Forget, SearchFrame
  <2>3. CopiesShow'
    BY <1>0, <1>1, <2>1 DEF CopiesShow, Showing, CopyInUse, SavingTask, SavingEntity
  <2>. QED BY <1>1, <2>1, <2>2, <2>3 DEF ShownInv, RowsShow, CopiesShow, Showing
<1>11. CASE UNCHANGED vars
  BY <1>11 DEF vars, tasksVars, procVars, searchVars, localVars, ShownInv, Showing
<1>. QED
  BY <1>2, <1>3, <1>4, <1>5, <1>6, <1>7, <1>8, <1>9, <1>10, <1>11 DEF Next

\* A completed request shows something, for any sources, processors and failures.
THEOREM CompletedShowsProducts == Spec => []CompletedHasProducts
<1>1. CASE DemoAllowed
  <2>1. SearchFrame /\ ShownInv /\ [Next]_vars => ShownInv'
    BY <1>1, ShownStep
  <2>2. ShownInv => CompletedHasProducts
    BY DEF ShownInv, Showing, CompletedHasProducts
  <2>. QED BY <2>1, <2>2, FrameInit, FrameStep, ShownInit, PTL DEF Spec
<1>2. CASE ~DemoAllowed
  <2>1. CompletedHasProducts
    BY <1>2 DEF CompletedHasProducts
  <2>. QED BY <2>1, PTL
<1>. QED BY <1>1, <1>2

-----------------------------------------------------------------------------
(***************************************************************************)
(* While a request was worked on once nobody but that run touched its      *)
(* products: two processors at work on it would have begun two runs.  So   *)
(* the keys the run has seen are those in the table, and an offer that     *)
(* passes its test has a key of its own.                                   *)
(***************************************************************************)
AtWork(p) == stage[p] # "none"

KeysDiffer(rows) == \A q, r \in rows : KeyOf(q) = KeyOf(r) => q = r

\* What the only run of a request knows of its products.
Knows(p) ==
    /\ stage[p] \in {"research", "snapshot", "addDemo"} => products[job[p]] = {}
    /\ stage[p] = "loop" =>
        /\ seen[p].keys = Keys(products[job[p]])
        /\ created[p] = 0 => products[job[p]] = {}

OnceInv ==
    /\ \A t \in Tasks : runs[t] = 0 => products[t] = {}
    /\ \A t \in Tasks : runs[t] = 1 => KeysDiffer(products[t])
    /\ \A p \in Procs : AtWork(p) => runs[job[p]] >= 1
    /\ \A p, q \in Procs :
        p # q /\ AtWork(p) /\ AtWork(q) /\ job[p] = job[q] => runs[job[p]] >= 2
    /\ \A p \in Procs : AtWork(p) /\ runs[job[p]] = 1 => Knows(p)
    /\ \A p \in Procs : ~AtWork(p) => created[p] = 0

LEMMA OnceInit == Init => OnceInv
BY DEF Init, TasksInit, OnceInv, AtWork, KeysDiffer

\* Steps of the queue, and the end of a run.
LEMMA OthersKeepOnce ==
    ASSUME OnceInv, UNCHANGED <<products, runs>>,
           \A p \in Procs :
            \/ /\ stage'[p] = stage[p] /\ seen'[p] = seen[p] /\ created'[p] = created[p]
               /\ AtWork(p) => job'[p] = job[p]
            \/ stage'[p] = "none" /\ created'[p] = 0
    PROVE  OnceInv'
BY DEF OnceInv, AtWork, Knows

LEMMA BeginKeepsOnce ==
    ASSUME SearchFrame, OnceInv, NEW p \in Procs, Begin(p)
    PROVE  OnceInv'
<1>1. /\ job[p] \in Tasks /\ stage[p] = "none" /\ runs \in [Tasks -> Nat]
      /\ \A q \in Procs : AtWork(q) => job[q] \in Tasks
  BY DEF Begin, BeginWork, SearchFrame, TasksTypeOK, AtWork, Steps, SavingEntity
<1>2. /\ runs' = [runs EXCEPT ![job[p]] = @ + 1] /\ stage' = [stage EXCEPT ![p] = "research"]
      /\ UNCHANGED <<job, products, seen, created>> /\ stage \in [Procs -> Stages]
  BY DEF Begin, BeginWork, SearchFrame
<1>3. \A t \in Tasks : runs'[t] = 0 => products'[t] = {}
  BY <1>1, <1>2 DEF OnceInv
<1>4. \A t \in Tasks : runs'[t] = 1 => KeysDiffer(products'[t])
  BY <1>1, <1>2 DEF OnceInv, KeysDiffer
<1>5. \A q \in Procs : AtWork(q)' => runs'[job'[q]] >= 1
  BY <1>1, <1>2 DEF OnceInv, AtWork
<1>6. \A q, r \in Procs :
        q # r /\ AtWork(q)' /\ AtWork(r)' /\ job'[q] = job'[r] => runs'[job'[q]] >= 2
  BY <1>1, <1>2 DEF OnceInv, AtWork
<1>7. ASSUME NEW q \in Procs, AtWork(q)', runs'[job'[q]] = 1 PROVE Knows(q)'
  <2>1. CASE q = p
    BY <1>1, <1>2, <1>7, <2>1 DEF OnceInv, Knows
  <2>2. CASE q # p
    <3>1. AtWork(q) /\ job[q] \in Tasks /\ runs[job[q]] >= 1
      BY <1>1, <1>2, <1>7, <2>2 DEF OnceInv, AtWork
    <3>2. runs[job[q]] = 1
      BY <1>1, <1>2, <1>7, <3>1
    <3>. QED BY <1>2, <2>2, <3>1, <3>2 DEF OnceInv, Knows
  <2>. QED BY <2>1, <2>2
<1>8. \A q \in Procs : ~AtWork(q)' => created'[q] = 0
  BY <1>2 DEF OnceInv, AtWork
<1>. QED BY <1>3, <1>4, <1>5, <1>6, <1>7, <1>8 DEF OnceInv

\* A step of the work: only p and its request change.
LEMMA WorkKeepsOnce ==
    ASSUME SearchFrame, OnceInv, NEW p \in Procs, AtWork(p), AtWork(p)', UNCHANGED <<runs, job>>,
           \A q \in Procs \ {p} :
            stage'[q] = stage[q] /\ seen'[q] = seen[q] /\ created'[q] = created[q],
           \A t \in Tasks \ {job[p]} : products'[t] = products[t],
           runs[job[p]] = 1 => Knows(p)' /\ KeysDiffer(products'[job[p]])
    PROVE  OnceInv'
<1>1. runs[job[p]] >= 1
  BY DEF OnceInv
<1>2. /\ \A q \in Procs : AtWork(q)' <=> AtWork(q)
      /\ \A q \in Procs : ~AtWork(q)' => created'[q] = 0
  BY DEF AtWork, OnceInv
<1>3. \A t \in Tasks : /\ runs'[t] = 0 => products'[t] = {}
                       /\ runs'[t] = 1 => KeysDiffer(products'[t])
  BY <1>1 DEF OnceInv
<1>4. ASSUME NEW q \in Procs, AtWork(q)', runs'[job'[q]] = 1 PROVE Knows(q)'
  <2>1. CASE q = p
    BY <1>4, <2>1
  <2>2. CASE q # p
    <3>1. AtWork(q) /\ runs[job[q]] = 1 /\ job[q] # job[p] /\ job[q] \in Tasks
      BY <1>2, <1>4, <2>2 DEF OnceInv, SearchFrame, TasksTypeOK, AtWork, Steps
    <3>. QED BY <2>2, <3>1 DEF OnceInv, Knows
  <2>. QED BY <2>1, <2>2
<1>. QED BY <1>2, <1>3, <1>4 DEF OnceInv

LEMMA OnceStep == SearchFrame /\ OnceInv /\ [Next]_vars => OnceInv'
<1>. SUFFICES ASSUME SearchFrame, OnceInv, [Next]_vars PROVE OnceInv'
  OBVIOUS
<1>0. /\ pc \in [Procs -> Steps \cup {"idle", "waiting", "done"}]
      /\ \A p \in Procs : AtWork(p) <=> pc[p] = "work"
      /\ \A p \in Procs : pc[p] = "work" => job[p] \in Tasks
      /\ DOMAIN products = Tasks /\ DOMAIN seen = Procs /\ stage \in [Procs -> Stages]
      /\ created \in [Procs -> Nat] /\ job \in [Procs -> Tasks \cup {NoTask}]
  BY DEF SearchFrame, TasksTypeOK, AtWork, Steps
<1>1. ASSUME NEW t \in Tasks, Endpoint(t) PROVE OnceInv'
  BY <1>1, OthersKeepOnce
     DEF Endpoint, ApiNext, ApiAddTask, ApiAddEntity, ApiFault, procVars, searchVars, localVars
<1>2. ASSUME NEW w \in Workers, WorkerTurn(w) PROVE OnceInv'
  <2>1. UNCHANGED <<runs, products, stage, seen, created>>
    BY <1>2 DEF WorkerTurn, WorkerStep, Poll, Pick, Restart, searchVars, localVars
  <2>2. \A p \in Procs : AtWork(p) => job'[p] = job[p]
    BY <1>0, <1>2 DEF WorkerTurn, WorkerStep, Poll, Pick, Restart
  <2>. QED BY <2>1, <2>2, OthersKeepOnce
<1>3. ASSUME NEW p \in Procs, Shared(p) \/ Load(p) \/ End(p) \/ SaveFault(p) PROVE OnceInv'
  <2>1. UNCHANGED <<runs, products, stage, seen, created, job>>
    BY <1>3 DEF Shared, Load, End, SaveFault, LoadTask, LoadNoEntity, LoadEntity, SaveTask,
                EndTask, FailTaskOnly, TryFault, Raise, searchVars, localVars
  <2>. QED BY <2>1, OthersKeepOnce
<1>4. ASSUME NEW p \in Procs, Succeed(p) \/ Raises(p) \/ Clash(p) \/ CrashSearch(p)
      PROVE  OnceInv'
  <2>1. UNCHANGED <<runs, products, job>> /\ Forget(p)
    BY <1>4 DEF Succeed, WorkSucceeds, Raises, Clash, AddClashes, AddDemoClashes, WorkFails,
                Raise, CrashSearch, Crash, Die
  <2>. QED BY <1>0, <2>1, OthersKeepOnce DEF Forget
<1>5. ASSUME NEW p \in Procs,
             Research(p) \/ Snapshot(p) \/ Skip(p) \/ Add(p) \/ EndLoop(p) \/ AddDemo(p)
      PROVE  OnceInv'
  <2>1. /\ UNCHANGED <<runs, job>> /\ AtWork(p) /\ job[p] \in Tasks
        /\ runs[job[p]] = 1 => Knows(p) /\ KeysDiffer(products[job[p]])
    BY <1>0, <1>5 DEF Research, Snapshot, Skip, Add, EndLoop, AddDemo, InLoop, LoopDone, At,
                      tasksVars, procVars, OnceInv
  <2>2. AtWork(p)'
    BY <1>0, <1>5, <2>1 DEF Research, Snapshot, Skip, Add, EndLoop, AddDemo, AtWork
  <2>3. \A q \in Procs \ {p} :
            stage'[q] = stage[q] /\ seen'[q] = seen[q] /\ created'[q] = created[q]
    BY <1>0, <1>5 DEF Research, Snapshot, Skip, Add, EndLoop, AddDemo
  <2>4. \A t \in Tasks \ {job[p]} : products'[t] = products[t]
    BY <1>0, <1>5, <2>1 DEF Research, Snapshot, Skip, Add, EndLoop, AddDemo, Inserts
  <2>5. ASSUME runs[job[p]] = 1 PROVE Knows(p)' /\ KeysDiffer(products'[job[p]])
    <3>1. CASE Research(p) \/ Skip(p)
      BY <1>0, <2>1, <2>5, <3>1 DEF Research, Skip, InLoop, At, Knows
    <3>2. CASE Snapshot(p)
      BY <1>0, <2>1, <2>5, <3>2 DEF Snapshot, At, Knows
    <3>3. CASE Add(p)
      <4>. DEFINE offer == Head(found[p])
                  row == Row(offer)
      <4>1. /\ stage[p] = "loop" /\ stage'[p] = "loop" /\ created'[p] # 0
            /\ KeyOf(offer) \notin seen[p].keys
            /\ seen'[p].keys = seen[p].keys \cup {KeyOf(offer)}
        BY <1>0, <3>3 DEF Add, InLoop, IsNew, At
      <4>2. products'[job[p]] = products[job[p]] \cup {row} /\ KeyOf(row) = KeyOf(offer)
        BY <1>0, <2>1, <3>3, RowOfOffer DEF Add, Inserts
      <4>. HIDE DEF row, offer
      <4>3. Keys(products'[job[p]]) = Keys(products[job[p]]) \cup {KeyOf(offer)}
        BY <4>2 DEF Keys
      <4>4. seen[p].keys = Keys(products[job[p]])
        BY <2>1, <2>5, <4>1 DEF Knows
      <4>5. KeysDiffer(products'[job[p]])
        BY <2>1, <2>5, <4>1, <4>2, <4>4 DEF KeysDiffer, Keys
      <4>. QED BY <2>1, <4>1, <4>3, <4>4, <4>5 DEF Knows
    <3>4. CASE EndLoop(p)
      BY <1>0, <2>1, <2>5, <3>4 DEF EndLoop, LoopDone, At, WantsDemo, Knows
    <3>5. CASE AddDemo(p)
      BY <1>0, <2>1, <2>5, <3>5 DEF AddDemo, Inserts, At, Knows, KeysDiffer
    <3>. QED BY <1>5, <3>1, <3>2, <3>3, <3>4, <3>5
  <2>. QED BY <2>1, <2>2, <2>3, <2>4, <2>5, WorkKeepsOnce
<1>6. CASE UNCHANGED vars
  BY <1>6, OthersKeepOnce DEF vars, tasksVars, procVars, searchVars, localVars
<1>. QED BY <1>1, <1>2, <1>3, <1>4, <1>5, <1>6, BeginKeepsOnce DEF Next, Work

(***************************************************************************)
(* A supplier with a site of its own appears once in the results of a      *)
(* request that was worked on once, for any sources, processors, limit and *)
(* failures: an offer whose site was seen is not added.                    *)
(***************************************************************************)
THEOREM SiteAppearsOnce == Spec => []OneProductPerSite
<1>1. SearchFrame /\ OnceInv => OneProductPerSite
  <2>. SUFFICES ASSUME SearchFrame, OnceInv, NEW t \in Tasks, WorkedOnOnce(t),
                       NEW q \in products[t], NEW r \in products[t],
                       q.platform = "site", r.platform = "site", q.supplier = r.supplier
                PROVE  q = r
    BY DEF OneProductPerSite
  <2>1. runs[t] = 1
    BY DEF SearchFrame, TasksTypeOK, OnceInv, WorkedOnOnce
  <2>2. KeysDiffer(products[t])
    BY <2>1 DEF OnceInv
  <2>3. KeyOf(q) = KeyOf(r)
    BY SiteKey
  <2>. QED BY <2>2, <2>3 DEF KeysDiffer
<1>. QED BY <1>1, FrameInit, FrameStep, OnceInit, OnceStep, PTL DEF Spec

-----------------------------------------------------------------------------
(***************************************************************************)
(* Types: what the counts rest on.  The products of a request are finitely *)
(* many, and of all products only the demo product has the demo's URL or   *)
(* its key, for no source offers it.                                       *)
(***************************************************************************)
Listed == UNION {ToSet(f) : f \in Findings}

RowsInv ==
    /\ suppliersCount \in [Tasks -> Nat]
    /\ countCopy \in [Procs -> Nat]
    /\ found \in [Procs -> Seq(Listed)]
    /\ \A t \in Tasks : IsFiniteSet(products[t])
    /\ \A t \in Tasks : \A r \in products[t] : r.url = DemoUrl <=> KeyOf(r) = DemoKey

\* The suppliers of finitely many products, and those of fewer products.
LEMMA KeysFinite ==
    ASSUME NEW rows, IsFiniteSet(rows)
    PROVE  IsFiniteSet(Keys(rows)) /\ Cardinality(Keys(rows)) \in Nat
<1>. DEFINE keyOf == [r \in rows |-> KeyOf(r)]
<1>1. keyOf \in Surjection(rows, Keys(rows))
  BY DEF Surjection, Keys
<1>. HIDE DEF keyOf
<1>. QED BY <1>1, FS_Surjection, FS_CardinalityType

LEMMA CountType ==
    ASSUME SearchFrame, RowsInv, NEW t \in Tasks
    PROVE  /\ CountOf(t) \in Nat /\ CountOf(t) = Cardinality(Keys(Real(t)))
           /\ IsFiniteSet(Keys(Real(t))) /\ IsFiniteSet(Real(t))
<1>1. IsFiniteSet(Real(t))
  BY FS_Subset DEF RowsInv, Real
<1>2. Keys(products[t]) \ {DemoKey} = Keys(Real(t))
  BY DEF RowsInv, Keys, Real
<1>. QED BY <1>1, <1>2, KeysFinite DEF CountOf

\* What is asked of the sources and found valid is a list of what they offer.
LEMMA ResearchFinds ==
    ASSUME NEW router \in Answers, NEW madeInChina \in Answers, NEW browser \in Answers
    PROVE  LET early == Offers(router) \o Offers(madeInChina)
               all == IF early = <<>> THEN Offers(browser) ELSE early
           IN  Valid(all) \in Seq(Listed)
<1>1. ASSUME NEW answer \in Answers PROVE Offers(answer) \in Seq(Listed)
  <2>1. CASE answer = NoAnswer
    BY <2>1 DEF Offers
  <2>2. CASE answer # NoAnswer
    <3>1. answer \in Findings /\ Offers(answer) = answer
      BY <2>2 DEF Answers, Offers
    <3>2. answer \in Seq(ToSet(answer)) /\ ToSet(answer) \subseteq Listed
      BY <3>1, SearchAssumption DEF Listed
    <3>. QED BY <3>1, <3>2
  <2>. QED BY <2>1, <2>2
<1>. DEFINE early == Offers(router) \o Offers(madeInChina)
            all == IF early = <<>> THEN Offers(browser) ELSE early
<1>2. all \in Seq(Listed)
  BY <1>1
<1>. HIDE DEF all
<1>3. Valid(all) \in Seq(Listed)
  BY <1>2, AmongProperties DEF Valid
<1>. QED BY <1>3 DEF all

\* The offer at hand is one of a source: not the demo product.
LEMMA HeadIsListed ==
    ASSUME RowsInv, NEW p \in Procs, found[p] # <<>>
    PROVE  /\ Head(found[p]).url # DemoUrl /\ KeyOf(Head(found[p])) # DemoKey
           /\ Tail(found[p]) \in Seq(Listed)
<1>1. found[p] \in Seq(Listed)
  BY DEF RowsInv
<1>2. Head(found[p]) \in Listed /\ Tail(found[p]) \in Seq(Listed)
  BY <1>1
<1>3. /\ Head(found[p]).url # DemoUrl
      /\ Head(found[p]).platform \in {"site", "made-in-china"}
  BY <1>2, SearchAssumption DEF Listed
<1>. QED BY <1>2, <1>3, KeyIsReal

LEMMA RowsInit == Init => RowsInv
<1>. SUFFICES ASSUME Init PROVE RowsInv
  OBVIOUS
<1>1. <<>> \in Seq(Listed)
  OBVIOUS
<1>. QED BY <1>1, FS_EmptySet DEF Init, RowsInv

LEMMA RowsStep == SearchFrame /\ RowsInv /\ [Next]_vars => RowsInv'
<1>. SUFFICES ASSUME SearchFrame, RowsInv, [Next]_vars PROVE RowsInv'
  OBVIOUS
<1>0. /\ \A p \in Procs : pc[p] \in Steps \ {"dead"} => job[p] \in Tasks
      /\ DOMAIN products = Tasks
      /\ <<>> \in Seq(Listed)
  BY DEF SearchFrame, TasksTypeOK
<1>1. ASSUME UNCHANGED <<products, suppliersCount, countCopy, found>> PROVE RowsInv'
  BY <1>1 DEF RowsInv
<1>2. ASSUME NEW p \in Procs, UNCHANGED <<products, suppliersCount, countCopy>>, Forget(p)
      PROVE  RowsInv'
  BY <1>0, <1>2 DEF Forget, RowsInv
<1>3. ASSUME NEW t \in Tasks, Endpoint(t) PROVE RowsInv'
  BY <1>1, <1>3 DEF Endpoint, searchVars, localVars
<1>4. ASSUME NEW w \in Workers, WorkerTurn(w) PROVE RowsInv'
  BY <1>1, <1>4 DEF WorkerTurn, searchVars, localVars
<1>5. ASSUME NEW p \in Procs, Shared(p) \/ SaveFault(p) \/ Snapshot(p) \/ EndLoop(p)
      PROVE  RowsInv'
  BY <1>1, <1>5 DEF Shared, SaveFault, Snapshot, EndLoop, searchVars, localVars
<1>6. ASSUME NEW p \in Procs, Load(p) PROVE RowsInv'
  <2>1. suppliersCount[job[p]] \in Nat
    BY <1>0, <1>6 DEF Load, LoadEntity, Steps, RowsInv
  <2>. QED BY <1>6, <2>1 DEF Load, localVars, RowsInv
<1>7. ASSUME NEW p \in Procs, Begin(p) \/ End(p) PROVE RowsInv'
  <2>1. /\ suppliersCount' = [suppliersCount EXCEPT ![job[p]] = countCopy[p]]
        /\ UNCHANGED <<products, countCopy, found>>
    BY <1>7 DEF Begin, End, SaveCount, localVars
  <2>. QED BY <2>1 DEF RowsInv
<1>8. ASSUME NEW p \in Procs, Research(p) PROVE RowsInv'
  <2>1. PICK offers \in Seq(Listed) : found' = [found EXCEPT ![p] = offers]
    BY <1>8, ResearchFinds DEF Research
  <2>. QED BY <1>8, <2>1 DEF Research, RowsInv
<1>9. ASSUME NEW p \in Procs, Skip(p) PROVE RowsInv'
  <2>1. found' = [found EXCEPT ![p] = Tail(@)] /\ Tail(found[p]) \in Seq(Listed)
    BY <1>9, HeadIsListed DEF Skip, InLoop
  <2>. QED BY <1>9, <2>1 DEF Skip, RowsInv
<1>10. ASSUME NEW p \in Procs, Add(p) \/ AddDemo(p) PROVE RowsInv'
  <2>1. PICK row : /\ products' = [products EXCEPT ![job[p]] = @ \cup {row}]
                   /\ row.url = DemoUrl <=> KeyOf(row) = DemoKey
    <3>1. CASE Add(p)
      <4>. DEFINE row == Row(Head(found[p]))
      <4>1. row.url # DemoUrl /\ KeyOf(row) # DemoKey
        BY <3>1, HeadIsListed, RowOfOffer DEF Add, InLoop
      <4>. QED BY <3>1, <4>1 DEF Add, Inserts
    <3>2. CASE AddDemo(p)
      <4>. DEFINE row == Demo
      <4>1. row.url = DemoUrl /\ KeyOf(row) = DemoKey
        BY DemoRow
      <4>. QED BY <3>2, <4>1 DEF AddDemo, Inserts
    <3>. QED BY <1>10, <3>1, <3>2
  <2>2. found' \in [Procs -> Seq(Listed)]
    BY <1>10, HeadIsListed DEF Add, AddDemo, InLoop, RowsInv
  <2>3. job[p] \in Tasks
    BY <1>0, <1>10 DEF Add, AddDemo, InLoop, At, Steps
  <2>4. IsFiniteSet(products[job[p]] \cup {row})
    BY <2>3, FS_AddElement DEF RowsInv
  <2>. QED BY <1>0, <1>10, <2>1, <2>2, <2>3, <2>4 DEF Add, AddDemo, RowsInv
<1>11. ASSUME NEW p \in Procs, Succeed(p) PROVE RowsInv'
  <2>1. CountOf(job[p]) \in Nat
    BY <1>0, <1>11, CountType DEF Succeed, At, Steps
  <2>. QED BY <1>0, <1>11, <2>1 DEF Succeed, Forget, RowsInv
<1>12. ASSUME NEW p \in Procs, Raises(p) \/ Clash(p) \/ CrashSearch(p) PROVE RowsInv'
  BY <1>2, <1>12 DEF Raises, Clash, AddClashes, AddDemoClashes, CrashSearch
<1>13. CASE UNCHANGED vars
  BY <1>1, <1>13 DEF vars, searchVars, localVars
<1>. QED
  BY <1>3, <1>4, <1>5, <1>6, <1>7, <1>8, <1>9, <1>10, <1>11, <1>12, <1>13 DEF Next, Work

\* The variables of a search have their types, and who is at work is in a stage.
THEOREM SearchTypeCorrect == Spec => []SearchTypeOK
<1>1. SearchFrame /\ RowsInv => SearchTypeOK
  BY DEF SearchFrame, RowsInv, SearchTypeOK
<1>. QED BY <1>1, FrameInit, FrameStep, RowsInit, RowsStep, PTL DEF Spec

-----------------------------------------------------------------------------
(***************************************************************************)
(* Each run adds at most MaxResults products, and any number of runs may   *)
(* be adding at the same time.  A run comes with MaxResults free slots and *)
(* takes one for every product it adds; products and free slots together   *)
(* never exceed what the runs of the request came with.                    *)
(***************************************************************************)
Slots(t) ==
    {slot \in Procs \X (1..MaxResults) :
        AtWork(slot[1]) /\ job[slot[1]] = t /\ slot[2] > created[slot[1]]}

WithinInv ==
    \A t \in Tasks :
        /\ IsFiniteSet(Slots(t))
        /\ Cardinality(Real(t)) + Cardinality(Slots(t)) <= MaxResults * runs[t]

LEMMA LimitType == MaxResults \in Nat
<1>1. MaxResults \in 1..50
  BY SearchAssumption, Zenon
<1>. QED BY <1>1

\* The slots a run comes with.
LEMMA NewSlots ==
    ASSUME NEW p
    PROVE  /\ IsFiniteSet({p} \X (1..MaxResults))
           /\ Cardinality({p} \X (1..MaxResults)) = MaxResults
<1>1. IsFiniteSet({p}) /\ Cardinality({p}) = 1
  BY FS_Singleton
<1>2. IsFiniteSet(1..MaxResults) /\ Cardinality(1..MaxResults) = MaxResults
  <2>1. 1 \in Int /\ MaxResults \in Int
    BY LimitType
  <2>2. IsFiniteSet(1..MaxResults)
        /\ Cardinality(1..MaxResults) = IF 1 > MaxResults THEN 0 ELSE MaxResults - 1 + 1
    BY <2>1, FS_Interval
  <2>. QED BY <2>2, LimitType
<1>. DEFINE S == {p}  T == 1..MaxResults
<1>3. /\ IsFiniteSet(S \X T)
      /\ Cardinality(S \X T) = Cardinality(S) * Cardinality(T)
  <2>. HIDE DEF S, T
  <2>1. IsFiniteSet(S) /\ IsFiniteSet(T)
    BY <1>1, <1>2 DEF S, T
  <2>. QED BY <2>1, FS_Product
<1>. QED BY <1>1, <1>2, <1>3, LimitType

LEMMA WithinInit == Init => WithinInv
<1>. SUFFICES ASSUME Init, NEW t \in Tasks
              PROVE  /\ IsFiniteSet(Slots(t))
                     /\ Cardinality(Real(t)) + Cardinality(Slots(t)) <= MaxResults * runs[t]
  BY DEF WithinInv
<1>1. Slots(t) = {} /\ Real(t) = {} /\ runs[t] = 0
  BY DEF Init, TasksInit, Slots, Real, AtWork
<1>. QED BY <1>1, LimitType, FS_EmptySet

\* Most steps add no real product and give nobody a slot.
LEMMA OthersKeepWithin ==
    ASSUME SearchFrame, RowsInv, WithinInv, UNCHANGED runs,
           \A t \in Tasks : Real(t)' = Real(t),
           \A p \in Procs : AtWork(p)' =>
                AtWork(p) /\ job'[p] = job[p] /\ created'[p] = created[p]
    PROVE  WithinInv'
<1>. SUFFICES ASSUME NEW t \in Tasks
              PROVE  /\ IsFiniteSet(Slots(t))'
                     /\ (Cardinality(Real(t)) + Cardinality(Slots(t)) <= MaxResults * runs[t])'
  BY DEF WithinInv
<1>1. Slots(t)' \subseteq Slots(t)
  BY DEF Slots
<1>2. IsFiniteSet(Slots(t)') /\ Cardinality(Slots(t)') <= Cardinality(Slots(t))
  BY <1>1, FS_Subset DEF WithinInv
<1>3. /\ Cardinality(Slots(t)) \in Nat /\ Cardinality(Slots(t)') \in Nat
      /\ Cardinality(Real(t)) \in Nat
  BY <1>2, CountType, FS_CardinalityType DEF WithinInv
<1>4. runs[t] \in Nat /\ MaxResults \in Nat
  BY LimitType DEF SearchFrame, TasksTypeOK
<1>5. MaxResults * runs[t] \in Nat
  BY <1>4
<1>6. Cardinality(Real(t)) + Cardinality(Slots(t)) <= MaxResults * runs[t]
  BY DEF WithinInv
<1>. QED BY <1>2, <1>3, <1>5, <1>6

\* A run begins: its slots come on top of those of the runs under way.
LEMMA BeginKeepsWithin ==
    ASSUME SearchFrame, RowsInv, OnceInv, WithinInv, NEW p \in Procs, Begin(p)
    PROVE  WithinInv'
<1>. SUFFICES ASSUME NEW t \in Tasks
              PROVE  /\ IsFiniteSet(Slots(t))'
                     /\ (Cardinality(Real(t)) + Cardinality(Slots(t)) <= MaxResults * runs[t])'
  BY DEF WithinInv
<1>0. /\ stage' = [stage EXCEPT ![p] = "research"] /\ UNCHANGED <<products, job, created>>
      /\ runs' = [runs EXCEPT ![job[p]] = @ + 1] /\ job[p] \in Tasks
      /\ stage \in [Procs -> Stages] /\ runs \in [Tasks -> Nat] /\ MaxResults \in Nat
  BY LimitType
     DEF Begin, BeginWork, SearchFrame, TasksTypeOK, Steps, SavingEntity
<1>1. /\ IsFiniteSet(Slots(t)) /\ Cardinality(Slots(t)) \in Nat
      /\ Cardinality(Real(t)) \in Nat /\ Real(t)' = Real(t)
      /\ Cardinality(Real(t)) + Cardinality(Slots(t)) <= MaxResults * runs[t]
  BY <1>0, CountType, FS_CardinalityType DEF WithinInv, Real
<1>2. CASE t # job[p]
  <2>1. Slots(t)' \subseteq Slots(t) /\ runs'[t] = runs[t]
    BY <1>0, <1>2 DEF Slots, AtWork
  <2>2. IsFiniteSet(Slots(t)') /\ Cardinality(Slots(t)') <= Cardinality(Slots(t))
    BY <1>1, <2>1, FS_Subset
  <2>3. Cardinality(Slots(t)') \in Nat /\ MaxResults * runs[t] \in Nat
    BY <1>0, <2>2, FS_CardinalityType
  <2>. QED BY <1>1, <2>1, <2>2, <2>3
<1>3. CASE t = job[p]
  <2>. DEFINE new == {p} \X (1..MaxResults)
  <2>1. Slots(t)' \subseteq Slots(t) \cup new
    BY <1>0, <1>3 DEF Slots, AtWork
  <2>2. IsFiniteSet(new) /\ Cardinality(new) = MaxResults
    BY NewSlots
  <2>. HIDE DEF new
  <2>3. /\ IsFiniteSet(Slots(t) \cup new)
        /\ Cardinality(Slots(t) \cup new) =
                Cardinality(Slots(t)) + MaxResults - Cardinality(Slots(t) \cap new)
        /\ Cardinality(Slots(t) \cap new) \in Nat
    BY <1>1, <2>2, FS_Union, FS_Intersection, FS_CardinalityType
  <2>4. /\ IsFiniteSet(Slots(t)') /\ Cardinality(Slots(t)') \in Nat
        /\ Cardinality(Slots(t)') <= Cardinality(Slots(t) \cup new)
    BY <2>1, <2>3, FS_Subset, FS_CardinalityType
  <2>5. runs'[t] = runs[t] + 1 /\ runs[t] \in Nat
    BY <1>0, <1>3
  <2>6. MaxResults * runs'[t] = MaxResults * runs[t] + MaxResults /\ MaxResults * runs[t] \in Nat
    BY <1>0, <2>5
  <2>. QED BY <1>0, <1>1, <2>3, <2>4, <2>6
<1>. QED BY <1>2, <1>3

LEMMA OneMore ==
    ASSUME NEW S, NEW x, IsFiniteSet(S)
    PROVE  IsFiniteSet(S \cup {x}) /\ Cardinality(S \cup {x}) <= Cardinality(S) + 1
<1>1. /\ IsFiniteSet(S \cup {x})
      /\ Cardinality(S \cup {x}) = IF x \in S THEN Cardinality(S) ELSE Cardinality(S) + 1
  BY FS_AddElement
<1>2. Cardinality(S) \in Nat
  BY FS_CardinalityType
<1>. QED BY <1>1, <1>2

\* A product is added: it takes the slot after those taken.
LEMMA AddKeepsWithin ==
    ASSUME SearchFrame, RowsInv, WithinInv, NEW p \in Procs, Add(p)
    PROVE  WithinInv'
<1>. SUFFICES ASSUME NEW t \in Tasks
              PROVE  /\ IsFiniteSet(Slots(t))'
                     /\ (Cardinality(Real(t)) + Cardinality(Slots(t)) <= MaxResults * runs[t])'
  BY DEF WithinInv
<1>. DEFINE row == Row(Head(found[p]))
            slot == <<p, created[p] + 1>>
<1>0. /\ products' = [products EXCEPT ![job[p]] = @ \cup {row}] /\ DOMAIN products = Tasks
      /\ created' = [created EXCEPT ![p] = @ + 1] /\ created \in [Procs -> Nat]
      /\ UNCHANGED <<stage, job, runs>> /\ job[p] \in Tasks /\ AtWork(p)
      /\ created[p] < MaxResults /\ MaxResults \in Nat /\ runs \in [Tasks -> Nat]
  BY LimitType
     DEF Add, Inserts, InLoop, At, IsNew, AtLimit, AtWork, SearchFrame, TasksTypeOK, Steps,
         tasksVars, procVars
<1>1. /\ IsFiniteSet(Slots(t)) /\ Cardinality(Slots(t)) \in Nat
      /\ IsFiniteSet(Real(t)) /\ Cardinality(Real(t)) \in Nat
      /\ Cardinality(Real(t)) + Cardinality(Slots(t)) <= MaxResults * runs[t]
  BY CountType, FS_CardinalityType DEF WithinInv
<1>2. MaxResults * runs[t] \in Nat /\ UNCHANGED (MaxResults * runs[t])
  BY <1>0
<1>3. CASE t # job[p]
  <2>1. Real(t)' = Real(t)
    BY <1>0, <1>3 DEF Real
  <2>2. Slots(t)' \subseteq Slots(t)
    BY <1>0, <1>3 DEF Slots, AtWork
  <2>3. /\ IsFiniteSet(Slots(t)') /\ Cardinality(Slots(t)') <= Cardinality(Slots(t))
        /\ Cardinality(Slots(t)') \in Nat
    BY <1>1, <2>2, FS_Subset, FS_CardinalityType
  <2>. QED BY <1>1, <1>2, <2>1, <2>3
<1>4. CASE t = job[p]
  <2>1. Real(t)' \subseteq Real(t) \cup {row}
    <3>. HIDE DEF row
    <3>. QED BY <1>0, <1>4 DEF Real
  <2>2. /\ IsFiniteSet(Real(t) \cup {row})
        /\ Cardinality(Real(t) \cup {row}) <= Cardinality(Real(t)) + 1
    <3>. HIDE DEF row
    <3>. QED BY <1>1, OneMore
  <2>3. Cardinality(Real(t)') \in Nat /\ Cardinality(Real(t)') <= Cardinality(Real(t) \cup {row})
    BY <2>1, <2>2, FS_Subset, FS_CardinalityType
  <2>4. slot \in Slots(t) /\ Slots(t)' \subseteq Slots(t) \ {slot}
    BY <1>0, <1>4 DEF Slots, AtWork
  <2>5. /\ IsFiniteSet(Slots(t) \ {slot})
        /\ Cardinality(Slots(t) \ {slot}) = Cardinality(Slots(t)) - 1
    <3>. HIDE DEF slot
    <3>. QED BY <1>1, <2>4, FS_RemoveElement
  <2>6. /\ IsFiniteSet(Slots(t)') /\ Cardinality(Slots(t)') \in Nat
        /\ Cardinality(Slots(t)') <= Cardinality(Slots(t) \ {slot})
    BY <2>4, <2>5, FS_Subset, FS_CardinalityType
  <2>7. Cardinality(Real(t) \cup {row}) \in Nat
    BY <2>2, FS_CardinalityType
  <2>. HIDE DEF row, slot
  <2>. QED BY <1>1, <1>2, <2>2, <2>3, <2>5, <2>6, <2>7
<1>. QED BY <1>3, <1>4

LEMMA WithinStep ==
    SearchFrame /\ RowsInv /\ OnceInv /\ WithinInv /\ [Next]_vars => WithinInv'
<1>. SUFFICES ASSUME SearchFrame, RowsInv, OnceInv, WithinInv, [Next]_vars PROVE WithinInv'
  OBVIOUS
<1>0. /\ stage \in [Procs -> Stages] /\ created \in [Procs -> Nat]
      /\ DOMAIN products = Tasks
      /\ \A p \in Procs : AtWork(p) <=> pc[p] = "work"
      /\ job \in [Procs -> Tasks \cup {NoTask}]
  BY DEF SearchFrame, TasksTypeOK, AtWork
<1>1. ASSUME NEW t \in Tasks, Endpoint(t) PROVE WithinInv'
  BY <1>1, OthersKeepWithin
     DEF Endpoint, ApiNext, ApiAddTask, ApiAddEntity, ApiFault, procVars, searchVars, localVars,
         Real, AtWork
<1>2. ASSUME NEW w \in Workers, WorkerTurn(w) PROVE WithinInv'
  <2>1. UNCHANGED <<runs, products, stage, created>>
    BY <1>2 DEF WorkerTurn, WorkerStep, Poll, Pick, Restart, searchVars, localVars
  <2>2. \A p \in Procs : AtWork(p) => job'[p] = job[p]
    BY <1>0, <1>2 DEF WorkerTurn, WorkerStep, Poll, Pick, Restart
  <2>. QED BY <2>1, <2>2, OthersKeepWithin DEF Real, AtWork
<1>3. ASSUME NEW p \in Procs, Shared(p) \/ Load(p) \/ End(p) \/ SaveFault(p) PROVE WithinInv'
  <2>1. UNCHANGED <<runs, products, stage, created, job>>
    BY <1>3 DEF Shared, Load, End, SaveFault, LoadTask, LoadNoEntity, LoadEntity, SaveTask,
                EndTask, FailTaskOnly, TryFault, Raise, searchVars, localVars
  <2>. QED BY <2>1, OthersKeepWithin DEF Real, AtWork
<1>4. ASSUME NEW p \in Procs, Succeed(p) \/ Raises(p) \/ Clash(p) \/ CrashSearch(p)
      PROVE  WithinInv'
  <2>1. UNCHANGED <<runs, products, job>> /\ Forget(p)
    BY <1>4 DEF Succeed, WorkSucceeds, Raises, Clash, AddClashes, AddDemoClashes, WorkFails,
                Raise, CrashSearch, Crash, Die
  <2>. QED BY <1>0, <2>1, OthersKeepWithin DEF Forget, Real, AtWork
<1>5. ASSUME NEW p \in Procs,
             Research(p) \/ Snapshot(p) \/ Skip(p) \/ EndLoop(p) \/ AddDemo(p)
      PROVE  WithinInv'
  <2>1. UNCHANGED <<runs, job, created>> /\ AtWork(p)
    BY <1>0, <1>5 DEF Research, Snapshot, Skip, EndLoop, AddDemo, InLoop, LoopDone, At,
                      tasksVars, procVars
  <2>2. \A q \in Procs : AtWork(q)' => AtWork(q)
    BY <1>0, <1>5, <2>1 DEF Research, Snapshot, Skip, EndLoop, AddDemo, AtWork
  <2>3. ASSUME NEW t \in Tasks PROVE Real(t)' = Real(t)
    <3>1. CASE AddDemo(p)
      <4>. DEFINE row == Demo
      <4>1. row.url = DemoUrl
        BY DemoRow
      <4>2. products' = [products EXCEPT ![job[p]] = @ \cup {row}]
        BY <3>1 DEF AddDemo, Inserts
      <4>. HIDE DEF row
      <4>. QED BY <1>0, <4>1, <4>2 DEF Real
    <3>2. CASE ~AddDemo(p)
      BY <1>5, <3>2 DEF Research, Snapshot, Skip, EndLoop, Real
    <3>. QED BY <3>1, <3>2
  <2>. QED BY <2>1, <2>2, <2>3, OthersKeepWithin
<1>6. CASE UNCHANGED vars
  BY <1>6, OthersKeepWithin
     DEF vars, tasksVars, procVars, searchVars, localVars, Real, AtWork
<1>. QED BY <1>1, <1>2, <1>3, <1>4, <1>5, <1>6, BeginKeepsWithin, AddKeepsWithin DEF Next, Work
-----------------------------------------------------------------------------
(***************************************************************************)
(* The count of suppliers.  Whoever counted, counted what was there; and   *)
(* real products are never taken away, so neither a row nor a copy in use  *)
(* says more suppliers than the table has.                                 *)
(***************************************************************************)
SuppliersOf(t) == Cardinality(Keys(Real(t)))

CountInv ==
    /\ \A t \in Tasks : suppliersCount[t] <= SuppliersOf(t)
    /\ \A p \in Procs : pc[p] \in CopyInUse => countCopy[p] <= SuppliersOf(job[p])

LEMMA CountInit == Init => CountInv
<1>. SUFFICES ASSUME Init PROVE CountInv
  OBVIOUS
<1>1. ASSUME NEW t \in Tasks PROVE Keys(Real(t)) = {}
  BY <1>1 DEF Init, Real, Keys
<1>2. \A t \in Tasks : SuppliersOf(t) = 0
  BY <1>1, FS_EmptySet DEF SuppliersOf
<1>. QED BY <1>2 DEF Init, TasksInit, CountInv, CopyInUse, SavingTask, SavingEntity

\* No step takes a product away.
LEMMA SuppliersStay ==
    ASSUME SearchFrame, RowsInv, [Next]_vars, NEW t \in Tasks
    PROVE  /\ products[t] \subseteq products'[t]
           /\ SuppliersOf(t) \in Nat /\ SuppliersOf(t)' \in Nat
           /\ SuppliersOf(t) <= SuppliersOf(t)'
<1>1. products[t] \subseteq products'[t]
  <2>1. CASE UNCHANGED products
    BY <2>1
  <2>2. ASSUME NEW p \in Procs, Add(p) \/ AddDemo(p) PROVE products[t] \subseteq products'[t]
    BY <2>2 DEF Add, AddDemo, Inserts, SearchFrame
  <2>. QED BY <2>1, <2>2
       DEF Next, vars, Endpoint, WorkerTurn, Shared, Load, Begin, End, Work, Research, Snapshot,
           Skip, EndLoop, Succeed, Raises, Clash, AddClashes, AddDemoClashes, SaveFault,
           CrashSearch, searchVars
<1>2. SearchFrame' /\ RowsInv'
  BY FrameStep, RowsStep
<1>3. IsFiniteSet(Keys(Real(t))) /\ IsFiniteSet(Keys(Real(t)'))
  <2>1. IsFiniteSet(products'[t]) /\ Real(t)' \subseteq products'[t]
    BY <1>2 DEF RowsInv, Real
  <2>2. IsFiniteSet(Real(t)')
    BY <2>1, FS_Subset
  <2>. QED BY <2>2, KeysFinite, CountType
<1>4. Keys(Real(t)) \subseteq Keys(Real(t)')
  BY <1>1 DEF Keys, Real
<1>. QED BY <1>1, <1>3, <1>4, FS_Subset, FS_CardinalityType DEF SuppliersOf

\* Steps in which no row is written and no copy is made.
LEMMA OthersKeepCount ==
    ASSUME SearchFrame, RowsInv, CountInv, [Next]_vars, UNCHANGED <<suppliersCount, countCopy>>,
           \A p \in Procs : pc'[p] \in CopyInUse => pc[p] \in CopyInUse /\ job'[p] = job[p]
    PROVE  CountInv'
<1>1. \A p \in Procs : pc[p] \in CopyInUse => job[p] \in Tasks
  BY DEF SearchFrame, TasksTypeOK, CopyInUse, SavingTask, SavingEntity, Steps
<1>2. \A p \in Procs : countCopy[p] \in Nat
  BY DEF RowsInv
<1>3. \A t \in Tasks : suppliersCount[t] \in Nat
  BY DEF RowsInv
<1>4. ASSUME NEW t \in Tasks PROVE suppliersCount'[t] <= SuppliersOf(t)'
  BY <1>3, SuppliersStay DEF CountInv
<1>5. ASSUME NEW p \in Procs, pc'[p] \in CopyInUse, NEW t \in Tasks, t = job[p]
      PROVE  countCopy'[p] <= SuppliersOf(t)' /\ job'[p] = t
  <2>1. pc[p] \in CopyInUse /\ job'[p] = t /\ countCopy[p] <= SuppliersOf(t)
    BY <1>5 DEF CountInv
  <2>2. countCopy'[p] = countCopy[p]
    OBVIOUS
  <2>3. SuppliersOf(t) \in Nat /\ SuppliersOf(t)' \in Nat /\ SuppliersOf(t) <= SuppliersOf(t)'
    BY SuppliersStay
  <2>. QED BY <1>2, <2>1, <2>2, <2>3
<1>. QED BY <1>1, <1>4, <1>5 DEF CountInv

LEMMA CountStep == SearchFrame /\ RowsInv /\ CountInv /\ [Next]_vars => CountInv'
<1>. SUFFICES ASSUME SearchFrame, RowsInv, CountInv, [Next]_vars PROVE CountInv'
  OBVIOUS
<1>0. /\ pc \in [Procs -> Steps \cup {"idle", "waiting", "done"}]
      /\ job \in [Procs -> Tasks \cup {NoTask}]
      /\ \A p \in Procs : pc[p] \in CopyInUse => job[p] \in Tasks
      /\ \A p \in Procs : pc[p] \in Steps \ {"dead"} => job[p] \in Tasks
      /\ suppliersCount \in [Tasks -> Nat] /\ countCopy \in [Procs -> Nat]
  BY DEF SearchFrame, TasksTypeOK, CopyInUse, SavingTask, SavingEntity, Steps, RowsInv
<1>1. ASSUME NEW t \in Tasks, Endpoint(t) PROVE CountInv'
  <2>1. \A p \in Procs : pc'[p] \in CopyInUse => pc'[p] = pc[p]
    BY <1>0, <1>1, TasksAssumption
       DEF Endpoint, ApiNext, ApiAddTask, ApiAddEntity, ApiFault, procVars, CopyInUse,
           SavingTask, SavingEntity
  <2>2. UNCHANGED <<suppliersCount, countCopy, job>>
    BY <1>1 DEF Endpoint, ApiNext, ApiAddTask, ApiAddEntity, ApiFault, procVars, searchVars
  <2>. QED BY <2>1, <2>2, OthersKeepCount
<1>2. ASSUME NEW w \in Workers, WorkerTurn(w) PROVE CountInv'
  <2>1. \A p \in Procs : pc'[p] \in CopyInUse => pc'[p] = pc[p] /\ job'[p] = job[p]
    BY <1>0, <1>2 DEF WorkerTurn, WorkerStep, Poll, Pick, Restart, CopyInUse, SavingTask,
                      SavingEntity
  <2>2. UNCHANGED <<suppliersCount, countCopy>>
    BY <1>2 DEF WorkerTurn, searchVars
  <2>. QED BY <2>1, <2>2, OthersKeepCount
<1>3. ASSUME NEW p \in Procs, Shared(p) PROVE CountInv'
  <2>1. \A q \in Procs : pc'[q] \in CopyInUse => pc[q] \in CopyInUse
    BY <1>0, <1>3, EntityWriteType
       DEF Shared, LoadTask, LoadNoEntity, SaveTask, FailTaskOnly, Return, CopyInUse,
           SavingTask, SavingEntity
  <2>2. UNCHANGED <<suppliersCount, countCopy, job>>
    BY <1>3 DEF Shared, LoadTask, LoadNoEntity, SaveTask, FailTaskOnly, searchVars
  <2>. QED BY <2>1, <2>2, OthersKeepCount
<1>4. ASSUME NEW p \in Procs, Work(p) \/ Clash(p) \/ SaveFault(p) \/ CrashSearch(p), ~Succeed(p)
      PROVE  CountInv'
  <2>1. UNCHANGED <<suppliersCount, countCopy, job>>
    BY <1>4 DEF Work, Clash, Research, Snapshot, Skip, Add, EndLoop, AddDemo, Raises, AddClashes,
                AddDemoClashes, WorkFails, Raise, SaveFault, TryFault, CrashSearch, Crash, Die,
                tasksVars, procVars, searchVars
  <2>2. \/ UNCHANGED pc
        \/ pc' = [pc EXCEPT ![p] = "failTask"] /\ pc[p] \in {"work"} \cup InTry
        \/ pc' = [pc EXCEPT ![p] = "dead"]
    BY <1>4 DEF Work, Clash, Research, Snapshot, Skip, Add, EndLoop, AddDemo, Raises, AddClashes,
                AddDemoClashes, WorkFails, Raise, SaveFault, TryFault, CrashSearch, Crash, Die,
                tasksVars, procVars
  <2>3. \A q \in Procs : pc'[q] \in CopyInUse => pc[q] \in CopyInUse
    BY <1>0, <2>2 DEF CopyInUse, SavingTask, SavingEntity, InTry
  <2>. QED BY <2>1, <2>3, OthersKeepCount
<1>5. ASSUME NEW p \in Procs, Load(p) \/ Begin(p) \/ End(p) \/ Succeed(p) PROVE CountInv'
  <2>1. UNCHANGED <<products, job>> /\ job[p] \in Tasks
    BY <1>0, <1>5 DEF Load, LoadEntity, Begin, BeginWork, End, EndTask, Succeed, WorkSucceeds,
                      SavingEntity, Steps
  <2>2. \A t : SuppliersOf(t)' = SuppliersOf(t)
    BY <2>1 DEF SuppliersOf, Real
  <2>3. \A q \in Procs : q # p => pc'[q] = pc[q]
    BY <1>0, <1>5 DEF Load, LoadEntity, Begin, BeginWork, End, EndTask, Return, Succeed,
                      WorkSucceeds
  <2>4. CASE Load(p) \/ Succeed(p)
    <3>1. UNCHANGED suppliersCount
      BY <2>4 DEF Load, Succeed
    <3>2. PICK n \in {suppliersCount[job[p]], CountOf(job[p])} :
            countCopy' = [countCopy EXCEPT ![p] = n]
      BY <2>4 DEF Load, Succeed
    <3>3. n <= SuppliersOf(job[p])
      <4>1. CountOf(job[p]) = SuppliersOf(job[p]) /\ CountOf(job[p]) \in Nat
        BY <2>1, CountType DEF SuppliersOf
      <4>2. suppliersCount[job[p]] <= SuppliersOf(job[p])
        BY <2>1 DEF CountInv
      <4>. QED BY <3>2, <4>1, <4>2
    <3>. QED BY <1>0, <2>1, <2>2, <2>3, <3>1, <3>2, <3>3 DEF CountInv
  <2>5. CASE Begin(p) \/ End(p)
    <3>1. /\ suppliersCount' = [suppliersCount EXCEPT ![job[p]] = countCopy[p]]
          /\ UNCHANGED countCopy /\ pc[p] \in CopyInUse
      BY <2>5 DEF Begin, BeginWork, End, EndTask, SaveCount, CopyInUse, SavingEntity
    <3>. QED BY <1>0, <2>1, <2>2, <2>3, <3>1 DEF CountInv
  <2>. QED BY <1>5, <2>4, <2>5
<1>6. CASE UNCHANGED vars
  BY <1>6, OthersKeepCount DEF vars, tasksVars, procVars, searchVars
<1>. QED BY <1>1, <1>2, <1>3, <1>4, <1>5, <1>6 DEF Next

(***************************************************************************)
(* However many runs a request had, at the same time or one after another, *)
(* it has at most MaxResults products for each, and no row says more       *)
(* suppliers than are in the table.                                        *)
(***************************************************************************)
THEOREM RunsAreBounded == Spec => []BoundedPerRun
<1>1. SearchFrame /\ RowsInv /\ WithinInv /\ CountInv => BoundedPerRun
  <2>. SUFFICES ASSUME SearchFrame, RowsInv, WithinInv, CountInv, NEW t \in Tasks
                PROVE  /\ Cardinality(Real(t)) <= MaxResults * runs[t]
                       /\ suppliersCount[t] <= Cardinality(Keys(Real(t)))
    BY DEF BoundedPerRun
  <2>1. Cardinality(Slots(t)) \in Nat /\ Cardinality(Real(t)) \in Nat
    BY CountType, FS_CardinalityType DEF WithinInv
  <2>2. MaxResults * runs[t] \in Nat
    BY LimitType DEF SearchFrame, TasksTypeOK
  <2>3. Cardinality(Real(t)) + Cardinality(Slots(t)) <= MaxResults * runs[t]
    BY DEF WithinInv
  <2>4. suppliersCount[t] <= Cardinality(Keys(Real(t)))
    BY DEF CountInv, SuppliersOf
  <2>. QED BY <2>1, <2>2, <2>3, <2>4
<1>. QED
  BY <1>1, FrameInit, FrameStep, OnceInit, OnceStep, RowsInit, RowsStep, WithinInit, WithinStep,
     CountInit, CountStep, PTL DEF Spec

-----------------------------------------------------------------------------
(***************************************************************************)
(* The demo product.  The only run of a request decides on it when it has  *)
(* added nothing, and then (Knows) nothing is in the table; before that    *)
(* the demo product is not there, so no real product is put beside it.     *)
(***************************************************************************)
DemoInv ==
    /\ \A t \in Tasks : runs[t] = 1 /\ DemoUrl \in Urls(products[t]) => Real(t) = {}
    /\ \A p \in Procs :
        stage[p] = "loop" /\ runs[job[p]] = 1 => DemoUrl \notin Urls(products[job[p]])

LEMMA DemoInit == Init => DemoInv
BY DEF Init, TasksInit, DemoInv

LEMMA OthersKeepDemo ==
    ASSUME DemoInv, UNCHANGED <<products, runs>>,
           \A p \in Procs : stage'[p] = "loop" => stage[p] = "loop" /\ job'[p] = job[p]
    PROVE  DemoInv'
BY DEF DemoInv, Real

LEMMA DemoStep ==
    SearchFrame /\ RowsInv /\ OnceInv /\ DemoInv /\ [Next]_vars => DemoInv'
<1>. SUFFICES ASSUME SearchFrame, RowsInv, OnceInv, DemoInv, [Next]_vars PROVE DemoInv'
  OBVIOUS
<1>0. /\ stage \in [Procs -> Stages] /\ runs \in [Tasks -> Nat] /\ DOMAIN products = Tasks
      /\ \A p \in Procs : AtWork(p) <=> pc[p] = "work"
      /\ \A p \in Procs : AtWork(p) => job[p] \in Tasks
      /\ job \in [Procs -> Tasks \cup {NoTask}]
  BY DEF SearchFrame, TasksTypeOK, AtWork, Steps
<1>1. ASSUME NEW t \in Tasks, Endpoint(t) PROVE DemoInv'
  BY <1>1, OthersKeepDemo
     DEF Endpoint, ApiNext, ApiAddTask, ApiAddEntity, ApiFault, procVars, searchVars, localVars
<1>2. ASSUME NEW w \in Workers, WorkerTurn(w) PROVE DemoInv'
  <2>1. UNCHANGED <<runs, products, stage>>
    BY <1>2 DEF WorkerTurn, WorkerStep, Poll, Pick, Restart, searchVars, localVars
  <2>2. \A p \in Procs : AtWork(p) => job'[p] = job[p]
    BY <1>0, <1>2 DEF WorkerTurn, WorkerStep, Poll, Pick, Restart
  <2>. QED BY <2>1, <2>2, OthersKeepDemo DEF AtWork
<1>3. ASSUME NEW p \in Procs, Shared(p) \/ Load(p) \/ End(p) \/ SaveFault(p) PROVE DemoInv'
  <2>1. UNCHANGED <<runs, products, stage, job>>
    BY <1>3 DEF Shared, Load, End, SaveFault, LoadTask, LoadNoEntity, LoadEntity, SaveTask,
                EndTask, FailTaskOnly, TryFault, Raise, searchVars, localVars
  <2>. QED BY <2>1, OthersKeepDemo
<1>4. ASSUME NEW p \in Procs, Succeed(p) \/ Raises(p) \/ Clash(p) \/ CrashSearch(p)
      PROVE  DemoInv'
  <2>1. UNCHANGED <<runs, products, job>> /\ Forget(p)
    BY <1>4 DEF Succeed, WorkSucceeds, Raises, Clash, AddClashes, AddDemoClashes, WorkFails,
                Raise, CrashSearch, Crash, Die
  <2>. QED BY <1>0, <2>1, OthersKeepDemo DEF Forget
<1>5. ASSUME NEW p \in Procs, Begin(p) PROVE DemoInv'
  <2>1. /\ stage' = [stage EXCEPT ![p] = "research"] /\ UNCHANGED <<products, job>>
        /\ runs' = [runs EXCEPT ![job[p]] = @ + 1] /\ job[p] \in Tasks
    BY <1>5 DEF Begin, BeginWork, SearchFrame, TasksTypeOK, Steps, SavingEntity
  <2>2. \A t \in Tasks : runs'[t] = 1 => runs[t] = 1 \/ products[t] = {}
    BY <1>0, <2>1 DEF OnceInv
  <2>3. \A q \in Procs : stage'[q] = "loop" /\ runs'[job[q]] = 1 =>
            stage[q] = "loop" /\ runs[job[q]] = 1
    BY <1>0, <2>1 DEF OnceInv, AtWork
  <2>. QED BY <2>1, <2>2, <2>3 DEF DemoInv, Real, Urls
<1>6. ASSUME NEW p \in Procs, Research(p) \/ Skip(p) \/ EndLoop(p) PROVE DemoInv'
  <2>1. UNCHANGED <<runs, products, job>>
    BY <1>6 DEF Research, Skip, EndLoop, tasksVars, procVars
  <2>2. \A q \in Procs : stage'[q] = "loop" => stage[q] = "loop"
    BY <1>0, <1>6 DEF Research, Skip, EndLoop
  <2>. QED BY <2>1, <2>2, OthersKeepDemo
<1>7. ASSUME NEW p \in Procs, Snapshot(p) PROVE DemoInv'
  <2>1. /\ UNCHANGED <<runs, products, job>> /\ stage' = [stage EXCEPT ![p] = "loop"]
        /\ AtWork(p)
    BY <1>7 DEF Snapshot, At, AtWork, tasksVars, procVars
  <2>2. runs[job[p]] = 1 => products[job[p]] = {}
    BY <1>7, <2>1 DEF Snapshot, At, OnceInv, Knows
  <2>. QED BY <1>0, <2>1, <2>2 DEF DemoInv, Real, Urls
<1>8. ASSUME NEW p \in Procs, Add(p) PROVE DemoInv'
  <2>. DEFINE row == Row(Head(found[p]))
  <2>1. /\ UNCHANGED <<runs, job, stage>> /\ stage[p] = "loop" /\ job[p] \in Tasks
        /\ products' = [products EXCEPT ![job[p]] = @ \cup {row}]
    BY <1>0, <1>8
       DEF Add, Inserts, InLoop, At, AtWork, tasksVars, procVars
  <2>2. row.url # DemoUrl
    BY <1>8, HeadIsListed, RowOfOffer DEF Add, InLoop
  <2>. HIDE DEF row
  <2>3. \A t \in Tasks : DemoUrl \in Urls(products'[t]) <=> DemoUrl \in Urls(products[t])
    BY <1>0, <2>1, <2>2 DEF Urls
  <2>4. ASSUME NEW t \in Tasks, runs[t] = 1, DemoUrl \in Urls(products[t])
        PROVE  t # job[p] /\ Real(t)' = Real(t)
    BY <1>0, <2>1, <2>4 DEF DemoInv, Real
  <2>5. \A q \in Procs : stage[q] = "loop" => job[q] \in Tasks
    BY <1>0 DEF AtWork
  <2>. QED BY <2>1, <2>3, <2>4, <2>5 DEF DemoInv
<1>9. ASSUME NEW p \in Procs, AddDemo(p) PROVE DemoInv'
  <2>. DEFINE row == Demo
  <2>1. /\ UNCHANGED <<runs, job>> /\ AtWork(p) /\ stage' = [stage EXCEPT ![p] = "count"]
        /\ products' = [products EXCEPT ![job[p]] = @ \cup {row}] /\ job[p] \in Tasks
        /\ runs[job[p]] = 1 => products[job[p]] = {}
    BY <1>0, <1>9
       DEF AddDemo, Inserts, At, AtWork, tasksVars, procVars, OnceInv, Knows
  <2>2. row.url = DemoUrl
    BY DemoRow
  <2>. HIDE DEF row
  <2>3. ASSUME NEW t \in Tasks, runs[t] = 1, DemoUrl \in Urls(products'[t])
        PROVE  Real(t)' = {}
    <3>1. CASE t = job[p]
      BY <1>0, <2>1, <2>2, <2>3, <3>1 DEF Real
    <3>2. CASE t # job[p]
      BY <1>0, <2>1, <2>3, <3>2 DEF DemoInv, Real
    <3>. QED BY <3>1, <3>2
  <2>4. ASSUME NEW q \in Procs, stage'[q] = "loop", runs[job[q]] = 1
        PROVE  DemoUrl \notin Urls(products'[job[q]])
    <3>1. q # p /\ stage[q] = "loop" /\ AtWork(q) /\ job[q] \in Tasks
      BY <1>0, <2>1, <2>4 DEF AtWork
    <3>2. job[q] # job[p]
      BY <2>1, <2>4, <3>1 DEF OnceInv
    <3>. QED BY <1>0, <2>1, <2>4, <3>1, <3>2 DEF DemoInv
  <2>. QED BY <2>1, <2>3, <2>4 DEF DemoInv
<1>10. CASE UNCHANGED vars
  BY <1>10, OthersKeepDemo DEF vars, tasksVars, procVars, searchVars, localVars
<1>. QED
  BY <1>1, <1>2, <1>3, <1>4, <1>5, <1>6, <1>7, <1>8, <1>9, <1>10 DEF Next, Work

\* The demo product never stands among the real products of a request worked on once.
THEOREM DemoIsAlone == Spec => []DemoStandsAlone
<1>1. SearchFrame /\ OnceInv /\ DemoInv => DemoStandsAlone
  <2>. SUFFICES ASSUME SearchFrame, OnceInv, DemoInv, NEW t \in Tasks, runs[t] <= 1,
                       DemoUrl \in Urls(products[t])
                PROVE  Real(t) = {}
    BY DEF DemoStandsAlone, WorkedOnOnce
  <2>1. runs[t] \in Nat
    BY DEF SearchFrame, TasksTypeOK
  <2>2. runs[t] # 0
    BY DEF OnceInv, Urls
  <2>. QED BY <2>1, <2>2 DEF DemoInv
<1>. QED
  BY <1>1, FrameInit, FrameStep, OnceInit, OnceStep, RowsInit, RowsStep, DemoInit, DemoStep, PTL
     DEF Spec

-----------------------------------------------------------------------------
(***************************************************************************)
(* The count of a completed request.  Until its only run has ended nothing *)
(* says completed, neither the row nor a copy in use.  That run counts when *)
(* it ends, nothing is added after it, and whatever says completed from    *)
(* then on (the row, copies made of it, a row written back from a copy)    *)
(* carries the count with the status.                                      *)
(***************************************************************************)
Says(p, t) == pc[p] \in CopyInUse /\ job[p] = t /\ entityCopy[p] = "completed"

NothingSays(t) == entity[t] # "completed" /\ \A p \in Procs : ~Says(p, t)

InWork(t) == \E p \in Procs : AtWork(p) /\ job[p] = t

CountedInv ==
    /\ \A t \in Tasks : runs[t] = 0 \/ (runs[t] = 1 /\ InWork(t)) => NothingSays(t)
    /\ \A t \in Tasks : runs[t] = 1 =>
        /\ entity[t] = "completed" => suppliersCount[t] = SuppliersOf(t)
        /\ \A p \in Procs : Says(p, t) => countCopy[p] = SuppliersOf(t)

LEMMA CountedInit == Init => CountedInv
BY DEF Init, TasksInit, CountedInv, NothingSays, Says

\* Steps that make nothing say completed that did not.
LEMMA OthersKeepCounted ==
    ASSUME CountedInv, UNCHANGED <<runs, products, suppliersCount>>,
           \A t \in Tasks : entity'[t] = "completed" => entity[t] = "completed",
           \A p \in Procs : AtWork(p)' => AtWork(p) /\ job'[p] = job[p],
           \A p \in Procs : pc'[p] \in CopyInUse /\ entityCopy'[p] = "completed" =>
                /\ pc[p] \in CopyInUse /\ entityCopy[p] = "completed"
                /\ job'[p] = job[p] /\ countCopy'[p] = countCopy[p]
    PROVE  CountedInv'
<1>1. ASSUME NEW t \in Tasks PROVE /\ InWork(t)' => InWork(t)
                                   /\ SuppliersOf(t)' = SuppliersOf(t)
                                   /\ NothingSays(t) => NothingSays(t)'
  BY <1>1 DEF InWork, SuppliersOf, Real, NothingSays, Says
<1>2. \A p \in Procs, t \in Tasks : Says(p, t)' => Says(p, t) /\ countCopy'[p] = countCopy[p]
  BY DEF Says
<1>. QED BY <1>1, <1>2 DEF CountedInv

\* A product is added by a run, before which nothing says completed.
LEMMA AddKeepsCounted ==
    ASSUME SearchFrame, OnceInv, CountedInv, NEW p \in Procs, Add(p) \/ AddDemo(p)
    PROVE  CountedInv'
<1>1. /\ UNCHANGED <<runs, entity, pc, job, entityCopy, countCopy, suppliersCount>>
      /\ AtWork(p) /\ \A q \in Procs : AtWork(q)' => AtWork(q)
  BY DEF Add, AddDemo, InLoop, At, AtWork, tasksVars, procVars, SearchFrame
<1>2. \A t \in Tasks : t # job[p] => products'[t] = products[t]
  BY DEF Add, AddDemo, Inserts, SearchFrame
<1>3. ASSUME NEW t \in Tasks
      PROVE  /\ InWork(t)' => InWork(t)
             /\ NothingSays(t)' <=> NothingSays(t)
             /\ t # job[p] => SuppliersOf(t)' = SuppliersOf(t)
             /\ t = job[p] => InWork(t)
             /\ \A q \in Procs : Says(q, t)' <=> Says(q, t)
  BY <1>1, <1>2 DEF InWork, SuppliersOf, Real, NothingSays, Says
<1>4. \A t \in Tasks : t = job[p] /\ runs[t] = 1 => NothingSays(t)
  BY <1>3 DEF CountedInv
<1>. QED BY <1>1, <1>3, <1>4 DEF CountedInv, NothingSays

LEMMA BeginKeepsCounted ==
    ASSUME SearchFrame, OnceInv, CountedInv, NEW p \in Procs, Begin(p)
    PROVE  CountedInv'
<1>1. /\ stage' = [stage EXCEPT ![p] = "research"] /\ stage \in [Procs -> Stages]
      /\ pc' = [pc EXCEPT ![p] = "work"] /\ pc[p] \in CopyInUse
      /\ runs' = [runs EXCEPT ![job[p]] = @ + 1] /\ runs \in [Tasks -> Nat]
      /\ entity' = [entity EXCEPT ![job[p]] = entityCopy[p]]
      /\ suppliersCount' = [suppliersCount EXCEPT ![job[p]] = countCopy[p]]
      /\ UNCHANGED <<products, job, entityCopy, countCopy>> /\ job[p] \in Tasks
      /\ DOMAIN pc = Procs /\ DOMAIN entity = Tasks
  BY DEF Begin, BeginWork, SaveCount, SearchFrame, TasksTypeOK, Steps, SavingEntity, CopyInUse
<1>2. ASSUME NEW t \in Tasks
      PROVE  /\ t # job[p] => (InWork(t)' => InWork(t))
             /\ SuppliersOf(t)' = SuppliersOf(t)
             /\ \A q \in Procs : Says(q, t)' => Says(q, t) /\ countCopy'[q] = countCopy[q]
  BY <1>1 DEF InWork, AtWork, SuppliersOf, Real, Says, CopyInUse
<1>3. ASSUME NEW t \in Tasks, t # job[p]
      PROVE  /\ runs'[t] = runs[t] /\ entity'[t] = entity[t]
             /\ suppliersCount'[t] = suppliersCount[t]
             /\ NothingSays(t) => NothingSays(t)'
  <2>1. runs'[t] = runs[t] /\ entity'[t] = entity[t]
    BY <1>1, <1>3
  <2>2. suppliersCount'[t] = suppliersCount[t]
    BY <1>1, <1>3
  <2>. QED BY <1>2, <2>1, <2>2 DEF NothingSays
<1>4. ASSUME NEW t \in Tasks, t = job[p] PROVE runs'[t] # 0 /\ (runs'[t] = 1 => NothingSays(t)')
  <2>1. runs'[t] = runs[t] + 1 /\ runs[t] \in Nat /\ entity'[t] = entityCopy[p]
    BY <1>1, <1>4
  <2>2. runs'[t] = 1 => NothingSays(t)
    BY <2>1 DEF CountedInv
  <2>3. NothingSays(t) => entityCopy[p] # "completed"
    BY <1>1, <1>4 DEF NothingSays, Says
  <2>. QED BY <1>2, <2>1, <2>2, <2>3 DEF NothingSays
<1>. QED BY <1>2, <1>3, <1>4 DEF CountedInv, NothingSays

LEMMA CountedStep ==
    SearchFrame /\ RowsInv /\ OnceInv /\ CountedInv /\ [Next]_vars => CountedInv'
<1>. SUFFICES ASSUME SearchFrame, RowsInv, OnceInv, CountedInv, [Next]_vars PROVE CountedInv'
  OBVIOUS
<1>0. /\ pc \in [Procs -> Steps \cup {"idle", "waiting", "done"}]
      /\ job \in [Procs -> Tasks \cup {NoTask}]
      /\ entity \in [Tasks -> RowStatuses] /\ entityCopy \in [Procs -> RowStatuses]
      /\ \A p \in Procs : pc[p] \in Steps \ {"dead"} => job[p] \in Tasks
      /\ \A p \in Procs : AtWork(p) <=> pc[p] = "work"
      /\ suppliersCount \in [Tasks -> Nat] /\ countCopy \in [Procs -> Nat]
      /\ stage \in [Procs -> Stages]
  BY DEF SearchFrame, TasksTypeOK, AtWork, RowsInv
<1>1. ASSUME NEW t \in Tasks, Endpoint(t) PROVE CountedInv'
  <2>1. UNCHANGED <<runs, products, suppliersCount, stage, job, entityCopy, countCopy>>
    BY <1>1 DEF Endpoint, ApiNext, ApiAddTask, ApiAddEntity, ApiFault, procVars, searchVars,
                localVars
  <2>2. \A u \in Tasks : entity'[u] = "completed" => entity[u] = "completed"
    BY <1>0, <1>1 DEF Endpoint, ApiNext, ApiAddTask, ApiAddEntity, ApiFault
  <2>3. \A p \in Procs : pc'[p] \in CopyInUse => pc'[p] = pc[p]
    BY <1>0, <1>1, TasksAssumption
       DEF Endpoint, ApiNext, ApiAddTask, ApiAddEntity, ApiFault, procVars, CopyInUse,
           SavingTask, SavingEntity
  <2>. QED BY <2>1, <2>2, <2>3, OthersKeepCounted DEF AtWork
<1>2. ASSUME NEW w \in Workers, WorkerTurn(w) PROVE CountedInv'
  <2>1. UNCHANGED <<runs, products, suppliersCount, stage, entity, entityCopy, countCopy>>
    BY <1>2 DEF WorkerTurn, WorkerStep, Poll, Pick, Restart, searchVars, localVars
  <2>2. /\ \A p \in Procs : pc'[p] \in CopyInUse => pc'[p] = pc[p] /\ job'[p] = job[p]
        /\ \A p \in Procs : AtWork(p) => job'[p] = job[p]
    BY <1>0, <1>2 DEF WorkerTurn, WorkerStep, Poll, Pick, Restart, CopyInUse, SavingTask,
                      SavingEntity
  <2>. QED BY <2>1, <2>2, OthersKeepCounted DEF AtWork
<1>3. ASSUME NEW p \in Procs, Shared(p) PROVE CountedInv'
  <2>1. UNCHANGED <<runs, products, suppliersCount, stage, entity, entityCopy, countCopy, job>>
    BY <1>3 DEF Shared, LoadTask, LoadNoEntity, SaveTask, FailTaskOnly, searchVars, localVars
  <2>2. \A q \in Procs : pc'[q] \in CopyInUse => pc[q] \in CopyInUse
    BY <1>0, <1>3, EntityWriteType
       DEF Shared, LoadTask, LoadNoEntity, SaveTask, FailTaskOnly, Return, CopyInUse,
           SavingTask, SavingEntity
  <2>. QED BY <2>1, <2>2, OthersKeepCounted DEF AtWork
<1>4. ASSUME NEW p \in Procs, Load(p) PROVE CountedInv'
  <2>1. UNCHANGED <<runs, products, suppliersCount, stage, entity, job>> /\ job[p] \in Tasks
    BY <1>0, <1>4 DEF Load, LoadEntity, localVars, Steps
  <2>2. /\ entityCopy'[p] = "completed" => entity[job[p]] = "completed"
        /\ countCopy'[p] = suppliersCount[job[p]]
    BY <1>0, <1>4 DEF Load, LoadEntity, AfterExcept
  <2>3. \A q \in Procs \ {p} :
            entityCopy'[q] = entityCopy[q] /\ pc'[q] = pc[q] /\ countCopy'[q] = countCopy[q]
    BY <1>0, <1>4 DEF Load, LoadEntity
  <2>4. ASSUME NEW t \in Tasks
        PROVE  /\ InWork(t)' <=> InWork(t)
               /\ SuppliersOf(t)' = SuppliersOf(t)
               /\ Says(p, t)' => entity[t] = "completed" /\ countCopy'[p] = suppliersCount[t]
               /\ \A q \in Procs \ {p} : Says(q, t)' <=> Says(q, t)
    BY <2>1, <2>2, <2>3 DEF InWork, AtWork, SuppliersOf, Real, Says
  <2>5. \A t \in Tasks : NothingSays(t) => NothingSays(t)'
    BY <2>1, <2>4 DEF NothingSays
  <2>. QED BY <2>1, <2>3, <2>4, <2>5 DEF CountedInv
<1>5. ASSUME NEW p \in Procs, End(p) PROVE CountedInv'
  <2>1. /\ UNCHANGED <<runs, products, stage, job, entityCopy, countCopy>> /\ job[p] \in Tasks
        /\ entity' = [entity EXCEPT ![job[p]] = entityCopy[p]]
        /\ suppliersCount' = [suppliersCount EXCEPT ![job[p]] = countCopy[p]]
        /\ pc[p] \in CopyInUse
    BY <1>0, <1>5 DEF End, EndTask, SaveCount, localVars, Steps, SavingEntity, CopyInUse
  <2>2. \A q \in Procs : pc'[q] \in CopyInUse => pc[q] \in CopyInUse
    BY <1>0, <1>5 DEF End, EndTask, Return, CopyInUse, SavingTask, SavingEntity
  <2>3. ASSUME NEW t \in Tasks
        PROVE  /\ InWork(t)' <=> InWork(t)
               /\ SuppliersOf(t)' = SuppliersOf(t)
               /\ \A q \in Procs : Says(q, t)' => Says(q, t)
    BY <2>1, <2>2 DEF InWork, AtWork, SuppliersOf, Real, Says
  <2>4. ASSUME NEW t \in Tasks, entity'[t] = "completed"
        PROVE  \/ entity[t] = "completed" /\ suppliersCount'[t] = suppliersCount[t]
               \/ Says(p, t) /\ suppliersCount'[t] = countCopy[p]
    <3>1. CASE t = job[p]
      <4>1. suppliersCount'[t] = countCopy[p] /\ entityCopy[p] = "completed"
        BY <1>0, <2>1, <2>4, <3>1
      <4>. QED BY <2>1, <3>1, <4>1 DEF Says
    <3>2. CASE t # job[p]
      BY <1>0, <2>1, <2>4, <3>2
    <3>. QED BY <3>1, <3>2
  <2>5. \A t \in Tasks : NothingSays(t) => NothingSays(t)'
    BY <2>3, <2>4 DEF NothingSays
  <2>. QED BY <2>1, <2>3, <2>4, <2>5 DEF CountedInv
<1>6. ASSUME NEW p \in Procs,
             Research(p) \/ Snapshot(p) \/ Skip(p) \/ EndLoop(p)
      PROVE  CountedInv'
  <2>1. /\ UNCHANGED <<runs, products, suppliersCount, entity, entityCopy, countCopy, job, pc>>
        /\ \A q \in Procs : AtWork(q)' => AtWork(q)
    BY <1>0, <1>6 DEF Research, Snapshot, Skip, EndLoop, InLoop, LoopDone, At, AtWork, tasksVars,
                      procVars
  <2>. QED BY <2>1, OthersKeepCounted
<1>7. ASSUME NEW p \in Procs, Raises(p) \/ Clash(p) \/ CrashSearch(p) \/ SaveFault(p)
      PROVE  CountedInv'
  <2>1. /\ UNCHANGED <<runs, products, suppliersCount, entity, countCopy, job>>
        /\ \A q \in Procs : AtWork(q)' => AtWork(q)
    BY <1>0, <1>7 DEF Raises, Clash, AddClashes, AddDemoClashes, WorkFails, Raise, CrashSearch,
                      Crash, Die, SaveFault, TryFault, Forget, searchVars, localVars, AtWork
  <2>2. \/ /\ pc' = [pc EXCEPT ![p] = "failTask"] /\ pc[p] \in CopyInUse
           /\ entityCopy' = [entityCopy EXCEPT ![p] = AfterExcept(@)]
        \/ pc' = [pc EXCEPT ![p] = "dead"] /\ UNCHANGED entityCopy
    BY <1>7 DEF Raises, Clash, AddClashes, AddDemoClashes, WorkFails, Raise, CrashSearch,
                Crash, Die, SaveFault, TryFault, InTry, CopyInUse, SavingTask, SavingEntity
  <2>3. \A q \in Procs : pc'[q] \in CopyInUse /\ entityCopy'[q] = "completed" =>
            pc[q] \in CopyInUse /\ entityCopy[q] = "completed"
    BY <1>0, <2>2 DEF AfterExcept, CopyInUse, SavingTask, SavingEntity
  <2>. QED BY <2>1, <2>3, OthersKeepCounted
<1>8. ASSUME NEW p \in Procs, Succeed(p) PROVE CountedInv'
  <2>1. /\ UNCHANGED <<runs, products, suppliersCount, entity, job>> /\ job[p] \in Tasks
        /\ AtWork(p) /\ ~AtWork(p)'
        /\ countCopy' = [countCopy EXCEPT ![p] = CountOf(job[p])]
    BY <1>0, <1>8 DEF Succeed, At, WorkSucceeds, Forget, Steps, AtWork
  <2>2. \A q \in Procs \ {p} :
            /\ entityCopy'[q] = entityCopy[q] /\ pc'[q] = pc[q] /\ countCopy'[q] = countCopy[q]
            /\ AtWork(q)' <=> AtWork(q)
    BY <1>0, <1>8 DEF Succeed, WorkSucceeds, Forget, AtWork
  <2>3. countCopy'[p] = SuppliersOf(job[p])
    BY <1>0, <2>1, CountType DEF SuppliersOf
  <2>4. ASSUME NEW t \in Tasks
        PROVE  /\ InWork(t)' => InWork(t) /\ (runs[t] = 1 => t # job[p])
               /\ SuppliersOf(t)' = SuppliersOf(t)
               /\ \A q \in Procs : Says(q, t)' => (q = p /\ t = job[p]) \/ (q # p /\ Says(q, t))
    <3>1. InWork(t)' => InWork(t) /\ (runs[t] = 1 => t # job[p])
      BY <2>1, <2>2 DEF InWork, OnceInv
    <3>. QED BY <2>1, <2>2, <3>1 DEF SuppliersOf, Real, Says
  <2>5. runs[job[p]] # 0
    BY <2>1 DEF OnceInv
  <2>6. ASSUME NEW t \in Tasks, t # job[p] PROVE NothingSays(t) => NothingSays(t)'
    BY <2>1, <2>4, <2>6 DEF NothingSays
  <2>. QED BY <2>1, <2>2, <2>3, <2>4, <2>5, <2>6 DEF CountedInv
<1>9. CASE UNCHANGED vars
  BY <1>9, OthersKeepCounted DEF vars, tasksVars, procVars, searchVars, localVars, AtWork
<1>. QED
  BY <1>1, <1>2, <1>3, <1>4, <1>5, <1>6, <1>7, <1>8, <1>9, AddKeepsCounted, BeginKeepsCounted
     DEF Next, Work

\* The count shown with a completed request is that of the suppliers listed.
THEOREM CountIsOfSuppliers == Spec => []SuppliersAreCounted
<1>1. SearchFrame /\ CountedInv => SuppliersAreCounted
  <2>. SUFFICES ASSUME SearchFrame, CountedInv, NEW t \in Tasks, runs[t] <= 1,
                       entity[t] = "completed"
                PROVE  suppliersCount[t] = Cardinality(Keys(Real(t)))
    BY DEF SuppliersAreCounted, WorkedOnOnce
  <2>1. runs[t] \in Nat
    BY DEF SearchFrame, TasksTypeOK
  <2>2. runs[t] # 0
    BY DEF CountedInv, NothingSays
  <2>. QED BY <2>1, <2>2 DEF CountedInv, SuppliersOf
<1>. QED
  BY <1>1, FrameInit, FrameStep, OnceInit, OnceStep, RowsInit, RowsStep, CountedInit, CountedStep,
     PTL DEF Spec


=============================================================================
