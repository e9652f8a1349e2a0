SPECIFICATION FairSpec
CONSTANTS
    t1 = t1
    t2 = t2
    w1 = w1
    product1 = product1
    product2 = product2
    Tasks <- MCTasks
    Workers <- MCWorkers
    NoTask = NoTask
    AutoProcess = FALSE
    TickLimit = 2
    Done = "sent"
    MaxFaults = 3
    Products <- MCProducts
    ProductOf <- DifferentProducts
INVARIANTS
    ContactTypeOK
    WorkRunsAtMostOnce
    NoDoubleSend
    EntityFollowsTask
    WorkerInv
PROPERTIES
    TaskRowsFollowLifecycle
    EntityRowsFollowLifecycle
    EveryQueuedTaskLeavesQueue
