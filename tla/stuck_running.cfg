SPECIFICATION FairTasksSpec
CONSTANTS
    t1 = t1
    t2 = t2
    w1 = w1
    Tasks <- MCTasks
    Workers <- MCWorkers
    NoTask = NoTask
    AutoProcess = FALSE
    TickLimit = 1
    Done = "ready"
    MaxFaults = 1
PROPERTIES
    RunningTasksSettle
