SPECIFICATION Spec
CONSTANTS
    t1 = t1
    w1 = w1
    Tasks <- MCTasks
    Workers <- MCWorkers
    NoTask = NoTask
    AutoProcess = TRUE
    TickLimit = 1
    Done = "completed"
    MaxFaults = 2
    Findings <- MCFindings
    NoAnswer = NoAnswer
    MaxResults = 2
    DemoAllowed = TRUE
INVARIANTS
    SearchTypeOK
    OneProductPerSite
    
    SuppliersAreCounted
    CompletedHasProducts
    BoundedPerRun
