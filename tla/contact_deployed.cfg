SPECIFICATION FairSpec
CONSTANTS
    t1 = t1
    t2 = t2
    w1 = w1
    product1 = product1
    product2 = product2
    Tasks <- OneTask
    Workers <- MCWorkers
    NoTask = NoTask
    AutoProcess = TRUE
    TickLimit = 2
    Done = "sent"
    MaxFaults = 2
    Products <- MCProducts
    ProductOf <- SameProduct
INVARIANTS
    SuccessIsBacked
    OneMessagePerRun
    EveryDeliveryRecorded
PROPERTIES
    WorkSettlesForGood
