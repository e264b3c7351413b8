CONSTANTS
    w1 = w1
    w2 = w2
    j1 = j1
    j2 = j2
    c1 = c1
    c2 = c2
    b1 = b1
    Workers <- TwoWorkers
    Jobs <- TwoJobs
    BaseOf <- OneBase
    Clients <- TwoClients
    MaxBatches = 2
    MaxCrashes = 1
    MaxOutages = 1
SPECIFICATION FairSpec
CONSTRAINT OneThingAtATime
CHECK_DEADLOCK FALSE
PROPERTIES
    LifecycleSpec
    CancelEndsJob
    RunEnds
INVARIANTS
    TypeOK
    RunningIsOwned
    StopWithinOneBatch
    CrawlIsVisible
