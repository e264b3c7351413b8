CONSTANTS
    w1 = w1
    w2 = w2
    j1 = j1
    j2 = j2
    c1 = c1
    c2 = c2
    b1 = b1
    Workers <- TwoWorkers
    Jobs <- OneJob
    BaseOf <- OneBase
    Clients <- OneClient
    MaxBatches = 1
    MaxCrashes = 1
    MaxOutages = 0
SPECIFICATION Spec
CHECK_DEADLOCK FALSE
INVARIANT InterruptedJobIsDead
