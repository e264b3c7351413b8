SPECIFICATION Spec
CONSTANTS
    w1 = w1
    w2 = w2
    r1 = r1
    r2 = r2
    s1 = s1
    s2 = s2
    Workers <- TwoWorkers
    Requests <- OneRequest
    Sessions <- TwoSessions
    MaxPlans = 2
    New = New
    NoWorker = NoWorker
PROPERTY PreviewedIsExecuted
SYMMETRY Symmetric
