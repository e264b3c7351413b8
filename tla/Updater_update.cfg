SPECIFICATION FairSpec
CONSTANTS
    r1 = r1
    r2 = r2
    loop = loop
    Requests <- TwoRequests
    Loop = loop
    MaxVersion = 2
    MaxScrapes = 1
    MaxFaults = 2
    AutoUpdate = TRUE
    BlockScrapes = TRUE
INVARIANTS TypeOK SingleFlight Whole
PROPERTY Deployed
