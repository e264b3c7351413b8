SPECIFICATION Spec
CONSTANTS
    r1 = r1
    r2 = r2
    loop = loop
    Requests <- OneRequest
    Loop = loop
    MaxVersion = 2
    MaxScrapes = 0
    MaxFaults = 1
    AutoUpdate = TRUE
    BlockScrapes = TRUE
INVARIANT RolledBackIsRestored
