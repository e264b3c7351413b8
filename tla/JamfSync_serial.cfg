SPECIFICATION FairSpec
CONSTANTS
    s1 = s1
    s2 = s2
    Syncs <- OneSync
    Families <- Others
    MaxId = 2
    PageSize = 1
    MaxChanges = 1
    MaxFaults = 1
INVARIANTS IdleMeansSuccess MirrorsUpstream
PROPERTY StatusSettles
