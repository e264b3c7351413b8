SPECIFICATION FairSpec
CONSTANTS
    s1 = s1
    s2 = s2
    Syncs <- TwoSyncs
    Families <- Devices
    MaxId = 2
    PageSize = 1
    MaxChanges = 1
    MaxFaults = 0
INVARIANTS TypeOK MirrorsUpstream OverMeansReleased
PROPERTIES SyncEnds Converges
