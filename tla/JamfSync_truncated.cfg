SPECIFICATION Spec
CONSTANTS
    s1 = s1
    s2 = s2
    Syncs <- OneSync
    Families <- Patches
    MaxId = 2
    PageSize = 1
    MaxChanges = 0
    MaxFaults = 1
PROPERTY PurgedOnlyIfGone
