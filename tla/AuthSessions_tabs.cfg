SPECIFICATION FairSpec
CONSTANTS
    Tabs = {t1, t2}
    Slots = {r1, r2}
    MaxEvents = 2
INVARIANTS
    TypeOK
    OneRefresh
    SessionKept
PROPERTIES
    ComesToRest
CHECK_DEADLOCK FALSE
