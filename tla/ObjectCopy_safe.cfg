SPECIFICATION Spec
CONSTANTS
    p1 = p1
    p2 = p2
    s1 = s1
    g1 = g1
    k1 = k1
    t1 = t1
    t2 = t2
    r1 = r1
    r2 = r2
    Policies <- ThePolicies
    Scripts <- TheScripts
    Groups <- TheGroups
    Packages <- ThePackages
    References <- TheReferences
    Categorised <- WithCategories
    Category = "category"
    Targets <- TwoTargets
    Closed <- ClosedTargets
    Stock <- InStock
    Orders <- TheOrders
    Requests <- TwoRequests
    MaxRuns = 2
    MaxMishaps = 2
    Nothing = Nothing
INVARIANTS TypeOK CleanRunCompletes RefsSound NoSilentGap
CONSTRAINT SecondAmongPackages
SYMMETRY Symmetric
CHECK_DEADLOCK FALSE
