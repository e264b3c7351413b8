SPECIFICATION Spec
CONSTANTS
    b1 = b1
    b2 = b2
    p1 = p1
    c1 = c1
    c2 = c2
    h1 = h1
    h2 = h2
    x1 = x1
    x2 = x2
    Bases <- TwoBases
    Opening <- AtFirst
    Legacy = b1
    Pages <- OnePage
    Canon <- OneKey
    Texts <- TwoTexts
    Crawls <- TwoCrawls
    Handlers <- TwoHandlers
    MaxVisits = 3
    MaxCalls = 4
    MaxFailures = 1
    Nothing = Nothing
INVARIANTS TypeOK StoresAgree RowsWereIngested BasesSound DeletedIsGone
CONSTRAINT FewVisitsOrCalls
SYMMETRY Symmetric
CHECK_DEADLOCK FALSE
