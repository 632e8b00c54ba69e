\* Each of the properties fails; TLC reports one at a time: keep the one in question.
SPECIFICATION Spec
CONSTANTS
    u1 = u1
    u2 = u2
    t1 = t1
    t2 = t2
    r1 = r1
    r2 = r2
    Users <- TwoUsers
    Titles <- OneTitle
    TitlesOf <- Common
    Reqs <- TwoReqs
    Handlers <- AllRoutes
    Careful = TRUE
    MaxRequests = 5
    MaxFolders = 2
    MaxDepth = 3
INVARIANTS
    NothingBelowDeleted
    RecursionDescends
PROPERTIES
    OnlyOwnFilesAreDeleted
CHECK_DEADLOCK FALSE
