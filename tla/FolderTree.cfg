SPECIFICATION Spec
CONSTANTS
    u1 = u1
    u2 = u2
    t1 = t1
    t2 = t2
    r1 = r1
    r2 = r2
    Users <- TwoUsers
    Titles <- TwoTitles
    TitlesOf <- Own
    Reqs <- OneReq
    Handlers <- AllRoutes
    Careful = TRUE
    MaxRequests = 4
    MaxFolders = 8
    MaxDepth = 8
INVARIANTS TreeInv
PROPERTIES RequestsAreAnswered TitlesLeadToOwnFolders
CHECK_DEADLOCK FALSE
