\* Each of the properties fails; TLC reports one at a time: keep the one in question.
SPECIFICATION Spec
CONSTANTS
    f1 = f1
    f2 = f2
    f3 = f3
    h1 = h1
    h2 = h2
    r1 = r1
    r2 = r2
    Files <- ThreeFiles
    Uploaded <- TwoFiles
    Hashes <- OneHash
    HashesOf <- AnyName
    Reqs <- TwoReqs
    Handlers <- AllRoutes
    Types <- PublicOrOneTime
    MaxRequests = 4
INVARIANTS
    OneTimeOpensOnce
    LinksAreOfTheirFile
    PublicLinksOpen
    EmptyGroupsAreDeleted
    NoHandlerPanics
PROPERTIES
    OpeningOnlyMarks
CHECK_DEADLOCK FALSE
