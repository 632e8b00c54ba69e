SPECIFICATION Spec
CONSTANTS
    f1 = f1
    f2 = f2
    f3 = f3
    h1 = h1
    h2 = h2
    r1 = r1
    r2 = r2
    Files <- ThreeFiles
    Uploaded <- TwoFiles
    Hashes <- TwoHashes
    HashesOf <- AnyName
    Reqs <- OneReq
    Handlers <- AllRoutes
    Types <- AllTypes
    MaxRequests = 4
INVARIANTS OneTimeOpensOnce HashNamesOneLink LinksInv
PROPERTIES OnlyPublishReopens GroupsLoseOnlyUnpublished
CHECK_DEADLOCK FALSE
