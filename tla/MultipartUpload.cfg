SPECIFICATION Spec
CONSTANTS
    k1 = k1
    k2 = k2
    x = x
    y = y
    Clients <- OneClient
    Cids <- OneCid
    CidOf <- OwnContent
    Length = 2
    Failures <- AllFailures
    Retries <- FromStartOrSame
    MaxRequests = 4
    MaxTimeouts = 1
    MaxCrashes = 1
INVARIANTS ObjectsAreWhole UploadsInv
PROPERTIES HandlersReturn
CHECK_DEADLOCK FALSE
