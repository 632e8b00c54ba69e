\* Each of the properties fails; TLC reports one at a time: keep the one in question.
SPECIFICATION Spec
CONSTANTS
    k1 = k1
    k2 = k2
    x = x
    y = y
    Clients <- TwoClients
    Cids <- OneCid
    CidOf <- SameContent
    Length = 3
    Failures <- NoFailures
    Retries <- FromStart
    MaxRequests = 6
    MaxTimeouts = 0
    MaxCrashes = 0
INVARIANTS
    ObjectsAreWhole
CHECK_DEADLOCK FALSE
