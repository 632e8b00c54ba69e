\* Each of the properties fails; TLC reports one at a time: keep the one in question.
SPECIFICATION Spec
CONSTANTS
    k1 = k1
    k2 = k2
    x = x
    y = y
    Clients <- OneClient
    Cids <- OneCid
    CidOf <- OwnContent
    Length = 2
    Failures <- LostCompletion
    Retries <- FromStartOrSame
    MaxRequests = 4
    MaxTimeouts = 1
    MaxCrashes = 1
INVARIANTS
    ObjectsAreAlwaysWhole
    AbortEndsStartedUploads
    AbortsOnlyFailingUpload
CHECK_DEADLOCK FALSE
