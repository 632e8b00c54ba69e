\* Each of the properties fails; TLC reports one at a time: keep the one in question.
SPECIFICATION Spec
CONSTANTS
    u1 = u1
    u2 = u2
    c1 = c1
    c2 = c2
    r1 = r1
    r2 = r2
    Users <- TwoUsers
    Cids <- OneCid
    SizeOf <- Sizes
    Reqs <- OneReq
    Handlers = {"share", "delete"}
    Preload <- Shared
    PreStorage <- Uploaded
    MaxRequests = 2
    MaxCrashes = 0
INVARIANTS
    CidHasOwner
PROPERTIES
    DeleteNeverRaisesOwnStorage
CHECK_DEADLOCK FALSE
