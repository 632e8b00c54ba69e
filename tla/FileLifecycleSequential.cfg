SPECIFICATION Spec
CONSTANTS
    u1 = u1
    u2 = u2
    c1 = c1
    c2 = c2
    r1 = r1
    r2 = r2
    Users <- TwoUsers
    Cids <- TwoCids
    SizeOf <- Sizes
    Reqs <- OneReq
    Handlers = {"upload", "create", "pool", "share", "delete"}
    Preload <- Sent
    PreStorage <- Uploaded
    MaxRequests = 3
    MaxCrashes = 0
INVARIANTS StorageExactWithoutCopies DeletesAreSafe
PROPERTIES RequestsAreAnswered
CHECK_DEADLOCK FALSE
