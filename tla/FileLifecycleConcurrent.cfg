SPECIFICATION Spec
CONSTANTS
    u1 = u1
    u2 = u2
    c1 = c1
    c2 = c2
    r1 = r1
    r2 = r2
    Users <- TwoUsers
    Cids <- TwoCids
    SizeOf <- Sizes
    Reqs <- TwoReqs
    Handlers = {"upload", "create", "pool", "share", "delete"}
    Preload <- Crossed
    PreStorage <- FirstCharged
    MaxRequests = 2
    MaxCrashes = 1
INVARIANTS TypeOK StorageNeverExceedsCharges FilesHaveUsers LiveFilesKeepPermission
PROPERTIES LiveFilesKeepTheirUser
CHECK_DEADLOCK FALSE
