\* Each of the properties fails; TLC reports one at a time: keep the one in question.
SPECIFICATION Spec
CONSTANTS
    u1 = u1
    u2 = u2
    c1 = c1
    c2 = c2
    d1 = d1
    d2 = d2
    Users <- TwoUsers
    Cids <- TwoCids
    Folders <- TwoFolders
    Owner <- Each
    SizeOf <- Sizes
    FileIds <- SixFiles
    Worlds <- Inherited
    UsedIn <- Uploaded
    MaxRequests = 2
    MaxFailures = 0
INVARIANTS
    OwnersAreCharged
CHECK_DEADLOCK FALSE
