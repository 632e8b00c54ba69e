SPECIFICATION Spec
CONSTANTS
    u1 = u1
    u2 = u2
    c1 = c1
    c2 = c2
    d1 = d1
    d2 = d2
    Users <- TwoUsers
    Cids <- TwoCids
    Folders <- TwoFolders
    Owner <- Each
    SizeOf <- Sizes
    FileIds <- ThreeFiles
    Worlds <- AllWorlds
    UsedIn <- Uploaded
    MaxRequests = 2
    MaxFailures = 1
INVARIANTS DeleteInv
PROPERTIES DeletesBlockOnlyThemselves DeletesAreContained
CHECK_DEADLOCK FALSE
