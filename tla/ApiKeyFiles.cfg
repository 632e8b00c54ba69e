SPECIFICATION Spec
CONSTANTS
    u1 = u1
    u2 = u2
    x = x
    y = y
    Users <- TwoUsers
    Contents <- TwoContents
    SizeOf <- Sizes
    Uploads <- OneOrBoth
    Kinds <- KindsOfBoth
    Resizes = FALSE
    MaxRequests = 3
    MaxInFlight = 2
    MaxFaults = 1
    MaxFaulty = 2
INVARIANTS KeyFilesInv RequestsInv
PROPERTIES DeletedStayDeleted
CHECK_DEADLOCK FALSE
