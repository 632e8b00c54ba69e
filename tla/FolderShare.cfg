SPECIFICATION Spec
CONSTANTS
    d = d
    e = e
    h = h
    k = k
    Folders <- Two
    Parent <- Nested
    Order <- Preorder
    Files <- ThreeFiles
    Home <- LastBelow
    HashOf <- Alike
    Uploaded <- AllButTwo
    Kinds = {"public", "share", "list", "upload", "delete"}
    Types = {"one-time"}
    MaxRequests = 3
    MaxInFlight = 2
    MaxFaults = 1
INVARIANTS SharesInv
PROPERTIES SharesAreWhole
CHECK_DEADLOCK FALSE
