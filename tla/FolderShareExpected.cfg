\* Each of the properties fails; TLC reports one at a time: keep the one in question.
SPECIFICATION Spec
CONSTANTS
    d = d
    e = e
    h = h
    k = k
    Folders <- Two
    Parent <- Nested
    Order <- Preorder
    Files <- ThreeFiles
    Home <- Together
    HashOf <- Alike
    Uploaded <- All
    Kinds = {"public", "list", "share", "delete"}
    Types = {"one-time"}
    MaxRequests = 3
    MaxInFlight = 2
    MaxFaults = 1
INVARIANTS
    DeletedAreNotShared
    NoListingPanics
    OneTimeIsLimited
PROPERTIES
    RecipientsSeeFiles
    MarkedAreListed
    EachFileHasLink
CHECK_DEADLOCK FALSE
