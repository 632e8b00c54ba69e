\* Each of the properties fails; TLC reports one at a time: keep the one in question.
SPECIFICATION Spec
CONSTANTS
    u1 = u1
    u2 = u2
    x = x
    y = y
    Users <- TwoUsers
    Contents <- TwoContents
    SizeOf <- Sizes
    Uploads <- JustY
    Kinds <- KindsOfBoth
    Resizes = TRUE
    MaxRequests = 3
    MaxInFlight = 2
    MaxFaults = 0
    MaxFaulty = 2
INVARIANTS
    ListedFilesKeepObject
    StorageFollowsUpdates
PROPERTIES
    CountersNeverFall
    DeletesAreFinal
CHECK_DEADLOCK FALSE
