\* Each of the properties fails; TLC reports one at a time: keep the one in question.
SPECIFICATION Spec
CONSTANTS
    e1 = e1
    e2 = e2
    g1 = g1
    a0 = a0
    a1 = a1
    a2 = a2
    b0 = b0
    nobody = nobody
    Emails <- OneEmail
    GithubIds <- OneGithub
    Addresses <- AllAddresses
    Offered <- OldAndNew
    Referrers <- BothOld
    Nobody <- nobody
    OldUsers <- Rewarded
    Limit = 1
    MaxRequests = 2
    MaxInFlight = 2
    MaxUploads = 1
    MaxFaults = 1
INVARIANTS
    ListedUsersAreReferred
    TokenHoldersHaveDetail
    AnswersMeanSignedUp
PROPERTIES
    ChargesAreKept
CHECK_DEADLOCK FALSE
