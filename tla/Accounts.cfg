SPECIFICATION Spec
CONSTANTS
    e1 = e1
    e2 = e2
    g1 = g1
    a0 = a0
    a1 = a1
    a2 = a2
    b0 = b0
    nobody = nobody
    Emails <- OneEmail
    GithubIds <- OneGithub
    Addresses <- AllAddresses
    Offered <- OneNew
    Referrers <- BothOld
    Nobody <- nobody
    OldUsers <- Rewarded
    Limit = 1
    MaxRequests = 2
    MaxInFlight = 2
    MaxUploads = 1
    MaxFaults = 1
INVARIANTS SignUpsInv ReferralsInv
PROPERTIES StorageUsedIsKept RequestsAreAnswered
CHECK_DEADLOCK FALSE
