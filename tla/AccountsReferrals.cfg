\* Each of the properties fails; TLC reports one at a time: keep the one in question.
SPECIFICATION Spec
CONSTANTS
    e1 = e1
    e2 = e2
    g1 = g1
    a0 = a0
    a1 = a1
    a2 = a2
    b0 = b0
    nobody = nobody
    Emails <- TwoEmails
    GithubIds <- OneGithub
    Addresses <- AllAddresses
    Offered <- OnlyNew
    Referrers <- BothOld
    Nobody <- nobody
    OldUsers <- Rewarded
    Limit = 2
    MaxRequests = 2
    MaxInFlight = 2
    MaxUploads = 0
    MaxFaults = 0
INVARIANTS
    BonusIsLimited
PROPERTIES
    BonusNeverFalls
CHECK_DEADLOCK FALSE
