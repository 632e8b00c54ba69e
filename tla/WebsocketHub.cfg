SPECIFICATION Spec
CONSTANTS
    k1 = k1
    k2 = k2
    a = a
    b = b
    Clients <- TwoClients
    Messages <- TwoMessages
    BufferSize = 1
    MaxMessages = 2
INVARIANTS TypeOK HubNeverPanics FeedHasNoGaps
PROPERTIES ClosedConnectionsEnd ImplementsFeed
CHECK_DEADLOCK FALSE
