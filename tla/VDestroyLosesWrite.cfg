\* A write is queued and the client is destroyed.
SPECIFICATION FairSpec
CONSTANTS
    u1 = u1
    u2 = u2
    v1 = v1
    v2 = v2
    Users = {u1}
    Depth = 1
    Requests <- WriteAndRead
    Values = {v1}
    TxnSpace = 2
    QueueSize = 1
    ReuseMax = 1
    SharedWaits = FALSE
    Destroys = TRUE
    ConnectFails = FALSE
PROPERTIES
    QueuedRequestsServed
CHECK_DEADLOCK FALSE
