\* Two threads share a client that may fail to connect and may be destroyed; transaction ids wrap around.
SPECIFICATION FairSpec
CONSTANTS
    u1 = u1
    u2 = u2
    v1 = v1
    v2 = v2
    Users = {u1, u2}
    Depth = 1
    Requests <- WriteAndReadBulk
    Values = {v1}
    TxnSpace = 2
    QueueSize = 1
    ReuseMax = 1
    SharedWaits = FALSE
    Destroys = TRUE
    ConnectFails = TRUE
PROPERTIES
    ImplementsAsyncStore
    ThreadsReturn
    RequestsServed
CHECK_DEADLOCK FALSE
