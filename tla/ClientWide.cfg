\* Two threads share a client, the bulk requests: its bookkeeping.
SPECIFICATION Spec
CONSTANTS
    u1 = u1
    u2 = u2
    v1 = v1
    v2 = v2
    Users = {u1, u2}
    Depth = 1
    Requests <- BulkRequests
    Values = {v1}
    TxnSpace = 2
    QueueSize = 1
    ReuseMax = 1
    SharedWaits = FALSE
    Destroys = FALSE
    ConnectFails = FALSE
INVARIANTS
    TypeOK
    NoUnknownTxn
    PostsMatchQueue
    ConnectedMeansRunning
PROPERTIES
    ImplementsAsyncStore
