\* One thread with two requests outstanding; connecting may fail, and nothing is sent then.
SPECIFICATION Spec
CONSTANTS
    u1 = u1
    u2 = u2
    v1 = v1
    v2 = v2
    Users = {u1}
    Depth = 2
    Requests <- EveryRequest
    Values = {v1, v2}
    TxnSpace = 3
    QueueSize = 2
    ReuseMax = 1
    SharedWaits = FALSE
    Destroys = FALSE
    ConnectFails = TRUE
PROPERTIES
    ImplementsAsyncStore
CHECK_DEADLOCK FALSE
