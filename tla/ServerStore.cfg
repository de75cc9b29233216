\* Two clients that may die at any moment, restarts of the server, every kind of request.
SPECIFICATION ServerSpec
CONSTANTS
    c1 = c1
    c2 = c2
    c3 = c3
    small = small
    big = big
    Clients = {c1, c2}
    ObjectIDs = {1, 2}
    Objects = {small, big}
    Size <- MixedSize
    pool_size = 3
    WordSize = 7
    max_fds = 3
    Requests <- StoreRequests
    Backend = "Memory"
    MaxQueued = 1
    Faults = {"abandon", "reset", "torn"}
    Restarts = TRUE
INVARIANTS
    AccountingExact
    EveryClientPolled
PROPERTIES
    RejectedOnlyIfFull
SYMMETRY ClientSymmetry
