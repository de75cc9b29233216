\* Objects of different sizes: the byte counter.
SPECIFICATION ServerSpec
CONSTANTS
    c1 = c1
    c2 = c2
    c3 = c3
    small = small
    big = big
    Clients = {c1}
    ObjectIDs = {1, 2, 3}
    Objects = {small, big}
    Size <- MixedSize
    pool_size = 5
    WordSize = 64
    max_fds = 3
    Requests <- AllRequestsOnce
    Backend = "Memory"
    MaxQueued = 1
    Faults = {}
    Restarts = FALSE
INVARIANTS
    CountsThePool
