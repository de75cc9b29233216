\* Three clients, two client slots, a pool that holds one object: who is served.
SPECIFICATION FairServer
CONSTANTS
    c1 = c1
    c2 = c2
    c3 = c3
    small = small
    big = big
    Clients <- ThreeClients
    ObjectIDs = {1, 2, 3}
    Objects = {small, big}
    Size <- UniformSize
    pool_size = 3
    WordSize = 64
    max_fds = 3
    Requests <- LoopRequests
    Backend = "Memory"
    MaxQueued = 1
    Faults = {}
    Restarts = FALSE
INVARIANTS
    UniformPool
PROPERTIES
    RefusedOnlyWhenFull
    ClientsServed
