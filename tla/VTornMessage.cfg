\* A client dies half way through a message.
SPECIFICATION FairServer
CONSTANTS
    c1 = c1
    c2 = c2
    c3 = c3
    small = small
    big = big
    Clients = {c1, c2}
    ObjectIDs = {1, 2, 3}
    Objects = {small, big}
    Size <- UniformSize
    pool_size = 5
    WordSize = 64
    max_fds = 3
    Requests <- OneRequest
    Backend = "Memory"
    MaxQueued = 1
    Faults = {"torn"}
    Restarts = FALSE
PROPERTIES
    LoopsInfinitely
CHECK_DEADLOCK FALSE
