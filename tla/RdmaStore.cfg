\* Two clients with one object each and memory for one of them.
CONSTANTS
    c1 = c1
    c2 = c2
    x = x
    y = y
    v = v
    w = w
    a1 = a1
    a2 = a2
    NullAddr = NullAddr
    Junk = Junk
    Clients = {c1, c2}
    NThreads = 1
    ObjectID = {x}
    ValuesOf <- OneValue
    Addrs = {a1}
    MAX_SEND_WR = 2
    Depth = 1
    Careful = TRUE
    CleanExit = TRUE
    Zeroed = TRUE
SPECIFICATION Spec
CHECK_DEADLOCK FALSE
SYMMETRY ClientSymmetry
INVARIANTS
    DisjointObjects
    MemoryAccounted
    CountExact
