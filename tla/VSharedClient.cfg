\* Two threads share an RDMAClient.
CONSTANTS
    c1 = c1
    c2 = c2
    x = x
    y = y
    v = v
    w = w
    a1 = a1
    a2 = a2
    NullAddr = NullAddr
    Junk = Junk
    Clients = {c1}
    NThreads = 2
    ObjectID = {x, y}
    ValuesOf <- TwoValues
    Addrs = {a1, a2}
    MAX_SEND_WR = 4
    Depth = 0
    Careful = TRUE
    CleanExit = TRUE
    Zeroed = TRUE
SPECIFICATION Spec
CHECK_DEADLOCK FALSE
SYMMETRY CellSymmetry
INVARIANTS
    DisjointObjects
