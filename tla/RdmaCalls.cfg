\* One client, two objects and memory for one, under fair scheduling.
CONSTANTS
    c1 = c1
    c2 = c2
    x = x
    y = y
    v = v
    w = w
    a1 = a1
    a2 = a2
    NullAddr = NullAddr
    Junk = Junk
    Clients = {c1}
    NThreads = 1
    ObjectID = {x, y}
    ValuesOf <- TwoValues
    Addrs = {a1}
    MAX_SEND_WR = 3
    Depth = 1
    Careful = TRUE
    CleanExit = TRUE
    Zeroed = TRUE
SPECIFICATION FairSpec
CHECK_DEADLOCK FALSE
INVARIANTS
    ReadsFresh
PROPERTIES
    CallsReturn
