\* Two threads share a store and use every method of it.
SPECIFICATION FairSpec
CONSTANTS
    u1 = u1
    u2 = u2
    v1 = v1
    v2 = v2
    Users = {u1, u2}
    Depth = 2
    ObjectID = {1, 2}
    Values = {v1, v2}
    Calls <- EveryMethod
    IdSpace = 4
INVARIANTS
    ReadsHeld
    CallsTakeEffect
PROPERTIES
    CallsEnd
