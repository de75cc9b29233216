\* removeBulk of a range that ends at the largest id.
SPECIFICATION FairSpec
CONSTANTS
    u1 = u1
    u2 = u2
    v1 = v1
    v2 = v2
    Users = {u1}
    Depth = 2
    ObjectID = {2, 3}
    Values = {v1, v2}
    Calls <- TopRange
    IdSpace = 4
PROPERTIES
    CallsEnd
