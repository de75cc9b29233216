\* A put to a prefetched id that has not been read yet.
SPECIFICATION Spec
CONSTANTS
    v1 = v1
    v2 = v2
    Default = Default
    Policy = "LRAdded"
    PolicySize = 2
    MaxSize = 2
    ObjectID = {1, 2, 3}
    Values = {v1, v2}
    DeferWrites = FALSE
    HighPend = 50
    StoreCapacity = 3
    MaxInFlight = 4
    Modes <- NoModes
    CustomLists <- NoModes
    Calls = {"get", "put", "prefetch", "remove"}
    CarefulPuts = FALSE
PROPERTIES
    PutSticks
