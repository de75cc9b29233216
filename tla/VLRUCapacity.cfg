\* LRU policy with puts and prefetches: the size of the cache.
SPECIFICATION Spec
CONSTANTS
    v1 = v1
    v2 = v2
    Default = Default
    Policy = "LRU"
    PolicySize = 2
    MaxSize = 2
    ObjectID = {1, 2, 3}
    Values = {v1, v2}
    DeferWrites = FALSE
    HighPend = 50
    StoreCapacity = 3
    MaxInFlight = 4
    Modes <- NoModes
    CustomLists <- NoModes
    Calls = {"get", "put", "prefetch", "remove"}
    CarefulPuts = TRUE
INVARIANTS
    CapacityRespected
