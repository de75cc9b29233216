\* LRU policy, every method and prefetching mode: calls may fail, and leave the cache consistent.
SPECIFICATION FairSpec
CONSTANTS
    v1 = v1
    v2 = v2
    Default = Default
    Policy = "LRU"
    PolicySize = 2
    MaxSize = 2
    ObjectID = {1, 2, 3}
    Values = {v1, v2}
    DeferWrites = FALSE
    HighPend = 50
    StoreCapacity = 3
    MaxInFlight = 4
    Modes <- MCModes
    CustomLists <- MCLists
    Calls = {"get", "put", "prefetch", "remove", "setMode"}
    CarefulPuts = TRUE
INVARIANTS
    PolicyWellFormed
    ReturnsLiveEntry
PROPERTIES
    GetsAreFresh
