\* An ordered loop over a cache with room for its read-ahead.
SPECIFICATION AppSpec
CONSTANTS
    v1 = v1
    v2 = v2
    Default = Default
    Policy = "LRAdded"
    PolicySize = 2
    MaxSize = 2
    ObjectID = {5, 6, 7}
    Values = {v1}
    DeferWrites = FALSE
    HighPend = 50
    StoreCapacity = 4
    MaxInFlight = 4
    Modes <- NoLoops
    CustomLists <- NoLoops
    Calls = {"get", "put", "prefetch", "remove"}
    CarefulPuts = TRUE
    IDSpace = 8
    UIntSpace = 8
    Loops <- MCLoops
    Ranges <- MCRanges
    BulkCalls = {"get_bulk", "put_bulk", "prefetchBulk", "removeBulk"}
CHECK_DEADLOCK FALSE
INVARIANTS
    ReadAheadUsed
