\* A bulk call whose range ends at the largest unsigned int.
SPECIFICATION FairApp
CONSTANTS
    v1 = v1
    v2 = v2
    Default = Default
    Policy = "LRAdded"
    PolicySize = 2
    MaxSize = 2
    ObjectID = {5, 6, 7}
    Values = {v1}
    DeferWrites = FALSE
    HighPend = 50
    StoreCapacity = 4
    MaxInFlight = 4
    Modes <- NoLoops
    CustomLists <- NoLoops
    Calls = {"get", "put", "prefetch", "remove"}
    CarefulPuts = TRUE
    IDSpace = 8
    UIntSpace = 8
    Loops <- NoLoops
    Ranges <- TopRanges
    BulkCalls = {"prefetchBulk"}
CHECK_DEADLOCK FALSE
PROPERTIES
    OperationsEnd
