\* Write-deferring cache, LRAdded policy: every method but setMode.
SPECIFICATION FairSpec
CONSTANTS
    v1 = v1
    v2 = v2
    Default = Default
    Policy = "LRAdded"
    PolicySize = 2
    MaxSize = 2
    ObjectID = {1, 2, 3}
    Values = {v1, v2}
    DeferWrites = TRUE
    HighPend = 50
    StoreCapacity = 3
    MaxInFlight = 3
    Modes <- NoModes
    CustomLists <- NoModes
    Calls = {"get", "put", "prefetch", "remove"}
    CarefulPuts = TRUE
INVARIANTS
    PolicyTracksCache
    CapacityRespected
    NoSpuriousFailure
PROPERTIES
    ImplementsMap
    CallsReturn
