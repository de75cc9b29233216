\* Deferred writes: cleaning the map of pending writes.
SPECIFICATION Spec
CONSTANTS
    v1 = v1
    v2 = v2
    Default = Default
    Policy = "LRAdded"
    PolicySize = 1
    MaxSize = 1
    ObjectID = {1, 2, 3, 4}
    Values = {v1}
    DeferWrites = TRUE
    HighPend = 2
    StoreCapacity = 4
    MaxInFlight = 5
    Modes <- NoModes
    CustomLists <- NoModes
    Calls = {"put"}
    CarefulPuts = TRUE
PROPERTIES
    CleaningRemovesCompleted
