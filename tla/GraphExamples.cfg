\* The graph programs: components of graphs that fit in the cache, ranks of larger ones.
SPECIFICATION FairSpec
CONSTANTS
    Policy = "LRAdded"
    PolicySize = 4
    Programs = {"wcc", "page_rank"}
    Files <- MCFiles
    ReadAhead = 2
    num_iterations = 2
    UIntSpace = 8
    TempSurvives = TRUE
CHECK_DEADLOCK FALSE
INVARIANTS
    ComponentsExact
    RanksExact
PROPERTIES
    JobsFinish
