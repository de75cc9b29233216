\* PageRank of a graph with no vertices.
SPECIFICATION FairSpec
CONSTANTS
    Policy = "LRAdded"
    PolicySize = 4
    Programs = {"page_rank"}
    Files <- EmptyFiles
    ReadAhead = 2
    num_iterations = 2
    UIntSpace = 8
    TempSurvives = TRUE
CHECK_DEADLOCK FALSE
PROPERTIES
    JobsFinish
