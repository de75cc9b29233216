\* Three reader threads, four lines in groups of at most two, the last column cut off.
SPECIFICATION FairSpec
CONSTANTS
    r1 = r1
    r2 = r2
    r3 = r3
    Readers = {r1, r2, r3}
    File <- MCFile
    limit_cols = 2
    read_at_a_time = 2
INVARIANTS
    Paired
    EveryLineOnce
PROPERTIES
    ReadReturns
CHECK_DEADLOCK FALSE
