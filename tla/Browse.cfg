SPECIFICATION FairSpec
CONSTANTS
    Key = {1, 2, 3}
    Counts = {0, 1, 2, 5, 6}
    IntMax = 5
    MaxWrites = 3
CHECK_DEADLOCK FALSE
INVARIANTS
    TypeOK
    PageFits
    NothingMissed
PROPERTIES
    PagingEnds
