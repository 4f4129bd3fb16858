SPECIFICATION Spec
CONSTANTS
    Key = {1, 2, 3}
    Counts = {0}
    IntMax = 5
    MaxWrites = 0
CHECK_DEADLOCK FALSE
INVARIANTS
    BrowseAll
