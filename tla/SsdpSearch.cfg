SPECIFICATION FairSpec
CONSTANTS
    MaxAnswers = 6
CHECK_DEADLOCK FALSE
INVARIANTS
    UsedInCallOnly
PROPERTIES
    SearchEnds
