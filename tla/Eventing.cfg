SPECIFICATION FairSpec
CONSTANTS
    c1 = c1
    c2 = c2
    ControlPoint <- MCControlPoint
    MaxRequests = 2
CHECK_DEADLOCK FALSE
INVARIANTS
    TypeOK
    EventsAccounted
    CdsRemembered
PROPERTIES
    Dispatched
