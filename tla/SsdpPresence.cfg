SPECIFICATION Spec
CONSTANTS
    Interval = 3
    Sleep = 1
    MaxAge = 23
    Slack = 1
    Delay = 2
    MaxLost = 1
    MaxSet = 1
    UInt = 12
INVARIANTS
    TypeOK
    NoLapse
    HeardInTime
    StaleBounded
