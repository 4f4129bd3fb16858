SPECIFICATION Spec
CONSTANTS
    Name = {"Living room", "Kitchen"}
    Other <- MCOther
    MaxList = 3
    MaxParses = 2
INVARIANTS
    TypeOK
    LatestValues
    UrlsRouted
    NameCurrent
