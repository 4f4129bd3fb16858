SPECIFICATION FairSpec
CONSTANTS
    e1 = e1
    e2 = e2
    NsCount = 2
    NetworkCount = 2
    Endpoint <- MCEndpoint
    SockBuf = 1
CHECK_DEADLOCK FALSE
INVARIANTS
    TypeOK
    ReplyToSearcher
    AliveInService
    ByeIsFinal
    FaultsAtEdgesOnly
PROPERTIES
    ImplementsAdvertisement
    ShutdownCompletes
    SearchAnswered
