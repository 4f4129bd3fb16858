SPECIFICATION Spec
CONSTANTS
    e1 = e1
    e2 = e2
    NsCount = 1
    NetworkCount = 1
    Endpoint <- MCEndpoint
    SockBuf = 1
CHECK_DEADLOCK FALSE
PROPERTIES
    SilentAfterSuppress
