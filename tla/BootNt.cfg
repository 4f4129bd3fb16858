SPECIFICATION Spec
CONSTANTS
    p1 = p1
    p2 = p2
    Proc = {p1}
    Options <- MCOptions
    Documents <- MCDocuments
    NoDocument = NoDocument
    Ip <- MCIp
    Text <- MCText
INVARIANTS
    UdnMatchesNt
