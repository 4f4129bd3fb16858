SPECIFICATION Spec
CONSTANTS
    p1 = p1
    p2 = p2
    Proc <- MCProc
    Options <- MCOptions
    Documents <- MCDocuments
    NoDocument = NoDocument
    Ip <- MCIp
    Text <- MCText
SYMMETRY ProcSymmetry
INVARIANTS
    StoredComplete
    UdnMatchesUsn
    RebootHeals
PROPERTIES
    UdnSurvives
