SPECIFICATION Spec
CONSTANTS
    Container = {"root"}
    Item = {"17"}
    TypeName = {"album"}
    Tag = {"genre"}
    Value = {"rock"}
    Mime = {"mp3"}
    Hash <- MCHash
    MaxCalls = 2
INVARIANTS
    RemovedFromParent
CHECK_DEADLOCK FALSE
