SPECIFICATION Spec
CONSTANTS
    Container = {"root", "album"}
    Item = {"17", "album"}
    TypeName = {"album", "audio"}
    Tag = {"genre", "year"}
    Value = {"rock"}
    Mime = {"mp3"}
    Hash <- MCHash
    MaxCalls = 3
INVARIANTS
    ListsAsAsked
    TagsReachable
    MimeCounted
CHECK_DEADLOCK FALSE
