SPECIFICATION Spec
CHECK_DEADLOCK FALSE
CONSTANTS
    MaxMsgs = 3
    MaxCancels = 1
    ChunkMax = 1
    ClientTypes = {"read", "catalog", "extended", "sync", "other", "terminate"}
    RareTypes = {"catalog", "other", "terminate"}
    MaxRare = 1
    ReadOnly = TRUE
INVARIANTS
    OneReader
    NothingLost
    RepliesMatch
PROPERTIES
    SessionEnds
    CancelStops
