SPECIFICATION Spec
CHECK_DEADLOCK FALSE
CONSTANTS
    MaxMsgs = 3
    MaxCancels = 0
    ChunkMax = 1
    ClientTypes = {"read", "extended", "sync"}
    RareTypes = {}
    MaxRare = 0
    ReadOnly = FALSE
INVARIANT PipelineIsDiscarded
