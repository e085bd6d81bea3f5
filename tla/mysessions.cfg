SPECIFICATION SceneSpec
CONSTANTS
    Conns = {c1, c2}
    Alone = c1
    Names = {n1}
    NoName = n0
    Sources = {s1, s2, x}
    Compatible = {s1, s2}
    NoSource = s0
    TheSource = s1
    ReadOnly = TRUE
    maxSchemaFetchAttempts = 2
CHECK_DEADLOCK FALSE
INVARIANTS
    KillQueryKeepsConnection
    NothingBeforeAuth
    SchemaIsOfCurrentSource
PROPERTIES
    InterruptedMeansKilled
    KillEnds
