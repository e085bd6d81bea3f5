SPECIFICATION FairSpec
CONSTANTS
    Wires = {"postgres", "mysql"}
    maxConcurrentConns = 2
    acceptBackoffMin = 1
    acceptBackoffMax = 3
    MaxReleased = 1
CHECK_DEADLOCK FALSE
INVARIANTS
    SlotsBounded
    CleanExitLeavesNobody
PROPERTY ServingProgress
