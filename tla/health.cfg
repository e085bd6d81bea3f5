SPECIFICATION Spec
CONSTANTS
    PgSessions = {p1}
    MySessions = {m1}
    Lists = {l0, l1}
    NoSources = l0
    Unpublished = none
    Second = 2
    Interval = 20
    ConfirmDelay = 2
    RejectedInterval = 600
    MaxOffline = 50
    Threshold = 2
    RejectedThreshold = 3
    FailureCap = 4
INVARIANTS
    ClosedIsConfirmed
    RejectedIsConfirmed
    OpenOverFreshRegistry
    SuspicionIsKept
    AnnouncedAgrees
PROPERTY LastingChangeIsNoticed
