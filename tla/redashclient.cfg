SPECIFICATION Spec
CHECK_DEADLOCK FALSE
CONSTANT MaxConsecutivePollErrors = 5
INVARIANTS
    NotLeftRunning
    OutcomeIsTheJobs
    ErrorBudget
PROPERTY ImplementsQueryCall
