SPECIFICATION Spec
CONSTANTS
    Ceiling = 4
    PrepareCeiling = 2
    Worst = {2}
    MaxBilled = 3
    NumChunks = 2
    MaxAttempts = 2
    MaxCalls = 3
    MaxIncarnations = 2
    MaxCrashes = 2
CHECK_DEADLOCK FALSE
INVARIANTS
    LedgerHolds
