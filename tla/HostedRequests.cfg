SPECIFICATION HostedSpec
CONSTANTS
    Requests = {r1, r2, r3, r4}
    MaxEntries = 2
    MaxCalls = 3
    Chapters = 1
    MaxLocks = 1
    MaxConcurrency = 1
    MaxChanges = 1
    Reconfigured = {"judge"}
CHECK_DEADLOCK FALSE
INVARIANTS
    OrderlyBook
    AnswersAreCurrent
    CallsAccounted
PROPERTIES
    Served
    Drains
