SPECIFICATION FairPreparation
CONSTANTS
    Books = {b1, b2}
    Chapters = 1
    QueueSize = 1
    MaxRestarts = 1
    MaxEvents = 3
    MaxCalls = 2
CHECK_DEADLOCK FALSE
INVARIANTS
    PreparedOnce
PROPERTIES
    FocusPrepared
