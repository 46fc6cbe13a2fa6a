SPECIFICATION ReconnectSpec
CONSTANTS
    Devices = {1}
    Chapters = 2
    Hosting = {TRUE, FALSE}
    MaxEpoch = 1
    MaxSequence = 3
    MaxFailures = 1
CHECK_DEADLOCK FALSE
INVARIANTS
    PassesApart
    FinishKept
PROPERTIES
    FinishArrives
