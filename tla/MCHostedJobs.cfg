SPECIFICATION FairSpec
CONSTANTS
    Workers = {w1, w2}
    Jobs = {j1, j2}
    Asks = {}
    Owners = {o1}
    Owner <- OneOwner
    Chapters = {}
    MaxAttempts = 2
    MaxConcurrency = 1
    MaxActiveJobs = 2
    Ceiling = 0
    ChapterUsd = 0
    AskUsd = 0
    Bills = {}
CHECK_DEADLOCK FALSE
INVARIANTS
    LeasesHold
PROPERTIES
    EndsHold
    EveryJobEnds
