SPECIFICATION Spec
CONSTANTS
    Workers = {w1, w2}
    Jobs = {j1}
    Asks = {k1, k2, k3}
    Owners = {o1, o2}
    Owner <- TwoOwners
    Chapters = {c1, c2}
    MaxAttempts = 2
    MaxConcurrency = 1
    MaxActiveJobs = 1
    Ceiling = 4
    ChapterUsd = 2
    AskUsd = 1
    Bills = {1, 3}
SYMMETRY SpendSymmetry
CHECK_DEADLOCK FALSE
INVARIANTS
    SpendHolds
PROPERTIES
    NothingAfterCancel
