SPECIFICATION FairStore
CONSTANTS
    Threads = {t1, t2, t3}
    Books = {b1, b2}
    MaxHandles = 1
INVARIANTS
    HandlesAreSafe
PROPERTIES
    Returns
