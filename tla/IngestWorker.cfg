SPECIFICATION FairSpec
CONSTANTS
    NumChapters = 2
    Tasks = {t1, t2}
    NoBook = NoBook
    MaxIncarnations = 2
    MaxGeneration = 3
    MaxCrashes = 1
INVARIANTS
    ShelfIsTrue
    SingleFlight
    NoWedge
PROPERTIES
    CommitsBelongToTheShelf
    KeepsPromise
    EveryPassEnds
    ShutdownDrains
