SPECIFICATION MCSpec
CONSTANTS
  Books = {b1, b2}
  Chapters = 1
  Keep = 1
  MaxCommands = 4
  MaxCrashes = 1
  NotThere = NotThere
  Operators = {o1, o2}
  Windows <- ThreeChapters
  Legacy = 2
  Sizes = {1, 2}
  MaxTurns = 5
SYMMETRY Alike
INVARIANTS
    BackupIsAMoment
    IndexPaidOnce
    FoundIsTrue
PROPERTIES
    RestoreIsSafe
    ImportIsTrue
