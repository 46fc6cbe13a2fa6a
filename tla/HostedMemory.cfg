SPECIFICATION HostedSpec
CONSTANTS
  People = {"p", "q"}
  Renames = {"r", "s"}
  Nicknamed = {"p"}
  Nickname = "r"
  Chapters = 3
  MaxEntities = 4
  MaxCorrections = 2
  Kinds = {"replace", "split", "merge"}
  MaxPasses = 1
CHECK_DEADLOCK FALSE
INVARIANTS
    ViewsAreSafe
    MentionsKept
PROPERTIES
    CorrectionIsLocal
    MigrationKeepsTheStory
    SameCorrection
