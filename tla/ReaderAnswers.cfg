SPECIFICATION AnswersSpec
CONSTANTS
    Books = {b1}
    Readers = {r1, r2}
    Background = bg
    MaxFlights = 2
    MaxInflight = 1
    MaxRecaps = 1
    Chapters = 2
    MaxEvents = 4
CHECK_DEADLOCK FALSE
INVARIANTS
    PaidOnce
    AnswersGoOn
