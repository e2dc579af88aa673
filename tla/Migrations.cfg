SPECIFICATION Spec
CONSTANTS
    m1 = m1  d1 = d1
    Moves = {m1}
    DiskMoves = {d1}
    Configured = {m1, d1}
    MaxPhase = 1
    MaxErrors = 1
    NoEntry = NoEntry
    NoTask = NoTask
INVARIANTS
    CompletedIsTrue LoggedOnce
PROPERTIES
    TasksDrain
