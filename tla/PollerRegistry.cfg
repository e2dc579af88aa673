SPECIFICATION Spec
CONSTANTS
    n1 = n1
    i1 = i1  i2 = i2
    r1 = r1
    Names = {n1}
    Insts = {i1, i2}
    Removers = {r1}
    Ticker = Ticker
    NoInst = NoInst
    NoName = NoName
INVARIANTS
    RegisteredNotCancelled StoreBacked
PROPERTIES
    OrphansCollected
CHECK_DEADLOCK FALSE
