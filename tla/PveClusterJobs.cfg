SPECIFICATION Spec
CONSTANTS
    h1 = h1  h2 = h2
    n1 = n1  n2 = n2
    j1 = j1  j2 = j2
    Leftover = Leftover
    NoName = NoName
    NoHost = NoHost
    NoList = NoList
    None = None
    Hosts = {h1, h2}
    Names = {n1}
    Jobs = {j1, j2}
    MaxTries = 2
    MaxEvents = 1
SYMMETRY Symmetry
CHECK_DEADLOCK FALSE
INVARIANTS FailedLeavesInventory PolledOnce SuccessIsReal
PROPERTIES JobAdvances
