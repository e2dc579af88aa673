SPECIFICATION Spec
CONSTANTS
    h1 = h1  h2 = h2
    n1 = n1  n2 = n2
    j1 = j1  j2 = j2
    Leftover = Leftover
    NoName = NoName
    NoHost = NoHost
    NoList = NoList
    None = None
    Hosts = {h1, h2}
    Names = {n1, n2}
    Jobs = {j1, j2}
    MaxTries = 1
    MaxEvents = 0
CHECK_DEADLOCK FALSE
PROPERTIES CleansLeftoverOnly
