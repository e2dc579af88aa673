SPECIFICATION Spec
CONSTANTS
    k1 = k1
    c1 = c1  c2 = c2
    m1 = m1  m2 = m2
    Keys = {k1}
    Conns = {c1, c2}
    Cmds = {m1, m2}
    Routed = {m1}
    KeyOf <- MCKeyOf
    SendCap = 1
    NoConn = NoConn
    NoKey = NoKey
    NoCmd = NoCmd
INVARIANTS
    TypeOK NoPanic RegistryLive AtMostOnce NoLostWakeup
PROPERTIES
    NewerConnectionSurvives WaitEnds ConnectionFreed
CHECK_DEADLOCK FALSE
