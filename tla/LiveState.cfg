SPECIFICATION Spec
CONSTANTS
    Sids = {1, 2}
    None = 0
    MaxCalls = 2
    MaxSteps = 2
    Publishers = {1}
    Vmids = {1, 2}
    Clones = {1}
    SendCap = 1
INVARIANTS TokenOfCookie NothingOutlives
PROPERTIES SpinnerEnds PollingEnds CatchesUp
CHECK_DEADLOCK FALSE
