SPECIFICATION Spec
CONSTANTS
    Rows = {r1, r2}
    Subjects = {s1, s2}
    MaxCalls = 3
    MaxSteps = 2
SYMMETRY Symmetry
INVARIANTS PanelSettles GuardedOnce LoadingBacked
CHECK_DEADLOCK FALSE
