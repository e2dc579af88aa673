SPECIFICATION Spec
CONSTANTS
    Browsers = {b1, b2}
    Guests = {g1, g2}
    Keys = {k1}
    Vals = {v0, v1, v2}
    NaN = NaN
    MaxCalls = 2
    MaxSteps = 4
    None = None
SYMMETRY Symmetry
INVARIANTS NoFalseConflict BusyBacked
PROPERTIES ImplementsRegister
CHECK_DEADLOCK FALSE
