SPECIFICATION Spec
CONSTANTS
    e1 = e1  e2 = e2
    Endpoints = {e1, e2}
    Names <- TwoNames
    Filters <- SomeFilters
    Created <- OneOfEach
    Capacity = 2
    Attempts = 2
    AutoDisableThreshold = 2
    MaxEvents = 3
    MaxEdits = 1
    MaxRestarts = 1
    MaxErrors = 1
    NoRow = NoRow
    NoJob = NoJob
    NoTarget = NoTarget
PROPERTIES
    InOrder DisabledAfterFullFailures EventSettles
CHECK_DEADLOCK FALSE
