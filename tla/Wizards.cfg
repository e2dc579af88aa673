SPECIFICATION Spec
CONSTANTS
    Hosts = {h1}
    Jobs = {1, 2}
    MaxCalls = 2
    MaxEdits = 2
    MaxErrors = 1
    None = None
PROPERTIES SubmittedWasChecked PollingStops EndIsShown
CHECK_DEADLOCK FALSE
