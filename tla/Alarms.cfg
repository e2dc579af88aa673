SPECIFICATION Spec
CONSTANTS
    r1 = r1
    Res = {r1}
    Values = {1, 2, 3, 4}
    Rules <- MCRules
    MaxCount = 3
    MaxErrors = 1
    MaxCrashes = 1
    NoRow = NoRow
    NoValue = NoValue
    NoRes = NoRes
INVARIANTS
    HistoryMatches
PROPERTIES
    RaisedAfterDuration CriticalIsRaised
CHECK_DEADLOCK FALSE
