SPECIFICATION InputsSpec
CONSTANTS
    MAX_BACKOFF = 5
    MaxVersion = 3
    MaxFaults = 2
    Value = {"servers", "hosts"}
    LoadOrder <- mcLoadOrder
    MaxEdits = 2
CHECK_DEADLOCK FALSE
INVARIANTS
    ScopesCurrent
    BackoffCounts
    ConfigCurrent
PROPERTIES
    LatestApplied
