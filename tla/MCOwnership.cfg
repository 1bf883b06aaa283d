SPECIFICATION OwnersSpec
CONSTANTS
    MaxCells = 5
    MaxHeld = 3
    Programs <- AllPrograms
    MostCharges = 8
    Exprs <- AllExprs
    Sessions <- AllSessions
    Definitions <- AllDefinitions
    MostEdits = 1
    MostOverruns = 1
INVARIANTS
    Counted
    LiveIsReachable
    EverythingOwned
PROPERTIES
    NothingDisturbed
CHECK_DEADLOCK FALSE
