SPECIFICATION OwnersSpec
CONSTANTS
    MaxCells = 2
    MaxHeld = 3
    Programs <- ImproperApply
    MostCharges = 8
    Exprs <- AllExprs
    Sessions = {}
    Definitions <- AllDefinitions
    MostEdits = 1
    MostOverruns = 1
INVARIANTS
    NoLeaks
CHECK_DEADLOCK FALSE
