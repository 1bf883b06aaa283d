SPECIFICATION CasesSpec
CONSTANTS
    Jobs = {}
    Views <- SampleViews
    Limits = {}
    SOFTFORK_COST_MAX = 1000000
    UNKNOWN_OP_RANGE = 4096
    Extensions <- ExtensionSets
INVARIANTS
    PendingFramesReceive
    ComputesMeaning
    BudgetSound
    GuardsPaired
    LatchesExclusive
    AllocationCovered
    BoundaryReplay
    ValidatorsAgree
PROPERTIES
    OuterFrozen
    CapEnforced
