SPECIFICATION Spec
CONSTANTS
    Jobs <- BoundaryJobs
    Views <- SampleViews
    Limits <- BoundaryLimits
    SOFTFORK_COST_MAX = 1000000
    UNKNOWN_OP_RANGE = 4096
INVARIANTS
    EveryConstructionPaid
