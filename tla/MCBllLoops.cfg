SPECIFICATION Spec
CONSTANTS
    Jobs <- LoopJobs
    Views <- SampleViews
    Limits = {1000, 2500, 3001}
    SOFTFORK_COST_MAX = 1000000
    UNKNOWN_OP_RANGE = 4096
INVARIANTS
    TailCallsFlat
PROPERTIES
    Termination
    ImplementsMetered
