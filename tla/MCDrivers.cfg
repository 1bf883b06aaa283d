SPECIFICATION DriversSpec
CONSTANTS
    Jobs <- DebuggedJobs
    Views <- SampleViews
    Limits = {300, 800, 4000}
    SOFTFORK_COST_MAX = 1000000
    UNKNOWN_OP_RANGE = 4096
    Tasks <- AllTasks
INVARIANTS
    PromptSound
    CompiledAgrees
    LimitsHold
PROPERTIES
    NextStepsOver
