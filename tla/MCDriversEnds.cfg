SPECIFICATION DriversSpec
CONSTANTS
    Jobs <- EndlessJobs
    Views <- SampleViews
    Limits = {300, 2000}
    SOFTFORK_COST_MAX = 1000000
    UNKNOWN_OP_RANGE = 4096
    Tasks <- LoopTasks
PROPERTIES
    ReturnsToPrompt
    Ends
