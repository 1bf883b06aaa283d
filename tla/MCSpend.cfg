SPECIFICATION SpendSpec
CONSTANTS
    Jobs = {}
    Views <- SpendViews
    Limits = {}
    SOFTFORK_COST_MAX = 1000000
    UNKNOWN_OP_RANGE = 4096
    Spends <- SpendSet
    Commands <- SpendCommands
    ElementCaps = {0, 1, 3, 8, 20, 45, 11667}
    MAX_BLOCK_WEIGHT = 200
INVARIANTS
    LatchDecides
    OwnContext
    ValidExactly
    NoHonestSpendRefused
PROPERTIES
    EverySpendDecided
