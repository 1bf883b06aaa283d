SPECIFICATION SpendSpec
CONSTANTS
    Jobs = {}
    Views <- SpendViews
    Limits = {}
    SOFTFORK_COST_MAX = 1000000
    UNKNOWN_OP_RANGE = 4096
    Spends <- SpendSet
    Commands = {}
    ElementCaps = {11667}
    MAX_BLOCK_WEIGHT = 200
PROPERTIES
    RefusedUnset
