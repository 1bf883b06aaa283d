SPECIFICATION TextsSpec
CONSTANTS
    Inputs <- DecodeInputs
    Allowances = {191, 192, 528, 877, 1000000}
    Caps = {0, 1, 1000}
    LiteralsAt <- LiteralsByPlace
    MostTokens = 7
    UNKNOWN_OP_RANGE = 4096
    MostCodeBytes = 4
    MostScriptBytes = 5
INVARIANTS
    PaidAhead
    LatchesTold
    DecodersAgree
    ReaderSound
    TextsReadBack
    ScriptsRead
