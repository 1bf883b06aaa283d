SPECIFICATION MachinesSpec
CONSTANTS
    UNKNOWN_OP_RANGE = 300
    Raised = Raised
    TxHexes <- Hexes
    Indices <- IndexSet
    LeafScripts <- ScriptSet
    UtxoLists <- SpentLists
    SignedContexts <- SignedSet
    SpentScripts <- Scripts2
    Names = {"a", "b"}
    Versions = {192, 194}
    MaxItems = 4
    MaxEdits = 6
    Summands = {1, 7}
    Factors = {0, 2, 26}
    TaggedHash <- SmallHash
    Tweaks = {0, 1, 5, 12, 30, 31}
    Messages = {3, 200}
    Nonces = {1, 2, 9, 19, 30}
    SigningKeys = {1, 2, 3, 7, 19, 30}
    SignedMessages = {3, 100, 255}
    SigningNonces = {1, 4, 25}
INVARIANTS
    FoldsAnswer
CHECK_DEADLOCK FALSE
