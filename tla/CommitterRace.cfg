\* Two children, one of an invalid parent (-continue shows both).
SPECIFICATION MCSpec
CONSTANTS
    Modes = {"commit"}
    TxIDs <- MCTxIDs
    NoTxID = NoTxID
    Namespaces = {"cc", "dd"}
    Collections = {"col"}
    Keys = {"k"}
    Blocks <- MCBlocks
    ConcurrencyLimit = 0
    PriorCodes = {"VALID"}
INVARIANTS NoRace NoCascade
CHECK_DEADLOCK FALSE
