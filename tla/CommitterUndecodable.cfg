\* A namespace that does not decode beside one with a conflict.
SPECIFICATION MCSpec
CONSTANTS
    Modes = {"commit"}
    TxIDs <- MCTxIDs
    NoTxID = NoTxID
    Namespaces = {"cc", "dd"}
    Collections = {"col"}
    Keys = {"k"}
    Blocks <- UndecodableBlocks
    ConcurrencyLimit = 0
    PriorCodes = {"VALID"}
INVARIANT Deterministic
CHECK_DEADLOCK FALSE
