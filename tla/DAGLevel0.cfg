\* What is at level 0.
SPECIFICATION MCSpec
CONSTANTS
    Modes = {"graph"}
    TxIDs <- MCTxIDs
    NoTxID = NoTxID
    Namespaces = {"cc", "dd"}
    Collections = {"col"}
    Keys = {"k"}
    Blocks <- MCBlocks
    ConcurrencyLimit = 0
    PriorCodes = {"VALID"}
INVARIANT Level0Independent
CHECK_DEADLOCK FALSE
