\* A block with transactions that validation has rejected.
SPECIFICATION MCSpec
CONSTANTS
    Modes = {"commit"}
    TxIDs <- MCTxIDs
    NoTxID = NoTxID
    Namespaces = {"cc", "dd"}
    Collections = {"col"}
    Keys = {"k"}
    Blocks <- MCBlocks
    ConcurrencyLimit = 0
    PriorCodes = {"VALID", "ENDORSEMENT_POLICY_FAILURE"}
INVARIANT PriorVerdictsKept
CHECK_DEADLOCK FALSE
