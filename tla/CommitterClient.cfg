\* A transaction as protoutil.CreateSignedTx assembles it.
SPECIFICATION MCSpec
CONSTANTS
    Modes = {"commit"}
    TxIDs <- MCTxIDs
    NoTxID = NoTxID
    Namespaces = {"cc", "dd"}
    Collections = {"col"}
    Keys = {"k"}
    Blocks <- ClientBlocks
    ConcurrencyLimit = 0
    PriorCodes = {"VALID"}
INVARIANT ClientTransactionsValid
CHECK_DEADLOCK FALSE
