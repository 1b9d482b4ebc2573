\* The graph of every block of up to four transactions: chains, forks, cycles,
\* ids that repeat, dependencies outside the block; and the commit of those in
\* which the read-write sets matter, with at most two goroutines at a time.
SPECIFICATION MCFairSpec
CONSTANTS
    Modes = {"graph", "commit"}
    TxIDs <- MCTxIDs
    NoTxID = NoTxID
    Namespaces = {"cc", "dd"}
    Collections = {"col"}
    Keys = {"k"}
    Blocks <- MCBlocks
    ConcurrencyLimit = 2
    PriorCodes = {"VALID"}
INVARIANTS GraphExact LevelsExact ParentsFirst VerdictsExact FlagsExact FatalBesideInvalid
PROPERTY CommitsEnd
CHECK_DEADLOCK FALSE
