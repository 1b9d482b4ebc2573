\* One peer's ledger with a block store, private data, state and history: every
\* chain of MCChains with crashes and failing writes; snapshot requests beside
\* the commits; and blocks that reach it through gossip, one of them unreadable.
SPECIFICATION MCFairSpec
CONSTANTS
 k1 = k1
 k2 = k2
 MaxHeight = 6
 Modes = {"data", "snapshots", "gossip"}
 Keys = {k1, k2}
 Chains <- MCChains
 Blocks <- MCBlocks
 Validate <- validateAndPrepareBatch
 NoFlags <- NoVersion
 Faults = {"validate", "pvt", "append", "info", "index", "snapshot"}
 MaxFaults = 2
 MaxCrashes = 2
 MaxRequests = 2
 MaxDeleteFaults = 1
 StateBlockBufferSize = 1
 StateBatchSize = 2
 StateMaxRetries = 0
 Unreadable = {3}
 MaxOmissions = 1
INVARIANTS ServesWhole Serializable PvtDataFirst HashesSurvive SnapshotExact NoneMissed RightBlock NotifiedOfNext
PROPERTIES ImplementsLedger CommitsAll CatchesUpWithPeers
CHECK_DEADLOCK FALSE
