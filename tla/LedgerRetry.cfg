\* The private data store fails once, and the committer commits the block again.
SPECIFICATION MCSpec
CONSTANTS
 k1 = k1
 k2 = k2
 MaxHeight = 6
 Modes = {"data"}
 Keys = {k1, k2}
 Chains <- MCChains
 Blocks <- MCBlocks
 Validate <- validateAndPrepareBatch
 NoFlags <- NoVersion
 Faults = {"pvt"}
 MaxFaults = 1
 MaxCrashes = 0
 MaxRequests = 0
 MaxDeleteFaults = 0
 StateBlockBufferSize = 1
 StateBatchSize = 2
 StateMaxRetries = 0
 Unreadable = {}
 MaxOmissions = 1
INVARIANT SameHashes
CHECK_DEADLOCK FALSE
