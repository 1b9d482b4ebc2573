\* The index is written, its call reports an error, and the block is appended again.
SPECIFICATION MCSpec
CONSTANTS
 k1 = k1
 k2 = k2
 MaxHeight = 6
 Modes = {"data"}
 Keys = {k1, k2}
 Chains <- MCChains
 Blocks <- MCBlocks
 Validate <- validateAndPrepareBatch
 NoFlags <- NoVersion
 Faults = {"append", "indexAhead"}
 MaxFaults = 2
 MaxCrashes = 0
 MaxRequests = 0
 MaxDeleteFaults = 0
 StateBlockBufferSize = 1
 StateBatchSize = 2
 StateMaxRetries = 0
 Unreadable = {}
 MaxOmissions = 1
INVARIANT StoredOnce
CHECK_DEADLOCK FALSE
