\* A block that peers cannot read, in the middle of the range that is asked for.
SPECIFICATION MCFairSpec
CONSTANTS
 k1 = k1
 k2 = k2
 MaxHeight = 6
 Modes = {"gossip"}
 Keys = {k1, k2}
 Chains <- MCChains
 Blocks <- MCBlocks
 Validate <- validateAndPrepareBatch
 NoFlags <- NoVersion
 Faults = {}
 MaxFaults = 0
 MaxCrashes = 0
 MaxRequests = 0
 MaxDeleteFaults = 0
 StateBlockBufferSize = 1
 StateBatchSize = 2
 StateMaxRetries = 0
 Unreadable = {2}
 MaxOmissions = 1
PROPERTY CatchesUpWithPeers
CHECK_DEADLOCK FALSE
