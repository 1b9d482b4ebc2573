\* A crash between the renaming of a snapshot and the deletion of its request.
SPECIFICATION MCFairSpec
CONSTANTS
 k1 = k1
 k2 = k2
 MaxHeight = 6
 Modes = {"snapshots"}
 Keys = {k1, k2}
 Chains <- MCChains
 Blocks <- MCBlocks
 Validate <- validateAndPrepareBatch
 NoFlags <- NoVersion
 Faults = {}
 MaxFaults = 0
 MaxCrashes = 1
 MaxRequests = 1
 MaxDeleteFaults = 0
 StateBlockBufferSize = 1
 StateBatchSize = 2
 StateMaxRetries = 0
 Unreadable = {}
 MaxOmissions = 1
PROPERTY StoredUntilGenerated
CHECK_DEADLOCK FALSE
