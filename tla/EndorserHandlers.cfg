\* Two handlers and a third that panics, and a single-node shard.
SPECIFICATION ESpec
CONSTANTS
  r1 = r1  r2 = r2  r3 = r3  t1 = t1  t2 = t2  t3 = t3  x = x  y = y
  NoTx = NoTx  NoProof = NoProof  NoMessage = NoMessage
  Requests = {r1, r2, r3}
  TxIDs = {t1, t2, t3}
  Keys = {x, y}
  TxID <- MCTxID
  Results <- MCResults
  ReadSet <- MCReadSet
  WriteSet <- MCWriteSet
  MaxBatchSize = 2
  ProposeCap = 2
  CommitCap = 3
  MessagesCap = 1
  NumPeers = 1
  Self = 1
  HasTransport = FALSE
  MaxTerm = 2
  MayAbort = {r1, r2, r3}
  MayStop = FALSE
  MayExpire = FALSE
  ResultsOnce = FALSE
  HasShardManager = TRUE
  WithoutSimulator = {r3}
INVARIANTS HeldEvidence OneProofEach ProofsConserved
CHECK_DEADLOCK FALSE
