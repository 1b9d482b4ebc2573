\* A handler whose shard has the default configuration of three replicas.
SPECIFICATION EFairSpec
CONSTANTS
  r1 = r1  r2 = r2  r3 = r3  t1 = t1  t2 = t2  t3 = t3  x = x  y = y
  NoTx = NoTx  NoProof = NoProof  NoMessage = NoMessage
  Requests = {r1}
  TxIDs = {t1, t2, t3}
  Keys = {x, y}
  TxID <- MCTxID
  Results <- MCResults
  ReadSet <- MCReadSet
  WriteSet <- MCWriteSet
  MaxBatchSize = 2
  ProposeCap = 2
  CommitCap = 2
  MessagesCap = 1
  NumPeers = 3
  Self = 1
  HasTransport = FALSE
  MaxTerm = 4
  MayAbort = {r1}
  MayStop = FALSE
  MayExpire = FALSE
  ResultsOnce = FALSE
  HasShardManager = TRUE
  WithoutSimulator = {}
PROPERTY HandlersEnd
CHECK_DEADLOCK FALSE
