\* The three replicas of the default configuration, of which ShardManager runs one, without a transport.
SPECIFICATION FairSpec
CONSTANTS
  r1 = r1  r2 = r2  r3 = r3  t1 = t1  t2 = t2  t3 = t3  x = x  y = y
  NoTx = NoTx
  Requests = {r1}
  TxIDs = {t1, t2, t3}
  Keys = {x, y}
  TxID <- MCTxID
  ReadSet <- MCReadSet
  WriteSet <- MCWriteSet
  MaxBatchSize = 2
  ProposeCap = 1
  CommitCap = 2
  MessagesCap = 2
  NumPeers = 3
  Self = 1
  HasTransport = FALSE
  MaxTerm = 5
  MayAbort = {}
  MayStop = FALSE
  MayExpire = FALSE
PROPERTY FlushedAndCommitted
CHECK_DEADLOCK FALSE
