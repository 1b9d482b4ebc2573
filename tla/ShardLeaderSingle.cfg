\* A fair single-node shard: two requests that write the same key, batches of one and of
\* two, an abort, expiry, Stop, and a proposeC and a commitC that hold one element.
SPECIFICATION FairSpec
CONSTANTS
  r1 = r1  r2 = r2  r3 = r3  t1 = t1  t2 = t2  t3 = t3  x = x  y = y
  NoTx = NoTx
  Requests = {r2, r3}
  TxIDs = {t1, t2, t3}
  Keys = {x, y}
  TxID <- MCTxID
  ReadSet <- MCReadSet
  WriteSet <- MCWriteSet
  MaxBatchSize = 2
  ProposeCap = 1
  CommitCap = 1
  MessagesCap = 1
  NumPeers = 1
  Self = 1
  HasTransport = FALSE
  MaxTerm = 2
  MayAbort = {r2}
  MayStop = TRUE
  MayExpire = TRUE
INVARIANTS LastWriter HandledOnce NothingLost
PROPERTIES ImplementsPromise LeaderHandlesAll StopEnds
CHECK_DEADLOCK FALSE
