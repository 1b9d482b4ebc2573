\* One replica of a group of two: elections, entries of the other replica, lost proposals.
SPECIFICATION Spec
CONSTANTS
  r1 = r1  r2 = r2  r3 = r3  t1 = t1  t2 = t2  t3 = t3  x = x  y = y
  NoTx = NoTx
  Requests = {r1, r2}
  TxIDs = {t1, t2, t3}
  Keys = {x, y}
  TxID <- MCTxID
  ReadSet <- MCReadSet
  WriteSet <- MCWriteSet
  MaxBatchSize = 2
  ProposeCap = 2
  CommitCap = 2
  MessagesCap = 1
  NumPeers = 2
  Self = 1
  HasTransport = TRUE
  MaxTerm = 3
  MayAbort = {}
  MayStop = TRUE
  MayExpire = FALSE
INVARIANTS AppliedExactly ProofCommitted ProofsInLogOrder
CHECK_DEADLOCK FALSE
