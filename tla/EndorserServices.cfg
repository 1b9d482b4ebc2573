\* Three handlers, two of one contract, beside Shutdown and the metrics; and
\* the goroutines of a normal endorser (in units of 5 seconds) or a leader.
SPECIFICATION MCFairSpec
CONSTANTS
  p1 = p1  p2 = p2  p3 = p3  a = a  b = b  c = c
  Modes = {"shards", "background"}
  Callers = {p1, p2, p3}
  Contracts = {a, b, c}
  Configured = {c}
  Wants <- MCWants
  MayShutdown = TRUE
  Stopper = Stopper  Meter = Meter  None = None  Failed = Failed
  Period = 6  OpenTimeout = 6  DialTimeout = 1  Threshold = 5
  Capacity = 2  MaxTxs = 3
INVARIANTS OneShard HealthCurrent OnlyExpiredRemoved
PROPERTIES CallsReturn ShutdownReturns
CHECK_DEADLOCK FALSE
