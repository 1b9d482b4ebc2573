\* A handler and Shutdown.
SPECIFICATION MCSpec
CONSTANTS
  Modes = {"shards"}
  Period = 6  OpenTimeout = 6  DialTimeout = 1  Threshold = 5
  Capacity = 2  MaxTxs = 2
  p1 = p1  p2 = p2  p3 = p3  a = a  b = b  c = c
  Callers = {p1, p2}
  Contracts = {a, b, c}
  Configured = {c}
  Wants <- MCWants
  MayShutdown = TRUE
  Stopper = Stopper  Meter = Meter  None = None  Failed = Failed
INVARIANT ShutdownStopsAll
CHECK_DEADLOCK FALSE
