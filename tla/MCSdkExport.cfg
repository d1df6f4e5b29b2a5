SPECIFICATION FairSpec
CONSTANTS
  a = a
  b = b
  c = c
  d = d
  th1 = th1
  th2 = th2
  None = None
  Threads = {th1}
  Spans = {a, b, c}
  Roots = {a, b, c}
  Priority <- MCPriority
  MaxBuffered = 2
  RetryLimit = 2
  MaxFailures = 2
INVARIANTS TypeOK
PROPERTIES DeliveryPromise Drains
CHECK_DEADLOCK FALSE
