SPECIFICATION Spec
CONSTANTS
  a = a
  b = b
  c = c
  d = d
  th1 = th1
  th2 = th2
  None = None
  Threads = {th1, th2}
  Spans = {a, b}
  Roots = {}
  Priority <- MCPriority
  MaxBuffered = 2
  RetryLimit = 2
  MaxFailures = 0
INVARIANTS HighPriorityKept
CHECK_DEADLOCK FALSE
