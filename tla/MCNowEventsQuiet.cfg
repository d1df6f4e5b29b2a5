SPECIFICATION StableSpec
CONSTANTS
  a = a
  b = b
  h1 = h1
  h2 = h2
  None = None
  Traces = {a, b}
  Handlers = {h1}
  Kinds = {"route_tool"}
  MaxClock = 1
  MaxFailures = 0
INVARIANTS ClosedQuietly
