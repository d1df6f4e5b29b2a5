SPECIFICATION FairSpec
CONSTANTS
  a = a
  b = b
  h1 = h1
  h2 = h2
  None = None
  Traces = {a, b}
  Handlers = {h1}
  Kinds = {"route_tool", "create_review_task"}
  MaxClock = 1
  MaxFailures = 1
PROPERTIES Surfaces
