SPECIFICATION TriageSpec
CONSTANTS
  a1 = a1
  a2 = a2
  b1 = b1
  b2 = b2
  c1 = c1
  c2 = c2
  d1 = d1
  d2 = d2
  e1 = e1
  e2 = e2
  p1 = p1
  p2 = p2
  s1 = s1
  s2 = s2
  s3 = s3
  t1 = t1
  t2 = t2
  t3 = t3
  w1 = w1
  w2 = w2
  x = x
  y = y
  None = None
  Definitions <- MCDefinitions
  TargetRows <- MCTargetRows
  TriggerTraces = {t1}
  Keys = {}
  RunThreads = {w1, w2}
  MaxRuns = 2
  MaxHours = 1
  Curators = {c1, c2}
  FailureTraces = {t1, t2, t3}
  Signatures = {e1, e2}
  BehaviorIds = {b1, b2}
  DisplayName <- MCDisplay
  Detectors <- MCDetectors
  Groupings <- MCGroupings
  Claims = {{}, {1}, {2}}
  Objections <- MCObjections
  SampleLimit = 1
  MaxBacktests = 2
  MaxChecks = 2
  MaxNovelty = 1
  MaxStops = 1
SYMMETRY Alike
CHECK_DEADLOCK FALSE
INVARIANTS ActedOncePerKey
