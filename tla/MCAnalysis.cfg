SPECIFICATION AnalysisSpec
CONSTANTS
  a1 = a1
  a2 = a2
  b1 = b1
  b2 = b2
  c1 = c1
  c2 = c2
  d1 = d1
  d2 = d2
  e1 = e1
  e2 = e2
  p1 = p1
  p2 = p2
  s1 = s1
  s2 = s2
  s3 = s3
  t1 = t1
  t2 = t2
  t3 = t3
  w1 = w1
  w2 = w2
  x = x
  y = y
  None = None
  Evaluators = {w1, w2}
  SourceTraces = {t1, t2, t3}
  Spans <- MCSpans
  Matched <- MCMatched
  Rubrics = {"rubric"}
  Panels <- MCPanels
  Wants <- MCWants
  RubricVerdicts = {"fail", "unknown"}
  Runners = {"in_process_function", "command", "unsupported"}
  MaxExamples = 2
  MaxEvals = 2
  MaxPrompts = 4
  Gone = Gone
  Redacted = Redacted
  Investigators = {w1, w2}
  CaseTraces = {t1, t2}
  Accounts = {a1, a2}
  Level <- MCLevel
  Payloads = {p1}
  Answers <- MCAnswers
  Summaries <- MCSummaries
  MaxIssues = 2
  MaxRuns = 2
  MaxPacks = 2
CHECK_DEADLOCK FALSE
INVARIANTS
  AnalysisTypeOK
  ReportsExplained RevertRestores
  RemediationAgrees EvidenceCited PacksDisclose
