SPECIFICATION GovernanceSpec
CONSTANTS
  a1 = a1
  a2 = a2
  b1 = b1
  b2 = b2
  c1 = c1
  c2 = c2
  d1 = d1
  d2 = d2
  e1 = e1
  e2 = e2
  p1 = p1
  p2 = p2
  s1 = s1
  s2 = s2
  s3 = s3
  t1 = t1
  t2 = t2
  t3 = t3
  w1 = w1
  w2 = w2
  x = x
  y = y
  None = None
  Contents = {x, y}
  Committers = {w1, w2}
  MaxVersions = 3
  MaxReads = 2
  Requests = {w1, w2}
  DevSecrets = {d1, d2}
  Emails = {e1}
  Accounts = {a1}
  GivenRoles = {"admin", "unknown"}
  MaxKeys = 2
  MaxInvites = 1
  MaxSessions = 1
  MaxTime = 1
  Agents = {w1, w2}
  Statuses = {"open", "resolved", "accepted"}
  Decisions = {"accepted", "false_positive"}
  Cap = 2
  MaxScores = 1
  MaxTasks = 2
  MaxCommits = 3
  Processes = {p1, p2}
  TracedSpans = {s1, s2}
  TraceIds = {t1, t2}
  Bucket <- MCBucket
  SdkLimits <- MCSdk
  ServerLimits <- MCServer
  MaxSpanEvents = 3
  MaxPartials = 1
  MaxGiveUps = 1
  Threads = {w1, w2}
  Spans = {s1, s2, s3}
  Roots = {}
  Priority <- MCPriority
  MaxBuffered = 1
  RetryLimit = 1
  MaxFailures = 1
SYMMETRY Alike
CHECK_DEADLOCK FALSE
INVARIANTS
  GovernanceTypeOK
  HistoryAccounted SecretsAccounted
  RevocationSticks MailsAccounted
  DecisionsStick PromotionsEarned
  OmissionsCounted SamplingHonest BufferBounded
PROPERTIES OnlyLateRequestsGoBack
