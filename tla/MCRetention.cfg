SPECIFICATION FairSpec
CONSTANTS
  t1 = t1
  t2 = t2
  p1 = p1
  p2 = p2
  None = None
  Traces = {t1, t2}
  Policies = {p1, p2}
  TTL <- MCTTL
  Window = 2
  MaxClock = 1
  MaxFailures = 1
INVARIANTS TypeOK HeartbeatHonest CandidatesExpired
PROPERTIES Expires
