CONSTANTS
  s1 = s1
  s2 = s2
  s3 = s3
  d1 = d1
  v1 = v1
  v2 = v2
  r1 = r1
  r2 = r2
  rd = rd
  q1 = q1
  q2 = q2
  q3 = q3
  t1 = t1
  None = None
  GroupWindow = 2
  MinErrorRequests = 2
  MaxWindow = 12
  MaxLogResults = 2
  MaxMetricPoints = 4
  MaxTraceSpans = 1
  MaxChangeResults = 1
  MaxShownPoints = 3
  MaxReplayLogs = 5
  Simulation = {s1, s2, s3}
  Direct = {d1}
  Run = {r1, r2, rd}
  RunOf <- MCRunOf
  Leaver = {s2, d1}
  Reviewer = {v1, v2}
  Scenarios <- MCScenarios
  MaxToolCalls = 2
  Lookback = 3
SPECIFICATION FairSpec
INVARIANT ClustersWhole
INVARIANT CandidateOnce
INVARIANT ReportsObservable
INVARIANT StopReasonsAgree
PROPERTY ReviewsKept
PROPERTY IncidentRunsEnd
CHECK_DEADLOCK FALSE
