SPECIFICATION FairSpec
CONSTANTS
  p1 = p1
  p2 = p2
  p3 = p3
  Work = {p1, p2}
  Method = "TcpSyn"
  MaxOutstanding = 2
  MaxRetries = 1
  Adaptive = FALSE
  RawCapture = TRUE
  SubmitFailures = {}
  BuildFailures = {}
  TimerMayFail = FALSE
  EngineMayFail = TRUE
  MinParallelism = 1
  MaxParallelism = 2
  InitialParallelism = 1
  TimeoutThreshold = 1
  RecoveryThreshold = 1
  BackoffNum = 1
  BackoffDen = 2
INVARIANTS
  ResultsReportable
  EvidenceDecides
PROPERTIES
  RunEnds
