SPECIFICATION Spec
CONSTANTS
  p1 = p1
  p2 = p2
  p3 = p3
  Work = {p1, p2, p3}
  Method = "TcpConnect"
  MaxOutstanding = 2
  MaxRetries = 2
  Adaptive = TRUE
  RawCapture = FALSE
  SubmitFailures = {"IoError"}
  BuildFailures = {"InvalidArgument"}
  TimerMayFail = TRUE
  EngineMayFail = TRUE
  MinParallelism = 1
  MaxParallelism = 3
  InitialParallelism = 2
  TimeoutThreshold = 2
  RecoveryThreshold = 2
  BackoffNum = 1
  BackoffDen = 2
SYMMETRY Pairs
INVARIANTS
  TypeOK
  WorkAccounted
  TimersMatchWork
  TransportMatchesPending
  EvidenceDecides
PROPERTIES
  KeepsContract
  SendsWithinWindow
