SPECIFICATION FairSpec
CONSTANTS
  i1 = i1
  i2 = i2
  Items = {i1, i2}
  MaxRetries = 1
  SubmitFailures = {"IoError"}
  TimerMayFail = TRUE
  EngineMayFail = TRUE
  ReportsTimeouts = TRUE
  LateEnqueue = TRUE
  MinParallelism = 1
  MaxParallelism = 2
  InitialParallelism = 2
  TimeoutThreshold = 1
  RecoveryThreshold = 2
  BackoffNum = 1
  BackoffDen = 2
INVARIANTS
  LifecycleConsistent
PROPERTIES
  RunEnds
