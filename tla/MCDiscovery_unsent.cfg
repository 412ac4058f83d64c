SPECIFICATION FairSpec
CONSTANTS
  h1 = h1
  h2 = h2
  Target <- MCTarget
  Neighbours <- MCNeighbours
  Probes <- MCProbes
  MaxOutstanding = 3
  CacheLimit = 1
  SubmitMayFail = TRUE
  TimerMayFail = FALSE
  EngineMayFail = FALSE
PROPERTIES
  EveryRunEnds
CHECK_DEADLOCK FALSE
