SPECIFICATION FairSpec
CONSTANTS
  kProbeOrder <- Sequence
  Unsupported = {2}
  Transports = {"Linux", "Injected"}
  MaxOutstanding = 2
  MaxRetries = 1
  PortSpan = 20000
  TimerMayFail = TRUE
  SendMayFail = TRUE
INVARIANTS
  ResultAccounts
  TablesAgree
PROPERTIES
  RunEnds
