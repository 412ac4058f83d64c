SPECIFICATION Spec
CONSTANTS
  kProbeOrder <- Sequence
  Unsupported = {}
  Transports = {"Linux"}
  MaxOutstanding = 2
  MaxRetries = 0
  PortSpan = 20000
  TimerMayFail = FALSE
  SendMayFail = FALSE
INVARIANTS
  UdpAnswersCount
