SPECIFICATION FairSpec
CONSTANTS
  h4 = h4
  h6 = h6
  Order <- Pairs
  Interfaces <- Links
  Codes = {1, 3}
  IPv6Hosts = {h6}
  Limits = {2, 3}
  MaxRetries = 1
  PoolSize = 2
  MaxResponse = 1
  SendMayFail = TRUE
  TimerMayFail = TRUE
  EngineMayFail = TRUE
INVARIANTS
  WorkAccounted
  EvidenceDecides
PROPERTIES
  RunEnds
  KeepsContract
