SPECIFICATION FairSpec
CONSTANTS
  web = web
  dns = dns
  bad = bad
  odd = odd
  Order <- Ports
  Probes <- ProbeCounts
  Tcp = {web, bad}
  Unparsable = {bad}
  Limits = {1, 2}
  MaxRetries = 1
  MaxResponse = 2
  TimerMayFail = TRUE
  SocketErrors = {"IoError"}
INVARIANTS
  WorkAccounted
  EvidenceDecides
PROPERTIES
  RunEnds
  KeepsContract
