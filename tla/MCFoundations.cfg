SPECIFICATION Spec
CONSTANTS
  Submission <- Probes
  PORT_SPAN = 2
  WORD = 16
  BATCH = 1
  MAX_HEADERS = 2
  MAX_BYTES = 3
  MaxOpens = 2
  MaxWire = 1
  Damages = {"vlan", "options", "fragment", "damaged", "qinq"}
  V4BITS = 3
  HALFBITS = 3
  HARD_MAXIMUM = 8
  MAX_PORT = 4
  ADDRESS_BITS = 3
  TopTcpPorts <- TopPorts
  DefaultTcpPorts <- TcpPorts
  DefaultUdpPorts <- UdpPorts
  Loopback <- LoopbackAddresses
INVARIANTS
  SessionAccounts
  AnswerReachesItsProbe
  SelectionExact
  CommandHonoured
  FrameFindsNextHop
  RankingSound
  ProbesOrdered
