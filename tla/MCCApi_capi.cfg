CONSTANTS
  Threads = {t1, t2, t3}
  Hosts = {h1, h2, h3}
  NoThread = NoThread
  NoHost = NoHost
  Programs <- MCPrograms
  MaxSlots = 2
  MaxSignals = 2
  MaxRegs = 2
  MaxPasses = 1
  MaxKeys = 3
  Names <- MCNames
  MaxEndpoints = 2
  Descriptions <- MCDescriptions
  Scopes <- MCScopes
  Expiries <- MCExpiries
  Peers <- MCPeers
  MaxCreds = 2
  Numbers <- MCNumbers
  LivePids <- MCLivePids
SYMMETRY Symmetry
SPECIFICATION Spec
INVARIANTS TypeOK KeyFileSettles DescribeMatches AcceptedAsSigned SignalStopsAll
CHECK_DEADLOCK FALSE
