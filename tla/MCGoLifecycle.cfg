SPECIFICATION FairSpec
CONSTANTS
  g1 = g1
  g2 = g2
  p1 = p1
  p2 = p2
  d1 = d1
  d2 = d2
  pooled = pooled
  other = other
  NoDoc = NoDoc
  NoParser = NoParser
  Goroutines <- MCGoroutines
  Parsers <- MCParsers
  Docs <- MCDocs
  Configs <- MCConfigs
  PoolConfig <- pooled
  MaxPooled = 1
  MaxFaults = 2
CHECK_DEADLOCK FALSE
INVARIANTS
  TypeOK
  BusyAgrees
  InUseIsLive
  NothingLost
PROPERTIES
  CloseReachesParser
