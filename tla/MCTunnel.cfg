SPECIFICATION FairSpec
CONSTANTS
  Settings <- AllSettings
  MaxConn = 8
INVARIANTS TunnelClosed InOrder RetryReady HearsOneServer
PROPERTY TunnelEnds
