SPECIFICATION FairSpec
CONSTANTS
  Requests = {r1, r2}
  Settings <- AllSettings
  maxFailCnt = 2
INVARIANTS TriesAll ListAgrees
PROPERTY PoolsRecover
