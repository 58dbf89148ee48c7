SPECIFICATION Spec
CONSTANTS
  Requests = {r1}
  Settings <- RaceSettings
  maxFailCnt = 2
INVARIANT UpdaterRuns
