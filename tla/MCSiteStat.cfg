SPECIFICATION FairSpec
CONSTANTS
  r1 = r1
  r2 = r2
  r3 = r3
  Requests = {r1, r2, r3}
  Settings <- AllSettings
  maxCnt = 1
  IntMax = 2
INVARIANTS CountersRecover MarksSeen
PROPERTIES SavedSurvives NetworkRecovers
