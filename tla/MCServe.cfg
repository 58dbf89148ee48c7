SPECIFICATION FairSpec
CONSTANT
  Settings <- ServeSettings
INVARIANTS
  OneAnswer
  NoPanic
  ServerReleased
  SiteRules
  StaysInStep
PROPERTY
  ServeEnds
