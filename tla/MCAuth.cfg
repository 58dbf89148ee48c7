SPECIFICATION FairSpec
CONSTANTS
  Settings <- AllSettings
  MaxClients = 2
INVARIANT AuthedByProof
PROPERTIES CacheExpires RightOnesServed
