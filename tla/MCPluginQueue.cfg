SPECIFICATION FairSpec
CONSTANTS
  Servers = {s1, s2, s3}
  Exchanges = {e1, e2, e3}
  Limit = 2
  NoExchange = NoExchange
INVARIANTS
  SlotsConserved
  QueueHasRoom
  NoSendOnClosed
  DrainedAtExit
PROPERTIES
  CloseReturns
  SlotsReturned
