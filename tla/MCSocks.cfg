SPECIFICATION FairSpec
CONSTANT Settings <- AllSettings
INVARIANTS HandshakeClean Admitted AssociationClosed OneUDPClient
PROPERTIES ActivityKeepsAlive HandshakeEnds AssociationEnds
