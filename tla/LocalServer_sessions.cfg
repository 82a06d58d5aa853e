SPECIFICATION FairSpec
CONSTANTS
  MaxSessions = 3
  AtOnce = 2
  MaxPort = 2
  Version = 7
  None = None
  Torn = Torn
INVARIANTS
  NoOrphanUndisturbed
  OneServer
PROPERTIES
  ExitStops
  EnsureReturns
