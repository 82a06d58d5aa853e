SPECIFICATION FairSpec
CONSTANTS
  Timeout = 2
  CreateTimeout = 1
  ConnectTtl = 2
  TurnLimit = 2
  Attempts = 2
  Callers = {a, b}
  Sender = sender
  None = None
  MaxTurns = 2
  MaxCalls = 3
  Faults = {"steps", "pause", "connect", "stdin", "write", "dead", "kill", "lost"}
\* Calls and turns are bounded.
CHECK_DEADLOCK FALSE
INVARIANTS
  Reachable
  CostKept
PROPERTIES
  ExtensionAddsTime
  EverythingReturns
