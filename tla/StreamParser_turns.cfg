SPECIFICATION FairSpec
CONSTANTS
  MaxTurns = 2
  MaxItems = 2
  MaxReplays = 2
  MaxRetries = 1
  MaxAhead = 2
  ToolNames = {"Bash"}
  Faults = {"late", "exhausted"}
  None = None
INVARIANTS
  EventsReachTheirItem
  ToolResultKind
  ItemsSettled
  OwnResultInTime
PROPERTIES
  TurnEnds
