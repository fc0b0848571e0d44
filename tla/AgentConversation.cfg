SPECIFICATION FairSpec
CONSTANTS
  Calls = {c1, c2}
  Closer = closer
  NoCall = none
  MaxCalls = 2
  MaxParts = 3
  MaxDeltas = 2
  MaxContext = 3
  MaxResponse = 2
  QueueSize = 1
  PipeCap = 1
INVARIANTS
  TypeOK
  RepliesStayInTurn
  PromptsAddUp
  SettledBeforeReuse
  RuntimeIsOwned
PROPERTIES
  EverythingEnds
CHECK_DEADLOCK FALSE
