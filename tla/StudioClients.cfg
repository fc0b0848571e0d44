SPECIFICATION FairSpec
CONSTANTS
  MaxOwners = 2
  HeartbeatTicks = 3
  AuditionTicks = 4
  MaxStarts = 2
  MaxCommands = 2
  MaxClients = 2
  Turns = {t1}
  NoTurn = piped
  LedgerSize = 1
  ApiTicks = 1
  NarrationTicks = 4
INVARIANTS
  ClientsTypeOK
  NarrationHoldsSlot
  CaptureHasOwner
PROPERTIES
  AtMostOneAttempt
  SessionsAreLetGo
CHECK_DEADLOCK FALSE
