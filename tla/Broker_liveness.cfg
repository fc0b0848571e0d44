SPECIFICATION FairSpec
CONSTANTS
  Sessions = {s1}
  NoSession = NoSession
  PipeCap = 1
  Kinds = {"room", "audition"}
  Faults = {"workerCrash", "overlongLine", "uncertain", "drainTimeout", "roomCleanup"}
PROPERTIES WorkersReaped SessionsPass CloseCompletes
