SPECIFICATION Spec
CONSTANTS
  Sessions = {s1, s2}
  NoSession = NoSession
  PipeCap = 1
  Kinds = {"room", "audition"}
  Faults = {"brokerCrash", "workerCrash", "overlongLine", "uncertain", "drainTimeout", "roomCleanup", "slowSpawn", "lateRequest"}
SYMMETRY Interchangeable
INVARIANTS MarkerCoversWork OneSessionBusy IdleIsQuiet SampleIsSettled WatchdogFindsAudition
PROPERTIES UnblockedOnlyWhenResolved ResultIsFinal
