SPECIFICATION Spec
CONSTANTS
  Sessions = {s1}
  NoSession = NoSession
  PipeCap = 1
  Kinds = {"audition"}
  Faults = {"lateRequest"}
PROPERTIES DrainedAtRelease
