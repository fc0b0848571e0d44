SPECIFICATION Spec
CONSTANTS
  Sessions = {s1}
  NoSession = NoSession
  PipeCap = 1
  Kinds = {"room"}
  Faults = {"drainTimeout"}
PROPERTIES TimeoutKeepsMarker
