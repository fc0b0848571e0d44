SPECIFICATION Spec
CONSTANTS
  Sessions = {s1, s2}
  NoSession = NoSession
  PipeCap = 1
  Kinds = {"audition"}
  Faults = {}
SYMMETRY Interchangeable
INVARIANTS NeverBlocked
PROPERTIES DrainedAtRelease
