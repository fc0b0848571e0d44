SPECIFICATION FairSpec
CONSTANTS
  Calls = {c1, c2}
  NoCall = NoCall
  Selectors = {"amber", "birch"}
  NoProfile = NoProfile
  MaxRevision = 1
INVARIANTS StateIsTrue ProfileIsOfOptions
PROPERTIES ImplementsInference EverythingEnds
CHECK_DEADLOCK FALSE
