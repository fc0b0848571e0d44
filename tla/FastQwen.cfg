SPECIFICATION FairSpec
CONSTANTS
  Calls = {c1, c2}
  NoCall = NoCall
  QueueCap = 1
  MaxChunks = 2
INVARIANTS ThreadOwnsSlot WholeSpeech AbandonedIsStopped StateIsTrue
PROPERTIES ImplementsInference EverythingEnds
CHECK_DEADLOCK FALSE
