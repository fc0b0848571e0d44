SPECIFICATION FairSpec
CONSTANTS
  BaseLimit = 1
  Reserve = 1
  MaxItems = 2
  EventLimit = 3
  MaxRetry = 1
  SendCap = 1
  ReceiveCap = 2
  MaxFrame = 2
  MaxAudio = 3
INVARIANTS BacklogIsBounded AudioWaitsForAck SoundIsAccountedFor SpeechIsBracketed TextIsOfUtterance RetryStartsClean
PROPERTIES StreamSettles
CHECK_DEADLOCK FALSE
