SPECIFICATION Spec
CONSTANTS
  f1 = f1
  f2 = f2
  Files <- MCOneFile
  LastChunk <- MCLastChunk
  MaxActive = 1
  MaxAttempts = 2
  Chunks = 2
  Window = 1
  Clicks = 1
  Faults = 1
CHECK_DEADLOCK FALSE
PROPERTY ResumedTransfersEnd
