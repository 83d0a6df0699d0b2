SPECIFICATION Spec
CONSTANTS
  f1 = f1
  f2 = f2
  Files <- MCFiles
  LastChunk <- MCLastChunk
  MaxActive = 1
  MaxAttempts = 2
  Chunks = 2
  Window = 1
  Clicks = 3
  Faults = 1
INVARIANTS ReceivedIsWhole BookmarkIsBacked
CHECK_DEADLOCK FALSE
PROPERTIES TransfersEnd
