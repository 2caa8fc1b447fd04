SPECIFICATION Spec
CONSTANTS
  LogFrames = 3
  FlashQueueSize = 4
  FlushEvery = 5
  MaxMessages = 10
  MaxRestarts = 1
INVARIANTS LogTypeOK AtMostOnce NothingLost NearlyOrdered
CHECK_DEADLOCK FALSE
