SPECIFICATION CallFairSpec
CONSTANTS
  MaxRetries = 1
  MaxAttempts = 2
  MaxDeltas = 2
INVARIANT ReplyOnce
CHECK_DEADLOCK FALSE
