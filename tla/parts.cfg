SPECIFICATION PartsSpec
CONSTANTS
  Jobs = {j1}
  NoFile = NoFile
  Plans <- SomePlans
  Window = 2
  MaxTime = 3
  MaxStarts = 2
  MaxEvents = 1
  MaxFaults = 1
  MaxRetries = 1
  MaxAttempts = 3
  MaxDeltas = 2
  Keeps = {1, 2}
  Named = TRUE
  MaxCalls = 2
  MaxSwitches = 2
  MaxCuts = 1
  MaxLog = 13
INVARIANTS
  NoSlotTwice
  RunsNeverStack
  RecordsAgree
  EverySlotAccounted
  TwiceOnlyOnRequest
  PathIsTheBranch
  NothingForgotten
  RequestValid
PROPERTIES
  RunsFinish
  CancelledCallsEnd
CHECK_DEADLOCK FALSE
