SPECIFICATION FairSpec
CONSTANTS
  Jobs = {j1}
  NoFile = NoFile
  Plans <- SomePlans
  Window = 2
  MaxTime = 3
  MaxStarts = 2
  MaxEvents = 0
  MaxFaults = 0
INVARIANT MissedOnce
CHECK_DEADLOCK FALSE
