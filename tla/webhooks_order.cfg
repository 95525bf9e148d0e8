SPECIFICATION FairSpec
CONSTANTS
  Deliveries = {d1, d2, d3}
  Requests = {r1}
  Limits = {1, 2}
  MaxQueued = 1
  MaxRuns = 3
  MaxEdits = 1
  MaxFaults = 0
  MaxStarts = 1
INVARIANT NobodyOvertakes
CHECK_DEADLOCK FALSE
