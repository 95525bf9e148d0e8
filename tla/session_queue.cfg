SPECIFICATION Spec
CONSTANTS
  Msgs = {m1, m2, m3}
  Prompts = {}
  Patterns = {}
  Runs = {r1, r2}
  None = None
  MaxSteps = 2
  MaxTools = 1
  MaxEdits = 1
  MaxCompacts = 0
  MaxFails = 1
  MaxRestarts = 1
SYMMETRY Symmetry
INVARIANTS
  TypeOK
  QueueRebuilds
  DeliveredInOrder
  NothingLost
  NoStrandedQueue
PROPERTY
  InterruptedStartsNothing
\* Clients may have nothing more to ask, and then everything rests.
CHECK_DEADLOCK FALSE
