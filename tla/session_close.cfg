SPECIFICATION Spec
CONSTANTS
  Msgs = {m1, m2}
  Prompts = {}
  Patterns = {}
  Runs = {r1, r2}
  None = None
  MaxSteps = 2
  MaxTools = 1
  MaxEdits = 0
  MaxCompacts = 0
  MaxFails = 0
  MaxRestarts = 0
INVARIANT
  CloseInterruptsAll
\* Clients may have nothing more to ask, and then everything rests.
CHECK_DEADLOCK FALSE
