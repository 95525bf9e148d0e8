SPECIFICATION Spec
CONSTANTS
  Msgs = {m1}
  Prompts = {p1, p2}
  Patterns = {a}
  Runs = {r1, r2}
  None = None
  MaxSteps = 2
  MaxTools = 1
  MaxEdits = 0
  MaxCompacts = 1
  MaxFails = 1
  MaxRestarts = 1
SYMMETRY Symmetry
INVARIANTS
  OneTurn
  StateTracksTurn
  AllowedRebuilds
  WaitsAreAnswerable
  PromptsSettled
\* Clients may have nothing more to ask, and then everything rests.
CHECK_DEADLOCK FALSE
