SPECIFICATION ConversationSpec
CONSTANTS
  Keeps = {1}
  Named = FALSE
  MaxCalls = 1
  MaxSwitches = 0
  MaxCuts = 1
  MaxLog = 12
INVARIANT RequestValid
CHECK_DEADLOCK FALSE
