SPECIFICATION Spec
CONSTANTS
  MaxCalls = 2
  MaxRound = 2
  MaxParallel = 2
  MaxRestarts = 0
  Tools = {"look", "save"}
  ReadOnly = {"look"}
  AskTools = {}
  BadTools = {}
  Policies <- OnlyAsking
  Hooks = TRUE
  Faults = {"hook_raises"}
INVARIANT NoStuckExecution
