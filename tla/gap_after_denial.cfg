SPECIFICATION Spec
CONSTANTS
  MaxCalls = 2
  MaxRound = 2
  MaxParallel = 1
  MaxRestarts = 0
  Tools = {"look", "save", "wipe", "ask_user"}
  ReadOnly = {"look"}
  AskTools = {"ask_user"}
  BadTools = {}
  Policies <- OnlyAsking
  Hooks = FALSE
  Faults = {}
INVARIANT NoGapBeforeModel
