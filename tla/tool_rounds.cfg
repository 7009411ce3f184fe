SPECIFICATION Spec
CONSTANTS
  MaxCalls = 3
  MaxRound = 3
  MaxParallel = 2
  MaxRestarts = 0
  Tools = {"look", "save", "wipe", "ask_user"}
  ReadOnly = {"look"}
  AskTools = {"ask_user"}
  BadTools = {}
  Policies <- OnlyAsking
  Hooks = FALSE
  Faults = {}
INVARIANTS OnlyWaitingGaps NoStuckExecution
PROPERTIES StartsInOrder AnswersInOrder
