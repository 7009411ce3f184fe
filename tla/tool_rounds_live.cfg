SPECIFICATION FairSpec
CONSTANTS
  MaxCalls = 2
  MaxRound = 2
  MaxParallel = 2
  MaxRestarts = 0
  Tools = {"look", "save", "junk"}
  ReadOnly = {"look"}
  AskTools = {}
  BadTools = {"junk"}
  Policies <- OnlyAsking
  Hooks = TRUE
  Faults = {"slow_cleanup"}
PROPERTIES RoundEnds StartedCallsSettle
