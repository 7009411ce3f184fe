SPECIFICATION Spec
CONSTANTS
  MaxCalls = 2
  MaxRound = 2
  MaxParallel = 2
  MaxRestarts = 1
  Tools = {"look", "save"}
  ReadOnly = {"look"}
  AskTools = {}
  BadTools = {}
  Policies <- BothPolicies
  Hooks = TRUE
  Faults = {"hook_raises", "slow_cleanup", "repeat_ids", "hook_cancel"}
INVARIANTS AnsweredOnce ResultTellsTheTruth WritesMeetOrphansOnly
PROPERTIES StartsWithConsent LifecycleSpec
