SPECIFICATION Spec
CONSTANTS
  one = one
  two = two
  here = here
  there = there
  HostWorkers = {one, two}
  HostSessions = {here, there}
  MaxTyped = 2
  MaxObjects = 2
  MaxAsked = 2
  Scripts <- MCScripts
  Policies <- MCPolicies
  Wrappers = {"env"}
  Shells = {"sh"}
  Evals = {"eval"}
  Options = {"-e", "-o"}
  ScriptOptions = {"-c"}
  Assignments = {"A=1"}
  Keywords = {"then"}
  Qualified <- MCQualified
  MaxNesting = 1
  MaxDepth = 3
  MaxCalls = 2
  Providers = {"openai", "openrouter", "ollama"}
  MaxTries = 2
  MaxFrames = 3
  Trusted = {}
  MaxHeld = 3
  Chain = 3
  ToolCalls = {one, two}
  MaxRuns = 2
  MaxModels = 2
SYMMETRY Alike
INVARIANTS ConversationKept PermissionsKept ReplyFaithful ComponentsComeBack SpansEnded
CHECK_DEADLOCK FALSE
