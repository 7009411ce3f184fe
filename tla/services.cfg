SPECIFICATION Spec
CONSTANTS
  one = one
  two = two
  first = first
  second = second
  Payers = {one, two}
  QuotaTokens = 1
  QuotaTasks = 1
  TaskTokens = 2
  TaskModelCalls = 2
  TaskToolCalls = 1
  Prices = {1}
  LastDay = 2
  KeepPeriods = 1
  Conversations = {one, two}
  Providers = {"docker", "local"}
  MaxEdits = 2
  Servers = {one, two}
  MaxVersions = 2
  Callers = {one, two}
  MaxSaves = 4
  Users = {one, two, first}
  MaxClients = 3
  ServerCallers = {first, second}
  Readers = {second}
  MaxWorkers = 3
  MaxSends = 2
  MaxDisconnects = 2
SYMMETRY Alike
INVARIANTS QuotaKept NoSilentLoss CloseReleases SyncLosesNothing SessionReadable OneOpenClient McpKeepsPromises
CHECK_DEADLOCK FALSE
