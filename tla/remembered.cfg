SPECIFICATION Spec
CONSTANTS
  one = one
  two = two
  first = first
  Talks = {one, two}
  Sizes = {1}
  MaxContents = 3
  MaxTicks = 1
  Nodes <- MCNodes
  DotNames = {".a", ".d", ".maxai-t"}
  TempNames = {".maxai-t"}
  BadNames = {".."}
  ScanFiles = 3
  ScanEntries = 5
  ScanDepth = 1
  SearchBytes = 2
  Rows = {first, one, two}
  Askers = {first}
  Texts = {1, 2}
  MaxWrites = 2
  ContextWindow = 1
  SearchLimits <- MCLimits
  Closeness <- MCCloseness
  Tags = {"a", "b"}
  MaxObservations = 4
  SkillRegistries = {one, two}
  Versions = {1, 2}
  Edits = {3, 4}
  MaxMessages = 5
  BigResult = 3
  Threshold = 4
  KeepTokens = 2
  HistorySizes = {0, 2}
  MinKeep = 2
  MaxTurns = 1
SYMMETRY Alike
INVARIANTS NothingUnreadReplaced PathsAreTold MemoriesReach ObservationsRecalled SkillFilesRight CompactionKeeps
CHECK_DEADLOCK FALSE
