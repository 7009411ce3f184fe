SPECIFICATION Spec
CONSTANTS
  one = one
  two = two
  other = other
  Runs <- MCRuns
  Sessions = {"s1", "s2"}
  SessionOf <- MCSession
  Closers = {close1, close2}
  Others = 1
  MaxCalls = 1
  MaxDrops = 1
  Faults = {"orphans", "sync_fails", "cancel_upload"}
SYMMETRY Alike
INVARIANTS OneRunPerSession WaitsForSomeone ReleaseWhenIdle SandboxesReleased ClientKeptForOthers UploadsSettled
CHECK_DEADLOCK FALSE
