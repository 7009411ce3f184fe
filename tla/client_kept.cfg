SPECIFICATION Spec
CONSTANTS
  one = one
  two = two
  other = other
  Runs <- MCRuns
  Sessions = {"s1", "s2"}
  SessionOf <- MCSession
  Closers = {close1, close2}
  Others = 0
  MaxCalls = 1
  MaxDrops = 1
  Faults = {}
SYMMETRY Alike
INVARIANT ClientReleased
CHECK_DEADLOCK FALSE
