SPECIFICATION Spec
CONSTANTS
  Sockets = {s1, s2}
  MaxKeys = 2
  MaxSequence = 2
  MaxRemovals = 1
  MaxFailures = 1
  None = None
SYMMETRY Symmetry
INVARIANTS PresenceIsTrue ReportsAreSound RemovedAreTold
CHECK_DEADLOCK FALSE
CONSTRAINT Apart
