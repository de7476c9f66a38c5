SPECIFICATION FairSpec
CONSTANTS
  MaxChanges = 2
  MaxCalls = 3
  MaxFailures = 1
  Ceiling = 1
  None = None
INVARIANTS ListIsSound ReportIsFollowed NothingIsUndone
PROPERTY ReportSettles
CHECK_DEADLOCK FALSE
