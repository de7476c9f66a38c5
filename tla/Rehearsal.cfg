SPECIFICATION FairSpec
CONSTANTS
  Settings = {tuned, fresh}
  Default = fresh
  None = None
  MaxRuns = 2
  MaxChanges = 2
  MaxFaults = 1
INVARIANTS
  ClaimPrecedesData
  RunIsAccountedFor
  NothingIsLeft
  PassedMeansSat
PROPERTIES
  
  RunEnds
CHECK_DEADLOCK FALSE
