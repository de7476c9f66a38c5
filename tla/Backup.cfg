SPECIFICATION BackupFairSpec
CONSTANTS
  Requests = {r1, r2, r3, r4}
  MaxActive = 2
  MaxWaiting = 1
  MaxLitter = 1
INVARIANTS
  TurnsAreSound
  NobodyWaitsForNothing
  CopiesAreRemoved
PROPERTIES
  RequestsSettle
CHECK_DEADLOCK FALSE
