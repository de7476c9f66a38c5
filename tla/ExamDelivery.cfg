SPECIFICATION Spec
CONSTANTS
  Messages = {m1}
  Endpoints = {"config", "key", "code"}
  Drift = 1
  Grace = 0
  MaxTime = 1
  MaxKeys = 2
  MaxExams = 2
  MaxFaults = 1
  None = None
INVARIANTS PaperIsOfExam GateHolds
PROPERTY AcceptedOnce
CHECK_DEADLOCK FALSE
