\* Two questions of two test cases, one retry, two submissions, one failure; no symmetry: liveness.
SPECIFICATION FairSpec
CONSTANTS
  Questions = {q1, q2}
  Jobs = {j1}
  Cases = 2
  MaxRetries = 1
  Ceiling = {0, 3}
  MinJobs = 1
  MaxJobs = 2
  MaxSubmissions = 2
  MaxFailures = 1
INVARIANTS ScoresAreDeserved NothingStranded BoardIsCurrent NoIdleSlot
PROPERTIES CeilingHolds JobsEnd
