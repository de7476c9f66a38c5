\* No call is rejected: is a row Judging only while it is judged?
SPECIFICATION Spec
CONSTANTS
  Questions = {q1, q2}
  Jobs = {j1}
  Cases = 1
  MaxRetries = 0
  Ceiling = {2}
  MinJobs = 1
  MaxJobs = 2
  MaxSubmissions = 2
  MaxFailures = 0
INVARIANT JudgingIsTransient
