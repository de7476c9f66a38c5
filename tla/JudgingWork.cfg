\* One student, two jobs, two start requests, one probe and one level of one execution and two workers; no
\* symmetry: liveness.
SPECIFICATION FairSpec
CONSTANTS
  Students = {s1}
  Jobs = {j1, j2}
  Runs = {r1, r2}
  Probes = 1
  Levels = 1
  Workers = {w1, w2}
  Load = 1
  None = None
INVARIANTS LeaseIsKept JobsAreCounted
PROPERTIES OnlyDeadlineRewrites ImplementsBackend TestsEnd
