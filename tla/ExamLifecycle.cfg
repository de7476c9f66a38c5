\* One admin, two failures, two exam keys: what holds when requests do not overlap.
SPECIFICATION Spec
CONSTANTS
  c0 = c0  c1 = c1  c2 = c2  c3 = c3  c4 = c4  s0 = s0  s1 = s1  s2 = s2
  Admins = {a1}
  Configs = {c0, c1, c2, c3, c4}
  Structures = {s0, s1, s2}
  Frozen <- MCFrozen
  Content <- MCContent
  Nobody = s0
  Default = c0
  None = None
  MaxKeys = 2
  MaxFailures = 2
INVARIANTS EnrolmentIsSound PaperIsSound PhaseIsInStep ResetLeavesNothing
PROPERTY OnlyMisreadsTurnBack
