\* Two admins whose requests overlap, no failure: does the phase still only move forward?
SPECIFICATION Spec
CONSTANTS
  c0 = c0  c1 = c1  c2 = c2  c3 = c3  c4 = c4  s0 = s0  s1 = s1  s2 = s2
  Admins = {a1, a2}
  Configs = {c0, c1}
  Structures = {s0, s1}
  Frozen <- MCFrozen
  Content <- MCContent
  Nobody = s0
  Default = c0
  None = None
  MaxKeys = 1
  MaxFailures = 0
PROPERTY PhaseMovesForward
