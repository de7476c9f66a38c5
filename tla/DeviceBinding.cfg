SPECIFICATION Spec
CONSTANTS
  d1 = d1
  d2 = d2
  s1 = s1
  s2 = s2
  Devices = {d1, d2}
  Students = {s1, s2}
  Slots = {x1, x2}
  Roster <- MCRoster
  Anyone = Anyone
  None = None
  MaxEntries = 2
  MaxFailures = 1
SYMMETRY Alike
CONSTRAINT OverlapsAreSmall
INVARIANTS SeatsAreSound GateIsSound
PROPERTIES NoEviction SeatsFollowPlan
