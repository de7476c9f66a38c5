SPECIFICATION Spec
CONSTANTS
  d1 = d1
  d2 = d2
  s1 = s1
  s2 = s2
  Devices = {d1, d2}
  Students = {s1, s2}
  Slots = {x1}
  Roster <- MCRoster
  Anyone = Anyone
  None = None
  MaxEntries = 1
  MaxFailures = 0
INVARIANT RemovalEndsApproval
