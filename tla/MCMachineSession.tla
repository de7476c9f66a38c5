--------------------------- MODULE MCMachineSession ---------------------------
\* Instances of MachineSession for TLC: two sockets, so that an old one may outlive its successor's
\* registration, two keys, and two reports of each.
EXTENDS MachineSession, TLC

Symmetry == Permutations(Sockets)

\* Bound: where the row stores a report, no removal has begun and no call was rejected.
Apart == row # None /\ row.sequence > 0 => past.removals = 0 /\ failures = 0
================================================================================
