---------------------------- MODULE MCDeviceBinding ----------------------------
\* Instances of DeviceBinding for TLC: two machines, and two students of whom the first has a seat in
\* the roster.
EXTENDS DeviceBinding, TLC

CONSTANTS d1, d2, s1, s2

MCRoster == (s1 :> d1) @@ (s2 :> None)

\* It does not matter which of its slots a request has.
Alike == Permutations(Slots)

\* Bound: two requests at once are followed until two logins race; as long as no machine has asked to be
\* let in, and where the first machine has asked once, registration is closed and both machines have a
\* row: then until the server is idle again, with no failures.
OverlapsAreSmall ==
  overlapped =>
    /\ ~ raced
    /\ \/ Requested = 0
       \/ /\ Requested = 1 /\ entry[d2] = <<>> /\ ~ open /\ registered = Devices
          /\ Busy # {} /\ failures = 0
================================================================================
