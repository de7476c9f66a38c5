------------------------------- MODULE MCConsole -------------------------------
\* Instances of Console for TLC: two changes of either side, three calls in flight, one that fails.
EXTENDS Console
================================================================================
