------------------------------ MODULE ExamPhases ------------------------------
(***************************************************************************)
(* What EXAM-LIFECYCLE.md promises of the global phase: it moves forward   *)
(* one step at a time, never skips and never returns, except that a reset  *)
(* takes it back to the beginning from anywhere.                           *)
(***************************************************************************)
VARIABLE phase

NextPhase == [UNINITIALIZED |-> "INITIALIZED", INITIALIZED |-> "SETUP_FINISHED",
              SETUP_FINISHED |-> "IN_PROGRESS", IN_PROGRESS |-> "FINISHED"]

Init == phase = "UNINITIALIZED"
Advance == phase \in DOMAIN NextPhase /\ phase' = NextPhase[phase]
Reset == phase' = "UNINITIALIZED"
Spec == Init /\ [][Advance \/ Reset]_phase
===============================================================================
