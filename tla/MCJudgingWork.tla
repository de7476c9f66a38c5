---------------------------- MODULE MCJudgingWork ----------------------------
(* Instances of JudgingWork for TLC.  Every constant is a model value or a  *)
(* number; identities are not permuted, since liveness is checked as well.  *)
EXTENDS JudgingWork
==============================================================================
