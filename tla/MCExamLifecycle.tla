--------------------------- MODULE MCExamLifecycle ---------------------------
(* Instances of ExamLifecycle for TLC. *)
EXTENDS ExamLifecycle, TLC

CONSTANTS c0, c1, c2, c3, c4, s0, s1, s2

\* c0 has no students, c2 amends c1, c3 is another exam, c4 is c1 with other judger settings.
MCFrozen == [c \in Configs |-> IF c = c0 THEN s0 ELSE IF c = c3 THEN s2 ELSE s1]
MCContent == [c \in Configs |-> IF c = c4 THEN c1 ELSE c]
==============================================================================
