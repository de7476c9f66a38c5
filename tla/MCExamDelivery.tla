---------------------------- MODULE MCExamDelivery ----------------------------
\* Instances of ExamDelivery for TLC: one request of the machine for the paper, for the key or with code,
\* which the network brings again, and two exams, with the reset between them at any point of it.
EXTENDS ExamDelivery
================================================================================
