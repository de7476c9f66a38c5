------------------------------- MODULE MCGrading -------------------------------
\* Instances of Grading for TLC.  Nothing is permuted, since liveness is checked as well.
EXTENDS Grading
================================================================================
