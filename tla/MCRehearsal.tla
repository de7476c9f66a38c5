------------------------------ MODULE MCRehearsal ------------------------------
\* Two rehearsals, two changes by the operator before, between or after them, one fault anywhere,
\* any stage of either too late.
EXTENDS Rehearsal
================================================================================
