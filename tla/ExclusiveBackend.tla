--------------------------- MODULE ExclusiveBackend ---------------------------
(***************************************************************************)
(* What the work coordinator promises about the one execution backend: it  *)
(* serves student judging (any number of jobs at once, with or without a   *)
(* rehearsal around them), or exactly one deployment test, never both.     *)
(* Where the database may reject a call, a test may leave executions       *)
(* behind that nobody waits for and the promise does not cover.  A restart *)
(* of the process ends whatever was using it.                              *)
(***************************************************************************)
CONSTANTS Jobs,     \* judging jobs
          Runs      \* deployment test runs

VARIABLES judging,      \* jobs that may send work to the backend
          testing,      \* deployment tests the backend is kept for
          abandoned,    \* deployment tests that ended ahead of their executions
          rehearsing,   \* TRUE while a rehearsal owns the machine
          faulty        \* TRUE if database calls may be rejected

vars == <<judging, testing, abandoned, rehearsing, faulty>>

Init ==
  /\ judging = {} /\ testing = {} /\ abandoned = {} /\ rehearsing = FALSE
  /\ faulty \in BOOLEAN

\* Judging is kept out by a deployment test only, never by a rehearsal.
JudgingEnters(j) ==
  /\ j \notin judging /\ testing = {}
  /\ judging' = judging \union {j}
  /\ UNCHANGED <<testing, abandoned, rehearsing, faulty>>

JudgingLeaves(j) ==
  /\ j \in judging
  /\ judging' = judging \ {j}
  /\ UNCHANGED <<testing, abandoned, rehearsing, faulty>>

\* A deployment test needs the backend for itself.
TestEnters(r) ==
  /\ judging = {} /\ testing = {} /\ ~rehearsing
  /\ testing' = {r}
  /\ UNCHANGED <<judging, abandoned, rehearsing, faulty>>

\* A test that leaves has left nothing behind, unless a rejected call broke it off.
TestLeaves(r) ==
  /\ r \in testing
  /\ testing' = testing \ {r}
  /\ abandoned' \in {abandoned} \union (IF faulty THEN {abandoned \union {r}} ELSE {})
  /\ UNCHANGED <<judging, rehearsing, faulty>>

AbandonedEnds(r) ==
  /\ r \in abandoned
  /\ abandoned' = abandoned \ {r}
  /\ UNCHANGED <<judging, testing, rehearsing, faulty>>

RehearsalEnters ==
  /\ judging = {} /\ testing = {} /\ ~rehearsing
  /\ rehearsing' = TRUE
  /\ UNCHANGED <<judging, testing, abandoned, faulty>>

RehearsalLeaves ==
  /\ rehearsing /\ rehearsing' = FALSE
  /\ UNCHANGED <<judging, testing, abandoned, faulty>>

Restart ==
  /\ judging' = {} /\ testing' = {} /\ abandoned' = {} /\ rehearsing' = FALSE
  /\ UNCHANGED faulty

Next ==
  \/ \E j \in Jobs : JudgingEnters(j) \/ JudgingLeaves(j)
  \/ \E r \in Runs : TestEnters(r) \/ TestLeaves(r) \/ AbandonedEnds(r)
  \/ RehearsalEnters \/ RehearsalLeaves
  \/ Restart

Spec == Init /\ [][Next]_vars
===============================================================================
