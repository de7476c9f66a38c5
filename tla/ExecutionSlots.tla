----------------------------- MODULE ExecutionSlots -----------------------------
(***************************************************************************)
(* The one ceiling on executions inside the backend: judge-limiter.ts over *)
(* the p-limit library, which serves its queue in order and starts what    *)
(* fits as soon as a slot or the ceiling allows it.                        *)
(***************************************************************************)
EXTENDS Integers, FiniteSets, Sequences, SequencesExt

CONSTANTS
  MinJobs, MaxJobs   \* JUDGE_BOUNDS.maxConcurrentJobs

ASSUME JobBoundsAssumption == MinJobs \in Nat \ {0} /\ MaxJobs \in Nat /\ MinJobs <= MaxJobs

VARIABLES
  ceiling,   \* limit.concurrency
  waiting,   \* executions that wait for a slot, in order
  active     \* executions that hold one

slots == <<ceiling, waiting, active>>
Ceilings == MinJobs..MaxJobs

\* (slip) zero is taken at its word
Unclamped(n) == n
\* Out of range is clamped, never unlimited.
Clamp(n) == IF n < MinJobs THEN MinJobs ELSE IF n > MaxJobs THEN MaxJobs ELSE n

\* How many of a queue fit next to what runs; a lowered ceiling stops nothing that runs.
Room(running, c) == IF Cardinality(running) >= c THEN 0 ELSE c - Cardinality(running)
Granted(running, queue, c) == IF Len(queue) <= Room(running, c) THEN Len(queue) ELSE Room(running, c)

\* p-limit's resumeNext, until nothing more fits.
Resumes(running, queue, c) ==
  LET n == Granted(running, queue, c) IN
  /\ ceiling' = c
  /\ active' = running \union ToSet(SubSeq(queue, 1, n))
  /\ waiting' = SubSeq(queue, n + 1, Len(queue))

\* (slip) a new ceiling waits for the next execution to end
SetCeilingLazily(n) == ceiling' = Clamp(n) /\ UNCHANGED <<waiting, active>>
SetCeiling(n) == Resumes(active, waiting, Clamp(n))

\* (slip) a retry goes to the backend straight away, its slot given to the next in the queue
ReenterOutside(w) ==
  LET n == Granted(active \ {w}, waiting, ceiling) IN
  /\ active' = active \union ToSet(SubSeq(waiting, 1, n))
  /\ waiting' = SubSeq(waiting, n + 1, Len(waiting))
  /\ UNCHANGED ceiling

\* withExecutionSlot: asked for under a ceiling just set, given back, given back and asked for again.
EnterUnder(w, n) == Resumes(active, Append(waiting, w), Clamp(n))
Leave(w) == Resumes(active \ {w}, waiting, ceiling)
Reenter(w) == Resumes(active \ {w}, Append(waiting, w), ceiling)

\* The process starts anew and applies the stored ceiling.
SlotsRestart(n) == ceiling' = Clamp(n) /\ waiting' = <<>> /\ active' = {}

--------------------------------------------------------------------------------
\* No slot stands empty while an execution waits for one, whatever the ceiling was set to meanwhile
\* ("Raising the ceiling releases queued work immediately").
NoIdleSlot == waiting # <<>> => Cardinality(active) >= ceiling

\* An execution, a retry included, goes to the backend only if the ceiling then in force allows it.
CeilingHolds == [][active' \ active # {} => Cardinality(active') <= ceiling']_slots
================================================================================
