-------------------------------- MODULE Grading --------------------------------
(***************************************************************************)
(* The submissions of one student, the judging jobs that give them their   *)
(* verdicts, and the row of the scoreboard computed from those             *)
(* (JudgerService, CodeStorageService, JudgeStartupService).  Students     *)
(* share nothing but the slots of ExecutionSlots and the coordinator of    *)
(* JudgingWork.  A verdict and a score are known by the version of the     *)
(* code they were given for.                                               *)
(***************************************************************************)
EXTENDS ExecutionSlots

CONSTANTS
  Questions,        \* the puzzles of the configuration
  Jobs,             \* places for judging jobs: the running one, and those whose tasks go on without it
  Cases,            \* test cases of a puzzle
  MaxRetries,       \* maxSystemRetries
  Ceiling,          \* ceilings asked for by settings and configurations, any number
  MaxSubmissions,   \* bound: submissions of the student
  MaxFailures       \* bound: rejected database calls and deaths of the process

ASSUME CasesAssumption == Cases \in Nat \ {0} /\ MaxRetries \in Nat
ASSUME CeilingAssumption == Ceiling \subseteq Int
ASSUME BoundsAssumption == MaxSubmissions \in Nat /\ MaxFailures \in Nat

VARIABLES
  code,        \* question -> version of the stored code, 0 for no row
  status,      \* Submission.status, Pending where there is no row
  score,       \* version whose points are in Submission.autoScore, 0 for null
  submitted,   \* submissions so far
  board,       \* who wrote the score_boards row last, what it sums up, what it counts
  job,         \* place -> the job in it
  task,        \* place -> question -> the task judging it
  slipped,     \* history: rows marked Judging that their job has not read
  abandoned,   \* history: rows whose last write was rejected, since the last start
  settled,     \* history: nothing of the student's was written since the last synchronisation
  failures

rows == <<code, status, score, submitted>>
history == <<slipped, abandoned, settled, failures>>
vars == <<rows, board, job, task, slots, history>>

--------------------------------------------------------------------------------
Statuses == {"Pending", "Judging", "Graded", "SystemError"}
Versions == 0..MaxSubmissions
JobPcs == {"idle", "finds", "marks", "runs"}
TaskPcs == {"none", "read", "rules", "slot", "writes", "excuses"}
Boards == [by : {"nobody", "machine", "judge"}, sum : [Questions -> Versions], counted : SUBSET Questions]
JobStates == [at : JobPcs, scope : SUBSET Questions]

\* A task: its next call, the code it judges, the cases behind it, the attempts at this case before
\* this one, whether a case ended in a verdict of the system's.
Tasks == [at : TaskPcs, code : Versions, cases : 0..Cases, tries : 0..MaxRetries, broken : BOOLEAN]
NoTask == [at |-> "none", code |-> 0, cases |-> 0, tries |-> 0, broken |-> FALSE]
NoJob == [at |-> "idle", scope |-> {}]
Reading(v) == [NoTask EXCEPT !.at = "read", !.code = v]

TypeOK ==
  /\ code \in [Questions -> Versions] /\ score \in [Questions -> Versions]
  /\ status \in [Questions -> Statuses]
  /\ \A q \in Questions : code[q] = 0 => status[q] = "Pending" /\ score[q] = 0
  /\ submitted \in Versions
  /\ board \in Boards
  /\ job \in [Jobs -> JobStates]
  /\ task \in [Jobs -> [Questions -> Tasks]]
  /\ ceiling \in Ceilings /\ active \subseteq Jobs \X Questions /\ waiting \in Seq(Jobs \X Questions)
  /\ slipped \subseteq Questions /\ abandoned \subseteq Questions /\ settled \in BOOLEAN
  /\ failures \in 0..MaxFailures

Init ==
  /\ code = [q \in Questions |-> 0] /\ score = [q \in Questions |-> 0]
  /\ status = [q \in Questions |-> "Pending"]
  /\ submitted = 0
  /\ board = [by |-> "nobody", sum |-> [q \in Questions |-> 0], counted |-> {}]
  /\ job = [j \in Jobs |-> NoJob]
  /\ task = [j \in Jobs |-> [q \in Questions |-> NoTask]]
  /\ ceiling \in {Clamp(n) : n \in Ceiling} /\ waiting = <<>> /\ active = {}
  /\ slipped = {} /\ abandoned = {} /\ settled = FALSE
  /\ failures = 0

Live == {j \in Jobs : job[j].at # "idle"}
Free == {j \in Jobs \ Live : \A q \in Questions : task[j][q].at = "none"}
Stored == {q \in Questions : code[q] # 0}

--------------------------------------------------------------------------------
\* upsertSubmission, of the student or an assistant: new code, the old status and the old score.
Submits(q) ==
  /\ submitted < MaxSubmissions
  /\ submitted' = submitted + 1
  /\ code' = [code EXCEPT ![q] = submitted + 1]
  /\ UNCHANGED <<status, score, board, job, task, slots, history>>

\* deleteSubmissions of one question or of all.
Deletes(S) ==
  /\ S \intersect Stored # {}
  /\ code' = [q \in Questions |-> IF q \in S THEN 0 ELSE code[q]]
  /\ score' = [q \in Questions |-> IF q \in S THEN 0 ELSE score[q]]
  /\ status' = [q \in Questions |-> IF q \in S THEN "Pending" ELSE status[q]]
  /\ slipped' = slipped \ S /\ settled' = FALSE
  /\ UNCHANGED <<submitted, board, job, task, slots, abandoned, failures>>

\* submitScore: the student's machine overwrites the row with what it counted itself.
MachineReports ==
  /\ board' = [by |-> "machine", sum |-> [q \in Questions |-> 0], counted |-> {}]
  /\ UNCHANGED <<rows, job, task, slots, history>>

\* getSettings or updateSettings, for whichever configuration they read.
SetsCeiling(n) ==
  /\ SetCeiling(n)
  /\ UNCHANGED <<rows, board, job, task, history>>

--------------------------------------------------------------------------------
(* judgeStudentSubmissions, behind JudgeQueueService.start *)

Starts(scope) ==
  /\ Live = {} /\ Free # {}
  /\ job' = [job EXCEPT ![CHOOSE j \in Free : TRUE] = [at |-> "finds", scope |-> scope]]
  /\ UNCHANGED <<rows, board, task, slots, history>>

\* The configuration and the rows to judge are read.
Finds(j) ==
  /\ job[j].at = "finds"
  /\ \/ /\ job[j].scope \intersect Stored # {}
        /\ job' = [job EXCEPT ![j].at = "marks"]
        /\ task' = [task EXCEPT ![j] = [q \in Questions |->
                      IF q \in job[j].scope \intersect Stored THEN Reading(code[q]) ELSE NoTask]]
     \/ /\ job[j].scope \intersect Stored = {}
        /\ job' = [job EXCEPT ![j] = NoJob]
        /\ UNCHANGED task
  /\ UNCHANGED <<rows, board, slots, history>>

\* Every row there is by now, read or not, is marked, and a task starts for every row that was read.
Marks(j) ==
  LET read == {q \in Questions : task[j][q].at = "read"}
      marked == job[j].scope \intersect Stored IN
  /\ job[j].at = "marks"
  /\ job' = [job EXCEPT ![j].at = "runs"]
  /\ status' = [q \in Questions |-> IF q \in marked THEN "Judging" ELSE status[q]]
  /\ task' = [task EXCEPT ![j] = [q \in Questions |-> [task[j][q] EXCEPT !.at = IF @ = "read" THEN "rules" ELSE @]]]
  /\ slipped' = (slipped \union marked) \ read
  /\ settled' = FALSE
  /\ UNCHANGED <<code, score, submitted, board, slots, abandoned, failures>>

At(j, q, place) == task[j][q].at = place
Does(j, q, next) == task' = [task EXCEPT ![j][q] = next]

\* The special rules are evaluated; the ceiling of the configuration read is applied and the first
\* execution asks for a slot.
Enters(j, q, n) ==
  /\ At(j, q, "rules") /\ Does(j, q, [task[j][q] EXCEPT !.at = "slot"])
  /\ EnterUnder(<<j, q>>, n)
  /\ UNCHANGED <<rows, board, job, history>>

Leaves(j, q) == IF job[j].at = "runs" THEN [NoTask EXCEPT !.code = task[j][q].code] ELSE NoTask

\* (slip) the catch only logs
ThrowsSilently(j, q) ==
  /\ At(j, q, "rules") /\ Does(j, q, Leaves(j, q))
  /\ UNCHANGED <<rows, board, job, slots, history>>
\* The puzzle is not in the configuration, or a rule throws.
Throws(j, q) ==
  /\ At(j, q, "rules") /\ Does(j, q, [task[j][q] EXCEPT !.at = "excuses"])
  /\ UNCHANGED <<rows, board, job, slots, history>>

\* executeAndJudge: a verdict of the system's is tried again, through the slots.
Retries(j, q) ==
  /\ <<j, q>> \in active /\ task[j][q].tries < MaxRetries
  /\ Does(j, q, [task[j][q] EXCEPT !.tries = @ + 1])
  /\ Reenter(<<j, q>>)
  /\ UNCHANGED <<rows, board, job, history>>

\* A test case has its verdict, the student's or, after the last attempt, the system's.
Judged(j, q, system) ==
  [task[j][q] EXCEPT !.cases = @ + 1, !.tries = 0, !.broken = @ \/ system]
EndsCase(j, q, system) ==
  /\ <<j, q>> \in active /\ (system => task[j][q].tries = MaxRetries)
  /\ \/ /\ task[j][q].cases + 1 < Cases
        /\ Does(j, q, Judged(j, q, system)) /\ Reenter(<<j, q>>)
     \/ /\ task[j][q].cases + 1 = Cases
        /\ Does(j, q, [Judged(j, q, system) EXCEPT !.at = "writes"]) /\ Leave(<<j, q>>)
  /\ UNCHANGED <<rows, board, job, history>>

\* Submission.update for a question: the row stored by now, if there is one.
Records(q, verdict, v) ==
  /\ status' = [status EXCEPT ![q] = IF code[q] = 0 THEN @ ELSE verdict]
  /\ score' = [score EXCEPT ![q] = IF code[q] = 0 THEN @ ELSE v]
  /\ UNCHANGED <<code, submitted>>

Writes(j, q) ==
  /\ At(j, q, "writes") /\ Does(j, q, Leaves(j, q))
  /\ \/ task[j][q].broken /\ Records(q, "SystemError", 0)
     \/ ~ task[j][q].broken /\ Records(q, "Graded", task[j][q].code)
  /\ UNCHANGED <<board, job, slots, slipped, abandoned, settled, failures>>

Excuses(j, q) ==
  /\ At(j, q, "excuses") /\ Does(j, q, Leaves(j, q))
  /\ Records(q, "SystemError", 0)
  /\ UNCHANGED <<board, job, slots, slipped, abandoned, settled, failures>>

\* (slip) the tasks are not awaited
SyncsEarly(j) ==
  /\ job[j].at = "runs"
  /\ board' = [by |-> "judge", sum |-> score, counted |-> {q \in Questions : status[q] # "SystemError"}]
  /\ job' = [job EXCEPT ![j] = NoJob]
  /\ settled' = (abandoned = {})
  /\ UNCHANGED <<rows, task, slots, slipped, abandoned, failures>>
\* syncScoreBoard once every task is over: one transaction over all rows of the student, a system
\* error neither counted nor summed.
Syncs(j) ==
  /\ job[j].at = "runs" /\ \A q \in Questions : At(j, q, "none")
  /\ board' = [by |-> "judge", sum |-> score, counted |-> {q \in Questions : status[q] # "SystemError"}]
  /\ job' = [job EXCEPT ![j] = NoJob]
  /\ task' = [task EXCEPT ![j] = [q \in Questions |-> NoTask]]
  /\ settled' = (abandoned = {})
  /\ UNCHANGED <<rows, slots, slipped, abandoned, failures>>

--------------------------------------------------------------------------------
Failing == failures < MaxFailures /\ failures' = failures + 1

\* A query of the job itself is rejected, or the transaction is rolled back: the job has failed.
Fails(j) ==
  /\ Failing
  /\ \/ job[j].at \in {"finds", "marks"}
     \/ job[j].at = "runs" /\ \A q \in Questions : At(j, q, "none")
  /\ job' = [job EXCEPT ![j] = NoJob]
  /\ task' = [task EXCEPT ![j] = [q \in Questions |-> NoTask]]
  /\ UNCHANGED <<rows, board, slots, slipped, abandoned, settled>>

\* The write of a verdict is rejected: the task's catch records a system error.
WriteFails(j, q) ==
  /\ Failing
  /\ At(j, q, "writes") /\ Does(j, q, [task[j][q] EXCEPT !.at = "excuses"])
  /\ UNCHANGED <<rows, board, job, slots, slipped, abandoned, settled>>

\* That write is rejected as well: Promise.all rejects, the job has failed, its other tasks go on.
ExcuseFails(j, q) ==
  /\ Failing
  /\ At(j, q, "excuses")
  /\ job' = [job EXCEPT ![j] = NoJob]
  /\ task' = [task EXCEPT ![j] = [p \in Questions |->
                IF p = q \/ At(j, p, "none") THEN NoTask ELSE task[j][p]]]
  /\ abandoned' = abandoned \union {q}
  /\ UNCHANGED <<rows, board, slots, slipped, settled>>

\* (slip) the next start returns the rows and not their scores
RestartKeepingScores(n) ==
  /\ Failing
  /\ status' = [q \in Questions |-> IF status[q] = "Judging" THEN "Pending" ELSE status[q]]
  /\ job' = [j \in Jobs |-> NoJob] /\ task' = [j \in Jobs |-> [q \in Questions |-> NoTask]]
  /\ SlotsRestart(n)
  /\ slipped' = {} /\ abandoned' = {}
  /\ settled' = (settled /\ \A q \in Questions : status[q] # "Judging")
  /\ UNCHANGED <<code, score, submitted, board>>
\* The process dies; the next one returns what was being judged before it serves anybody.
Restart(n) ==
  LET interrupted == {q \in Questions : status[q] = "Judging"} IN
  /\ Failing
  /\ status' = [q \in Questions |-> IF q \in interrupted THEN "Pending" ELSE status[q]]
  /\ score' = [q \in Questions |-> IF q \in interrupted THEN 0 ELSE score[q]]
  /\ job' = [j \in Jobs |-> NoJob] /\ task' = [j \in Jobs |-> [q \in Questions |-> NoTask]]
  /\ SlotsRestart(n)
  /\ slipped' = {} /\ abandoned' = {}
  /\ settled' = (settled /\ interrupted = {})
  /\ UNCHANGED <<code, submitted, board>>

\* Piston answers an execution.
PistonAnswers(j, q) == Retries(j, q) \/ \E system \in BOOLEAN : EndsCase(j, q, system)

TaskStep(j, q) ==
  \/ \E n \in Ceiling : Enters(j, q, n)
  \/ Throws(j, q) \/ PistonAnswers(j, q) \/ Writes(j, q) \/ Excuses(j, q)
  \/ WriteFails(j, q) \/ ExcuseFails(j, q)

Next ==
  \/ \E q \in Questions : Submits(q) \/ Deletes({q})
  \/ Deletes(Questions) \/ MachineReports
  \/ \E n \in Ceiling : SetsCeiling(n) \/ Restart(n)
  \/ \E scope \in SUBSET Questions \ {{}} : Starts(scope)
  \/ \E j \in Jobs :
       \/ Finds(j) \/ Marks(j) \/ Syncs(j) \/ Fails(j)
       \/ \E q \in Questions : TaskStep(j, q)

Spec == Init /\ [][Next]_vars

\* Fairness: as long as something is left to do for a job, some of it happens.  Database calls settle,
\* a resolved promise's continuation runs, and Piston answers, with a verdict or, at its own limits, a
\* failure of the system's.
Continues(j) ==
  \/ Finds(j) \/ Marks(j) \/ Syncs(j)
  \/ \E q \in Questions :
       \/ \E n \in Ceiling : Enters(j, q, n)
       \/ Throws(j, q) \/ PistonAnswers(j, q) \/ Writes(j, q) \/ Excuses(j, q)
FairSpec == Spec /\ \A j \in Jobs : WF_vars(Continues(j))

--------------------------------------------------------------------------------
\* A score is there only while a verdict of the student's is, or while it is judged anew: neither a
\* failure of the system's nor a restart leaves points behind.
ScoreNeedsVerdict == \A q \in Questions : score[q] # 0 => status[q] \in {"Graded", "Judging"}

BeingJudged(q) == \E j \in Jobs : task[j][q].at \notin {"none", "read"}

\* A row is Judging only while somebody judges it.  Only two things can strand one: a row stored
\* between the job's query and its mark, and a rejected write of the system error itself.
NothingStranded ==
  \A q \in Questions : status[q] = "Judging" => BeingJudged(q) \/ q \in slipped \union abandoned

\* data-model.md of feature 004: Judging means "Currently being judged".
JudgingIsTransient == failures = 0 => \A q \in Questions : status[q] = "Judging" => BeingJudged(q)

\* When the job is about to compute the score, the verdict of every question whose code nobody has
\* replaced is that code's: no earlier run has written over it (unless tasks of a failed job go on).
VerdictIsOfCode ==
  abandoned = {} =>
    \A j \in Jobs, q \in Questions :
      job[j].at = "runs" /\ At(j, q, "none") /\ code[q] # 0 /\ task[j][q].code = code[q]
        => status[q] = "SystemError" \/ (status[q] = "Graded" /\ score[q] = code[q])

\* A stored score always stands for a verdict, and the verdict for the code that was judged.
ScoresAreDeserved == ScoreNeedsVerdict /\ VerdictIsOfCode

\* After a job the scoreboard sums up the stored scores and leaves out what the system could not
\* judge, and stays so through submissions and restarts until judging, deleting or a machine's report.
BoardIsCurrent ==
  settled /\ board.by = "judge" =>
    board.sum = score /\ board.counted = {q \in Questions : status[q] # "SystemError"}

\* Every accepted job ends, whatever the ceiling is set to, retries and rejected calls included
\* ("Every accepted request reaches a terminal state", admin-judging-api.md).
JobsEnd == Live # {} ~> Live = {}
================================================================================
