------------------------------ MODULE JudgingWork ------------------------------
(***************************************************************************)
(* Who may use the execution backend: JudgingWorkCoordinator, the judging  *)
(* jobs of JudgeQueueService and the deployment test of DeployTestService. *)
(* One Node process: what runs between two awaits is one action, and every *)
(* await is a place where another request, timer or job may run.           *)
(***************************************************************************)
EXTENDS Naturals, FiniteSets

CONSTANTS
  Students,   \* testIds that may be judged
  Jobs,       \* identities of judging jobs, each used once
  Runs,       \* POST /admin/judger/deploy-tests requests, each becoming at most one run
  Probes,     \* smoke and verdict probes of a run, post-check included
  Levels,     \* concurrency levels of a run
  Workers,    \* the workers of a level
  Load,       \* executions of a level, which its workers share
  None        \* no job, no run, no student

ASSUME CountsAssumption == Probes \in Nat /\ Levels \in Nat /\ Load \in Nat
ASSUME JobsAssumption == IsFiniteSet(Jobs)
ASSUME NoneAssumption == None \notin Students \union Jobs \union Runs

Units == Probes + Levels

VARIABLES
  up,          \* the process accepts requests
  exam,        \* the persisted exam phase is IN_PROGRESS
  dbFails,     \* whether database calls may be rejected in this behaviour (never changes)
  students, deploy, rehearsal, draining,   \* the coordinator's fields
  jobs,        \* job -> its state
  testId,      \* job -> the student it judges
  live,        \* testId -> the job that has not ended, the map `live`
  pc,          \* deploy run -> where start(), then runFlow(), stands
  timer,       \* deploy run -> where the deadline branch stands
  frozen,      \* deploy run -> context.frozen: no save writes any more
  units,       \* deploy run -> probes and levels evaluated so far
  workers,     \* deploy run -> worker of its level -> where that one stands
  left,        \* deploy run -> executions of its level nobody has taken yet
  torn,        \* history: the runs one of whose workers had its save rejected
  report       \* the persisted singleton, judger_deploy_test_latest

coordinator == <<students, deploy, rehearsal, draining>>
queue == <<jobs, testId, live>>
levels == <<workers, left, torn>>
deployRuns == <<pc, timer, frozen, units, levels>>
vars == <<up, exam, dbFails, coordinator, queue, deployRuns, report>>

--------------------------------------------------------------------------------
JobStates == {"new", "running", "ended"}
StartPcs == {"examBefore", "health", "examAfter", "persist"}
SavePcs == {"saveRunning", "saveUnit", "saveExam", "saveDone", "saveFailed"}
FlowPcs == SavePcs \union {"check", "exec", "level", "done"}
Pcs == {"idle", "leaked", "over"} \union StartPcs \union FlowPcs
WorkerStates == {"out", "looks", "exec", "saves"}
Terminal == {"completed", "failed", "examStarted", "deadlineExceeded", "processRestart"}
Reports == [run : Runs \union {None}, state : {"none", "queued", "running"} \union Terminal,
            units : 0..Units]

TypeOK ==
  /\ up \in BOOLEAN /\ exam \in BOOLEAN /\ dbFails \in BOOLEAN
  /\ students \in Nat /\ deploy \in BOOLEAN /\ rehearsal \in BOOLEAN /\ draining \in BOOLEAN
  /\ jobs \in [Jobs -> JobStates] /\ testId \in [Jobs -> Students \union {None}]
  /\ live \in [Students -> Jobs \union {None}]
  /\ pc \in [Runs -> Pcs]
  /\ timer \in [Runs -> {"off", "armed", "freezing", "draining"}]
  /\ frozen \in [Runs -> BOOLEAN]
  /\ units \in [Runs -> 0..Units]
  /\ workers \in [Runs -> [Workers -> WorkerStates]]
  /\ left \in [Runs -> 0..Load] /\ torn \subseteq Runs
  /\ report \in Reports

Init ==
  /\ up = TRUE /\ exam = FALSE /\ dbFails \in BOOLEAN
  /\ students = 0 /\ deploy = FALSE /\ rehearsal = FALSE /\ draining = FALSE
  /\ jobs = [j \in Jobs |-> "new"] /\ testId = [j \in Jobs |-> None]
  /\ live = [s \in Students |-> None]
  /\ pc = [r \in Runs |-> "idle"]
  /\ timer = [r \in Runs |-> "off"]
  /\ frozen = [r \in Runs |-> FALSE]
  /\ units = [r \in Runs |-> 0]
  /\ workers = [r \in Runs |-> [w \in Workers |-> "out"]]
  /\ left = [r \in Runs |-> 0] /\ torn = {}
  /\ report = [run |-> None, state |-> "none", units |-> 0]

--------------------------------------------------------------------------------
\* JudgingWorkCoordinator.  A refused caller changes nothing.
MayJudge == ~deploy /\ ~draining
\* (slip) a second test is admitted while the first one drains
MayTestWhileDraining == ~deploy /\ ~rehearsal /\ students = 0
MayTest == ~deploy /\ ~rehearsal /\ ~draining /\ students = 0
MayRehearse == ~rehearsal /\ ~deploy /\ ~draining /\ students = 0
ReleaseStudent == students' = IF students > 0 THEN students - 1 ELSE 0

\* (slip) no look at `live` before a new job is made
StartSecondJob(s) ==
  /\ up /\ MayJudge
  /\ \E j \in Jobs :
       /\ jobs[j] = "new"
       /\ jobs' = [jobs EXCEPT ![j] = "running"]
       /\ testId' = [testId EXCEPT ![j] = s]
       /\ live' = [live EXCEPT ![s] = j]
  /\ students' = students + 1
  /\ UNCHANGED <<up, exam, dbFails, deploy, rehearsal, draining, deployRuns, report>>

\* JudgeQueueService.start: a student with a live job gets that job's handle back; otherwise
\* the lease is taken and execute() runs up to its first await.
StartJudging(s) ==
  /\ up /\ live[s] = None /\ MayJudge
  /\ \E j \in Jobs :
       /\ jobs[j] = "new"
       /\ jobs' = [jobs EXCEPT ![j] = "running"]
       /\ testId' = [testId EXCEPT ![j] = s]
       /\ live' = [live EXCEPT ![s] = j]
  /\ students' = students + 1
  /\ UNCHANGED <<up, exam, dbFails, deploy, rehearsal, draining, deployRuns, report>>

\* (slip) the lease is returned after a success only
JobEndsKeepingLease(j) ==
  /\ jobs[j] = "running"
  /\ jobs' = [jobs EXCEPT ![j] = "ended"]
  /\ live' = [live EXCEPT ![testId[j]] = None]
  /\ ReleaseStudent \/ UNCHANGED students
  /\ UNCHANGED <<up, exam, dbFails, testId, deploy, rehearsal, draining, deployRuns, report>>

\* execute() once run() has settled, with a result or an error: the outcome, which nothing here asks
\* for, then the `finally` block, with no await between.
JobEnds(j) ==
  /\ jobs[j] = "running"
  /\ jobs' = [jobs EXCEPT ![j] = "ended"]
  /\ live' = [live EXCEPT ![testId[j]] = None]
  /\ ReleaseStudent
  /\ UNCHANGED <<up, exam, dbFails, testId, deploy, rehearsal, draining, deployRuns, report>>

\* A rehearsal takes and returns its lease; what it does in between is another module's subject.
RehearsalStarts ==
  /\ up /\ MayRehearse /\ rehearsal' = TRUE
  /\ UNCHANGED <<up, exam, dbFails, students, deploy, draining, queue, deployRuns, report>>

RehearsalEnds ==
  /\ rehearsal /\ rehearsal' = FALSE
  /\ UNCHANGED <<up, exam, dbFails, students, deploy, draining, queue, deployRuns, report>>

\* The exam enters or leaves IN_PROGRESS: the phase is moved without asking the coordinator.
ExamMoves ==
  /\ up /\ exam' = ~exam
  /\ UNCHANGED <<up, dbFails, coordinator, queue, deployRuns, report>>

--------------------------------------------------------------------------------
\* DeployTestService.start, one action per await.
Unfinished(rep) == rep.state \in {"queued", "running"}

Goto(r, place) == pc' = [pc EXCEPT ![r] = place]

\* The answers of getCurrentState, which takes a rejected read for UNINITIALIZED.
Seen == IF dbFails THEN {exam, FALSE} ELSE {exam}

StartReadsLatest(r) ==
  /\ up /\ pc[r] = "idle"
  /\ Goto(r, IF Unfinished(report) THEN "over" ELSE "examBefore")
  /\ UNCHANGED <<up, exam, dbFails, coordinator, queue, timer, frozen, units, levels, report>>

StartReadsExam(r) ==
  /\ pc[r] = "examBefore"
  /\ \E seen \in Seen : Goto(r, IF seen THEN "over" ELSE "health")
  /\ UNCHANGED <<up, exam, dbFails, coordinator, queue, timer, frozen, units, levels, report>>

\* The health probe answers; acquireDeploy runs in the same turn.
StartAcquires(r) ==
  /\ pc[r] = "health"
  /\ \/ MayTest /\ deploy' = TRUE /\ Goto(r, "examAfter")
     \/ Goto(r, "over") /\ UNCHANGED deploy      \* Piston unreachable, or the lease refused
  /\ UNCHANGED <<up, exam, dbFails, students, rehearsal, draining, queue, timer, frozen, units, levels, report>>

\* (slip) the second look at the exam refuses without releasing
StartRechecksHolding(r) ==
  /\ pc[r] = "examAfter"
  /\ \E seen \in Seen : Goto(r, IF seen THEN "over" ELSE "persist")
  /\ UNCHANGED <<up, exam, dbFails, coordinator, queue, timer, frozen, units, levels, report>>

\* The exam may have started while the health probe was out: read it again, now holding the lease.
StartRechecksExam(r) ==
  /\ pc[r] = "examAfter"
  /\ \E seen \in Seen :
       /\ Goto(r, IF seen THEN "over" ELSE "persist")
       /\ deploy' = (deploy /\ ~seen)
  /\ UNCHANGED <<up, exam, dbFails, students, rehearsal, draining, queue, timer, frozen, units, levels, report>>

\* The queued run is stored, the deadline timer set, and runFlow runs up to its first save.
StartPersists(r) ==
  /\ pc[r] = "persist"
  /\ report' = [run |-> r, state |-> "queued", units |-> 0]
  /\ timer' = [timer EXCEPT ![r] = "armed"]
  /\ Goto(r, "saveRunning")
  /\ UNCHANGED <<up, exam, dbFails, coordinator, queue, frozen, units, levels>>

\* Reading the configuration or storing the run rejects: start() throws with the lease still taken.
StartFails(r) ==
  /\ dbFails /\ pc[r] = "persist"
  /\ Goto(r, "leaked")
  /\ UNCHANGED <<up, exam, dbFails, coordinator, queue, timer, frozen, units, levels, report>>

--------------------------------------------------------------------------------
\* runFlow.  context.frozen is set by the deadline, and after an exam_started stop has been saved.

\* What save() wrote, fixed when it was called: the in-memory run may change while it is pending.
Saved(place) ==
  IF place \in {"saveRunning", "saveUnit"} THEN "running"
  ELSE IF place = "saveExam" THEN "examStarted"
  ELSE IF place = "saveDone" THEN "completed" ELSE "failed"

NextUnit(r) == IF frozen[r] THEN "done" ELSE IF units[r] = Units THEN "saveDone" ELSE "check"

\* A pending save of the flow reaches the database and the flow goes on; interrupted() freezes the report.
SaveLands(r) ==
  /\ pc[r] \in SavePcs
  /\ report' = [run |-> r, state |-> Saved(pc[r]), units |-> units[r]]
  /\ Goto(r, IF pc[r] \in {"saveRunning", "saveUnit"} THEN NextUnit(r) ELSE "done")
  /\ frozen' = [frozen EXCEPT ![r] = @ \/ pc[r] = "saveExam"]
  /\ UNCHANGED <<up, exam, dbFails, coordinator, queue, timer, units, levels>>

\* The flow's catch records a failed run, unless the report is frozen.
Caught(r) == IF frozen[r] THEN "done" ELSE "saveFailed"

\* A save of the flow rejects.  (A rejection of the catch's own save is unhandled and ends the process: Crash.)
SaveFails(r) ==
  /\ dbFails /\ pc[r] \in SavePcs \ {"saveFailed"}
  /\ Goto(r, Caught(r))
  /\ UNCHANGED <<up, exam, dbFails, coordinator, queue, timer, frozen, units, levels, report>>

\* interrupted(): the phase read before a probe or a level.
ExamIsSeen(r) ==
  /\ pc[r] = "check" /\ exam
  /\ Goto(r, IF frozen[r] THEN "done" ELSE "saveExam")
  /\ UNCHANGED <<up, exam, dbFails, coordinator, queue, timer, frozen, units, levels, report>>

ProbeStarts(r) ==
  /\ pc[r] = "check" /\ FALSE \in Seen /\ units[r] < Probes
  /\ Goto(r, "exec")
  /\ UNCHANGED <<up, exam, dbFails, coordinator, queue, timer, frozen, units, levels, report>>

\* Every worker runs up to its first look at the exam; a frozen report keeps them all out.
LevelStarts(r) ==
  /\ pc[r] = "check" /\ FALSE \in Seen /\ units[r] >= Probes
  /\ Goto(r, "level")
  /\ workers' = [workers EXCEPT ![r] = [w \in Workers |-> IF frozen[r] THEN "out" ELSE "looks"]]
  /\ left' = [left EXCEPT ![r] = Load]
  /\ UNCHANGED <<up, exam, dbFails, coordinator, queue, timer, frozen, units, torn, report>>

\* (slip) a late answer is saved without looking at frozen
UnitEndsUnfrozen(r) ==
  /\ pc[r] = "exec"
  /\ units' = [units EXCEPT ![r] = @ + 1]
  /\ Goto(r, "saveUnit")
  /\ UNCHANGED <<up, exam, dbFails, coordinator, queue, timer, frozen, levels, report>>

\* A probe has its answer.  What ends after the report froze is not counted: no later save carries it.
UnitEnds(r) ==
  /\ pc[r] = "exec"
  /\ units' = [units EXCEPT ![r] = IF frozen[r] THEN @ ELSE @ + 1]
  /\ Goto(r, IF frozen[r] THEN "done" ELSE "saveUnit")
  /\ UNCHANGED <<up, exam, dbFails, coordinator, queue, timer, frozen, levels, report>>

\* A probe throws (a level catches its workers' errors).
ProbeThrows(r) ==
  /\ pc[r] = "exec"
  /\ Goto(r, Caught(r))
  /\ UNCHANGED <<up, exam, dbFails, coordinator, queue, timer, frozen, units, levels, report>>

--------------------------------------------------------------------------------
\* runConcurrency: the workers of a level.  Nothing here asks whether the flow still waits for them.
MoveWorker(r, w, place) == workers' = [workers EXCEPT ![r][w] = place]

\* The phase is read before the next execution; a worker that finds the exam on saves and stops.
WorkerSeesExam(r, w) ==
  /\ workers[r][w] = "looks" /\ exam
  /\ MoveWorker(r, w, IF frozen[r] THEN "out" ELSE "saves")
  /\ left' = [left EXCEPT ![r] = IF frozen[r] THEN 0 ELSE @]
  /\ UNCHANGED <<up, exam, dbFails, coordinator, queue, pc, timer, frozen, units, torn, report>>

WorkerTakesJob(r, w) ==
  /\ workers[r][w] = "looks" /\ FALSE \in Seen
  /\ MoveWorker(r, w, IF left[r] > 0 THEN "exec" ELSE "out")
  /\ left' = [left EXCEPT ![r] = IF @ > 0 THEN @ - 1 ELSE 0]
  /\ UNCHANGED <<up, exam, dbFails, coordinator, queue, pc, timer, frozen, units, torn, report>>

WorkerAnswers(r, w) ==
  /\ workers[r][w] = "exec"
  /\ MoveWorker(r, w, IF frozen[r] THEN "out" ELSE "looks")
  /\ left' = [left EXCEPT ![r] = IF frozen[r] THEN 0 ELSE @]
  /\ UNCHANGED <<up, exam, dbFails, coordinator, queue, pc, timer, frozen, units, torn, report>>

\* replace() is unconditional: it overwrites whatever report, of whatever run, is stored by now.
WorkerSaveLands(r, w) ==
  /\ workers[r][w] = "saves"
  /\ report' = [run |-> r, state |-> "examStarted", units |-> units[r]]
  /\ frozen' = [frozen EXCEPT ![r] = TRUE]
  /\ MoveWorker(r, w, "out")
  /\ left' = [left EXCEPT ![r] = 0]
  /\ UNCHANGED <<up, exam, dbFails, coordinator, queue, pc, timer, units, torn>>

\* The first rejection ends the level for the flow (Promise.all); the other workers go on, and the
\* report is not frozen.
WorkerSaveFails(r, w) ==
  /\ dbFails /\ workers[r][w] = "saves"
  /\ MoveWorker(r, w, "out")
  /\ Goto(r, IF pc[r] = "level" THEN Caught(r) ELSE pc[r])
  /\ torn' = torn \union {r}
  /\ UNCHANGED <<up, exam, dbFails, coordinator, queue, timer, frozen, units, left, report>>

\* (slip) the level is left without awaiting every worker
LevelJoinsEarly(r) ==
  /\ pc[r] = "level"
  /\ units' = [units EXCEPT ![r] = IF frozen[r] THEN @ ELSE @ + 1]
  /\ Goto(r, IF frozen[r] THEN "done" ELSE "saveUnit")
  /\ UNCHANGED <<up, exam, dbFails, coordinator, queue, timer, frozen, levels, report>>

\* Promise.all over the level's workers resolves.
LevelJoins(r) ==
  /\ pc[r] = "level" /\ \A w \in Workers : workers[r][w] = "out"
  /\ units' = [units EXCEPT ![r] = IF frozen[r] THEN @ ELSE @ + 1]
  /\ Goto(r, IF frozen[r] THEN "done" ELSE "saveUnit")
  /\ UNCHANGED <<up, exam, dbFails, coordinator, queue, timer, frozen, levels, report>>

--------------------------------------------------------------------------------
\* executeWithDeadline.
FlowWins(r) ==
  /\ pc[r] = "done" /\ timer[r] = "armed"
  /\ deploy' = FALSE
  /\ timer' = [timer EXCEPT ![r] = "off"]
  /\ Goto(r, "over")
  /\ UNCHANGED <<up, exam, dbFails, students, rehearsal, draining, queue, frozen, units, levels, report>>

\* The timer wins the race: the report is frozen and its last version is on its way to the database.
DeadlineFires(r) ==
  /\ timer[r] = "armed" /\ pc[r] # "done"
  /\ timer' = [timer EXCEPT ![r] = "freezing"]
  /\ frozen' = [frozen EXCEPT ![r] = TRUE]
  /\ UNCHANGED <<up, exam, dbFails, coordinator, queue, pc, units, levels, report>>

\* That write lands after any save issued before it; then beginDraining.
DeadlineSaved(r) ==
  /\ timer[r] = "freezing" /\ pc[r] \notin SavePcs
  /\ \A w \in Workers : workers[r][w] # "saves"
  /\ report' = [run |-> r, state |-> "deadlineExceeded", units |-> units[r]]
  /\ draining' = TRUE /\ deploy' = FALSE
  /\ timer' = [timer EXCEPT ![r] = "draining"]
  /\ UNCHANGED <<up, exam, dbFails, students, rehearsal, queue, pc, frozen, units, levels>>

\* (slip) endDraining is never called
DrainedForever(r) ==
  /\ timer[r] = "draining" /\ pc[r] = "done"
  /\ timer' = [timer EXCEPT ![r] = "off"]
  /\ Goto(r, "over")
  /\ UNCHANGED <<up, exam, dbFails, coordinator, queue, frozen, units, levels, report>>

Drained(r) ==
  /\ timer[r] = "draining" /\ pc[r] = "done"
  /\ draining' = FALSE
  /\ timer' = [timer EXCEPT ![r] = "off"]
  /\ Goto(r, "over")
  /\ UNCHANGED <<up, exam, dbFails, students, deploy, rehearsal, queue, frozen, units, levels, report>>

--------------------------------------------------------------------------------
\* The process dies: everything in memory goes, the database stays.
Crash ==
  /\ up' = FALSE
  /\ students' = 0 /\ deploy' = FALSE /\ rehearsal' = FALSE /\ draining' = FALSE
  /\ jobs' = [j \in Jobs |-> IF jobs[j] = "running" THEN "ended" ELSE jobs[j]]
  /\ live' = [s \in Students |-> None]
  /\ pc' = [r \in Runs |-> IF pc[r] = "idle" THEN "idle" ELSE "over"]
  /\ timer' = [r \in Runs |-> "off"]
  /\ frozen' = [r \in Runs |-> FALSE]
  /\ workers' = [r \in Runs |-> [w \in Workers |-> "out"]]
  /\ left' = [r \in Runs |-> 0]
  /\ UNCHANGED <<exam, dbFails, testId, units, torn, report>>

\* (slip) the servers listen without the repair
BootWithoutRepair ==
  /\ ~up /\ up' = TRUE
  /\ UNCHANGED <<exam, dbFails, coordinator, queue, deployRuns, report>>

\* DeployTestStartupService.run, before the servers listen.
Boot ==
  /\ ~up /\ up' = TRUE
  /\ report' = IF Unfinished(report) THEN [report EXCEPT !.state = "processRestart"] ELSE report
  /\ UNCHANGED <<exam, dbFails, coordinator, queue, deployRuns>>

StartStep(r) ==
  \/ StartReadsLatest(r) \/ StartReadsExam(r) \/ StartAcquires(r)
  \/ StartRechecksExam(r) \/ StartPersists(r) \/ StartFails(r)

\* Piston answers, the flow or a worker.
PistonAnswers(r) == UnitEnds(r) \/ ProbeThrows(r) \/ \E w \in Workers : WorkerAnswers(r, w)

FlowStep(r) ==
  \/ SaveLands(r) \/ SaveFails(r) \/ ExamIsSeen(r) \/ ProbeStarts(r) \/ LevelStarts(r) \/ LevelJoins(r)

WorkerStep(r, w) ==
  \/ WorkerSeesExam(r, w) \/ WorkerTakesJob(r, w) \/ WorkerSaveLands(r, w) \/ WorkerSaveFails(r, w)

DeadlineStep(r) == FlowWins(r) \/ DeadlineFires(r) \/ DeadlineSaved(r) \/ Drained(r)

Next ==
  \/ \E s \in Students : StartJudging(s)
  \/ \E j \in Jobs : JobEnds(j)
  \/ RehearsalStarts \/ RehearsalEnds \/ ExamMoves
  \/ \E r \in Runs : StartStep(r) \/ FlowStep(r) \/ PistonAnswers(r) \/ DeadlineStep(r)
  \/ \E r \in Runs, w \in Workers : WorkerStep(r, w)
  \/ Crash \/ Boot

Spec == Init /\ [][Next]_vars

--------------------------------------------------------------------------------
\* A run is admitted from acquireDeploy to the end of its flow.  Workers that are still at work
\* after that are abandoned: nobody waits for them.
AdmittedPcs == {"examAfter", "persist", "leaked"} \union FlowPcs
Admitted(r) == pc[r] \in AdmittedPcs
AtWork(r) == \E w \in Workers : workers[r][w] # "out"
Abandoned(r) == AtWork(r) /\ ~Admitted(r)
RunningJobs == {j \in Jobs : jobs[j] = "running"}

\* A deployment test between admission and the end of its flow has the backend to itself: no student
\* job runs, no rehearsal is on, no second test is in, even after its deadline handed the lease back.
TestIsAlone ==
  \A r \in Runs : Admitted(r) =>
    /\ RunningJobs = {} /\ ~rehearsal
    /\ \A q \in Runs : Admitted(q) => q = r

\* While executions of a deployment test are inside Piston, its flow's or a worker's, the coordinator
\* admits no one: the lease is never handed back ahead of the real promise.
\* (Not so for a torn run: the save a worker was refused ends the flow ahead of the other workers.)
NoEarlyRelease ==
  \A r \in Runs \ torn :
    pc[r] = "exec" \/ (\E w \in Workers : workers[r][w] = "exec") => deploy \/ draining

\* The students counter never drifts from the jobs that run, so the gate it feeds reopens and
\* never opens early.
CounterIsExact == students = Cardinality(RunningJobs)

\* Two runs of one student's judging never overlap, whatever is requested while one is running.
OneJobPerStudent ==
  \A j, k \in RunningJobs : testId[j] = testId[k] => j = k

\* The deploy lease always has a request or a run behind it that will hand it back.
LeaseHasOwner == deploy => \E r \in Runs : Admitted(r) /\ pc[r] # "leaked" /\ timer[r] # "draining"

\* ... as long as the database takes every write.
LeaseHasOwnerIfDbWrites == ~dbFails => LeaseHasOwner

\* The deploy lease is neither handed back ahead of the work it stands for nor left without an owner.
LeaseIsKept == NoEarlyRelease /\ LeaseHasOwnerIfDbWrites

\* The coordinator counts exactly the jobs that run, and none of them judges another's student.
JobsAreCounted == CounterIsExact /\ OneJobPerStudent

\* A finished report of a run is final, except that the deadline may still replace it: a late
\* execution, a late save or a restart never does, and its count of completed work never falls.  Nor
\* does a run write over another's report, other than by being accepted.
\* (Not so for a torn run: its abandoned workers may report over anything.)
OnlyDeadlineRewrites ==
  [][/\ report.run # None /\ report'.run = report.run =>
          /\ report'.units >= report.units
          /\ report.state \in Terminal =>
               report' = report \/ report'.state = "deadlineExceeded" \/ report.run \in torn
     /\ report'.run # report.run =>
          report'.state = "queued" \/ report.run \in torn \/ report'.run \in torn]_report

\* Fairness: pending database calls settle, the timer fires, a resolved promise's continuation
\* runs, and the container restarts a dead process.  Nothing says that Piston ever answers.
Settles(r) ==
  \/ StartReadsExam(r) \/ StartAcquires(r) \/ StartRechecksExam(r) \/ StartPersists(r)
  \/ SaveLands(r) \/ ExamIsSeen(r) \/ ProbeStarts(r) \/ LevelStarts(r) \/ LevelJoins(r)
  \/ FlowWins(r) \/ Drained(r)
WorkerSettles(r, w) == WorkerSeesExam(r, w) \/ WorkerTakesJob(r, w) \/ WorkerSaveLands(r, w)
FairSpec == Spec /\ WF_vars(Boot) /\ \A r \in Runs :
              WF_vars(Settles(r)) /\ WF_vars(DeadlineFires(r)) /\ WF_vars(DeadlineSaved(r))
              /\ WF_vars(\E w \in Workers : WorkerSettles(r, w))

\* Every stored run reaches a terminal report even if Piston hangs for ever or the process dies.
ReportSettles == Unfinished(report) ~> ~Unfinished(report)

\* If Piston answers, neither a lease nor a drain stays for ever (unless a write was rejected).
PistonFair == \A r \in Runs : WF_vars(PistonAnswers(r))
BackendIsFreed == PistonFair => ((deploy \/ draining) /\ ~dbFails ~> ~deploy /\ ~draining)

\* A deployment test comes to an end, in its report and in the backend it holds.
TestsEnd == ReportSettles /\ BackendIsFreed

\* The coordinator's promise: what the code does is a behaviour of ExclusiveBackend.
Backend == INSTANCE ExclusiveBackend WITH
  judging <- RunningJobs, testing <- {r \in Runs : Admitted(r)}, abandoned <- {r \in Runs : Abandoned(r)},
  rehearsing <- rehearsal, faulty <- dbFails
ImplementsBackend == Backend!Spec
================================================================================
