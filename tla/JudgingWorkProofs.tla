--------------------------- MODULE JudgingWorkProofs ---------------------------
(***************************************************************************)
(* Proofs about JudgingWork for any number of students, jobs, runs, probes *)
(* and levels: what the runs of MCJudgingWork check on small instances.    *)
(***************************************************************************)
EXTENDS JudgingWork, FiniteSetTheorems, TLAPS

\* The steps of one deployment test, those of its workers apart.
WorkerMoves(r) == \E w \in Workers : WorkerStep(r, w) \/ WorkerAnswers(r, w)
RunStep(r) ==
  StartStep(r) \/ FlowStep(r) \/ UnitEnds(r) \/ ProbeThrows(r) \/ WorkerMoves(r) \/ DeadlineStep(r)

\* A run that is about to evaluate a unit has one left.
UnitsLeft == \A r \in Runs : pc[r] \in {"check", "exec", "level"} => units[r] < Units

\* The deadline branch is alive exactly while the flow's promise is not consumed.
TimerFollowsFlow == \A r \in Runs : pc[r] \in FlowPcs <=> timer[r] # "off"

\* An occupant is visible to the coordinator, as deploy until it drains and as draining after.
OccupantIsVisible ==
  \A r \in Runs : Admitted(r) => IF timer[r] = "draining" THEN draining ELSE deploy

\* Each running job is the live job of its student.
LiveIsExact == \A j \in RunningJobs : testId[j] \in Students /\ live[testId[j]] = j

IInv ==
  /\ TypeOK /\ UnitsLeft /\ TimerFollowsFlow
  /\ OccupantIsVisible /\ TestIsAlone /\ CounterIsExact /\ LiveIsExact

\* What holds of a run's start and of its levels while no call has been rejected.
WritesLand == ~dbFails => torn = {} /\ \A r \in Runs : pc[r] # "leaked"

\* Workers are at work in a level the flow waits for, or were abandoned at a rejected save.
WorkersInLevel ==
  \A r \in Runs : AtWork(r) =>
    pc[r] = "level" \/ (r \in torn /\ pc[r] \in {"saveFailed", "done", "over"})

\* A dead process runs no request and no flow.
DownIsQuiet == ~up => \A r \in Runs : pc[r] \in {"idle", "over"}

\* The deadline froze the report, and its own write was the last one.
DeadlineIsLast ==
  \A r \in Runs :
    /\ timer[r] \in {"freezing", "draining"} => frozen[r]
    /\ timer[r] = "draining" => pc[r] \notin SavePcs /\ \A w \in Workers : workers[r][w] # "saves"

\* How the stored report of a run is tied to where the run stands: not yet stored before its first
\* save, never ahead of the run's own count, and past every save that could change it once it is terminal.
ReportFollowsRun ==
  \A r \in Runs : report.run = r =>
    /\ pc[r] \notin {"idle", "leaked"} \union StartPcs
    /\ report.units <= units[r]
    /\ report.state \in Terminal =>
         \/ r \in torn \/ pc[r] \in {"done", "over"} \/ timer[r] = "draining"
         \/ pc[r] = "level" /\ frozen[r] /\ report.state = "examStarted" /\ report.units = units[r]

\* A flow's report is the one that is stored, unless an abandoned worker wrote over it.
OwnReport == \A r \in Runs : pc[r] \in FlowPcs => report.run = r \/ report.run \in torn

IInv2 ==
  /\ IInv /\ WritesLand /\ WorkersInLevel /\ LeaseHasOwnerIfDbWrites /\ DownIsQuiet
  /\ DeadlineIsLast /\ ReportFollowsRun /\ OwnReport
--------------------------------------------------------------------------------
\* Next, by whose step it is.
LEMMA StepsOfNext ==
  ASSUME Next
  PROVE  \/ \E s \in Students : StartJudging(s)
         \/ \E j \in Jobs : JobEnds(j)
         \/ RehearsalStarts \/ RehearsalEnds \/ ExamMoves
         \/ \E r \in Runs : RunStep(r)
         \/ Crash \/ Boot
  BY DEF Next, RunStep, WorkerMoves, PistonAnswers

LEMMA UnitsNat == Units \in Nat
  BY CountsAssumption DEF Units

\* A typed program counter stays typed when one run moves to a known place.
LEMMA GotoIsTyped ==
  ASSUME pc \in [Runs -> Pcs], NEW r, NEW place \in Pcs, Goto(r, place)
  PROVE  pc' \in [Runs -> Pcs]
  BY DEF Goto

LEMMA InitTypeOK == Init => TypeOK
  <1> SUFFICES ASSUME Init PROVE TypeOK
    OBVIOUS
  <1>1. jobs \in [Jobs -> JobStates]
    BY DEF Init, JobStates
  <1>2. pc \in [Runs -> Pcs]
    BY DEF Init, Pcs
  <1>5. workers \in [Runs -> [Workers -> WorkerStates]] /\ left \in [Runs -> 0..Load]
    BY CountsAssumption DEF Init, WorkerStates
  <1>3. report \in Reports
    BY UnitsNat DEF Init, Reports
  <1>4. units \in [Runs -> 0..Units]
    BY UnitsNat DEF Init
  <1> QED
    BY <1>1, <1>2, <1>3, <1>4, <1>5 DEF Init, TypeOK

\* A worker's step leaves everything alone that is not the run's own, and its flow too, unless a
\* rejected save ends the level.
LEMMA WorkersKeep ==
  ASSUME TypeOK, NEW r \in Runs, WorkerMoves(r)
  PROVE  /\ UNCHANGED <<up, exam, dbFails, students, deploy, rehearsal, draining, jobs, testId, live, timer, units>>
         /\ pc' = pc \/ (pc[r] = "level" /\ pc' = [pc EXCEPT ![r] = Caught(r)] /\ dbFails)
  <1>1. PICK w \in Workers : WorkerStep(r, w) \/ WorkerAnswers(r, w)
    BY DEF WorkerMoves
  <1>2. CASE WorkerSeesExam(r, w) \/ WorkerTakesJob(r, w) \/ WorkerAnswers(r, w) \/ WorkerSaveLands(r, w)
    BY <1>2 DEF WorkerSeesExam, WorkerTakesJob, WorkerAnswers, WorkerSaveLands, coordinator, queue
  <1>3. CASE WorkerSaveFails(r, w)
    BY <1>3 DEF WorkerSaveFails, coordinator, queue, Goto, TypeOK
  <1> QED BY <1>1, <1>2, <1>3 DEF WorkerStep

LEMMA WorkersAreTyped ==
  ASSUME TypeOK, NEW r \in Runs, WorkerMoves(r)
  PROVE  TypeOK'
  <1>1. PICK w \in Workers : WorkerStep(r, w) \/ WorkerAnswers(r, w)
    BY DEF WorkerMoves
  <1> USE DEF TypeOK, coordinator, queue, deployRuns, levels
  <1>2. left[r] \in 0..Load /\ Load \in Nat
    BY CountsAssumption
  <1>3. ASSUME WorkerSeesExam(r, w) \/ WorkerTakesJob(r, w) \/ WorkerAnswers(r, w)
        PROVE  left' \in [Runs -> 0..Load] /\ workers' \in [Runs -> [Workers -> WorkerStates]] /\ report' \in Reports
    <2>1. left' \in [Runs -> 0..Load]
      <3>1. left' = left \/ left' = [left EXCEPT ![r] = 0] \/ (left[r] > 0 /\ left' = [left EXCEPT ![r] = @ - 1])
        BY <1>2, <1>3 DEF WorkerSeesExam, WorkerTakesJob, WorkerAnswers
      <3> QED BY <1>2, <3>1
    <2>2. PICK place \in WorkerStates : MoveWorker(r, w, place)
      BY <1>3 DEF WorkerSeesExam, WorkerTakesJob, WorkerAnswers, WorkerStates
    <2>3. workers' \in [Runs -> [Workers -> WorkerStates]]
      BY <2>2 DEF MoveWorker
    <2>4. report' = report
      BY <1>3 DEF WorkerSeesExam, WorkerTakesJob, WorkerAnswers
    <2> QED BY <2>1, <2>3, <2>4
  <1>4. ASSUME WorkerSaveLands(r, w)
        PROVE  left' \in [Runs -> 0..Load] /\ workers' \in [Runs -> [Workers -> WorkerStates]] /\ report' \in Reports
    <2>1. left' \in [Runs -> 0..Load]
      BY <1>2, <1>4 DEF WorkerSaveLands
    <2>2. workers' \in [Runs -> [Workers -> WorkerStates]]
      BY <1>4 DEF WorkerSaveLands, MoveWorker, WorkerStates
    <2>3. report' \in Reports
      BY <1>4 DEF WorkerSaveLands, Reports, Terminal
    <2> QED BY <2>1, <2>2, <2>3
  <1>5. ASSUME WorkerSaveFails(r, w)
        PROVE  left' \in [Runs -> 0..Load] /\ workers' \in [Runs -> [Workers -> WorkerStates]] /\ report' \in Reports
    <2>1. left' = left /\ report' = report
      BY <1>5 DEF WorkerSaveFails
    <2>2. workers' \in [Runs -> [Workers -> WorkerStates]]
      BY <1>5 DEF WorkerSaveFails, MoveWorker, WorkerStates
    <2> QED BY <2>1, <2>2
  <1>6. pc' \in [Runs -> Pcs]
    BY WorkersKeep DEF Caught, Pcs, FlowPcs, SavePcs
  <1>7. torn' \subseteq Runs /\ frozen' \in [Runs -> BOOLEAN]
    BY <1>1 DEF WorkerStep, WorkerSeesExam, WorkerTakesJob, WorkerAnswers, WorkerSaveLands, WorkerSaveFails
  <1>8. left' \in [Runs -> 0..Load] /\ workers' \in [Runs -> [Workers -> WorkerStates]] /\ report' \in Reports
    BY <1>1, <1>3, <1>4, <1>5 DEF WorkerStep
  <1> QED BY <1>6, <1>7, <1>8, WorkersKeep

LEMMA TypeStep == TypeOK /\ UnitsLeft /\ [Next]_vars => TypeOK'
  <1> SUFFICES ASSUME TypeOK, UnitsLeft, [Next]_vars PROVE TypeOK'
    OBVIOUS
  <1> USE DEF TypeOK, coordinator, queue, deployRuns, levels
  <1>1. ASSUME NEW s \in Students, StartJudging(s) PROVE TypeOK'
    BY <1>1 DEF StartJudging, JobStates
  <1>2. ASSUME NEW j \in Jobs, JobEnds(j) PROVE TypeOK'
    <2>1. students' \in Nat
      BY <1>2 DEF JobEnds, ReleaseStudent
    <2>2. jobs' \in [Jobs -> JobStates] /\ live' \in [Students -> Jobs \union {None}]
      BY <1>2 DEF JobEnds, JobStates
    <2> QED BY <1>2, <2>1, <2>2 DEF JobEnds
  <1>3. CASE RehearsalStarts \/ RehearsalEnds \/ ExamMoves
    BY <1>3 DEF RehearsalStarts, RehearsalEnds, ExamMoves
  <1>4. ASSUME NEW r \in Runs, StartStep(r) PROVE TypeOK'
    <2>1. CASE StartReadsLatest(r) \/ StartReadsExam(r) \/ StartFails(r)
      BY <1>4, <2>1, GotoIsTyped DEF StartReadsLatest, StartReadsExam, StartFails, Pcs, StartPcs, Goto
    <2>2. CASE StartAcquires(r) \/ StartRechecksExam(r)
      BY <1>4, <2>2 DEF StartAcquires, StartRechecksExam, Pcs, StartPcs, Goto
    <2>3. CASE StartPersists(r)
      BY <1>4, <2>3, UnitsNat DEF StartPersists, Pcs, FlowPcs, SavePcs, Goto, Reports
    <2> QED BY <1>4, <2>1, <2>2, <2>3 DEF StartStep
  <1>5. ASSUME NEW r \in Runs, FlowStep(r) PROVE TypeOK'
    <2>1. CASE SaveLands(r)
      <3>1. Saved(pc[r]) \in {"running"} \union Terminal
        BY <2>1 DEF SaveLands, SavePcs, Saved, Terminal
      <3>2. report' \in Reports
        BY <2>1, <3>1 DEF SaveLands, Reports
      <3>3. pc' \in [Runs -> Pcs]
        BY <2>1 DEF SaveLands, NextUnit, Pcs, FlowPcs, SavePcs, Goto
      <3>4. frozen' \in [Runs -> BOOLEAN]
        BY <2>1 DEF SaveLands
      <3> QED BY <2>1, <3>2, <3>3, <3>4 DEF SaveLands
    <2>2. CASE SaveFails(r) \/ ExamIsSeen(r) \/ ProbeStarts(r)
      BY <2>2 DEF SaveFails, Caught, ExamIsSeen, ProbeStarts, Pcs, FlowPcs, SavePcs, Goto
    <2>3. CASE LevelStarts(r)
      <3>1. workers' \in [Runs -> [Workers -> WorkerStates]] /\ left' \in [Runs -> 0..Load]
        BY <2>3, CountsAssumption DEF LevelStarts, WorkerStates
      <3>2. pc' \in [Runs -> Pcs]
        BY <2>3 DEF LevelStarts, Pcs, FlowPcs, Goto
      <3> QED BY <2>3, <3>1, <3>2 DEF LevelStarts
    <2>4. CASE LevelJoins(r)
      <3>1. units' \in [Runs -> 0..Units]
        BY <2>4, UnitsNat DEF LevelJoins, UnitsLeft
      <3> QED BY <2>4, <3>1 DEF LevelJoins, Goto, Pcs, FlowPcs, SavePcs
    <2> QED BY <1>5, <2>1, <2>2, <2>3, <2>4 DEF FlowStep
  <1>6. ASSUME NEW r \in Runs, UnitEnds(r) \/ ProbeThrows(r) PROVE TypeOK'
    <2>1. CASE UnitEnds(r)
      <3>1. units[r] \in 0..Units /\ units[r] < Units
        BY <2>1 DEF UnitEnds, UnitsLeft
      <3>2. units' \in [Runs -> 0..Units]
        BY <2>1, <3>1, UnitsNat DEF UnitEnds
      <3> QED BY <2>1, <3>2 DEF UnitEnds, Goto, Pcs, FlowPcs, SavePcs
    <2>2. CASE ProbeThrows(r)
      BY <2>2 DEF ProbeThrows, Caught, Goto, Pcs, FlowPcs, SavePcs
    <2> QED BY <1>6, <2>1, <2>2
  <1>7. ASSUME NEW r \in Runs, DeadlineStep(r) PROVE TypeOK'
    <2>1. CASE FlowWins(r) \/ Drained(r)
      BY <2>1 DEF FlowWins, Drained, Goto, Pcs
    <2>2. CASE DeadlineFires(r)
      BY <2>2 DEF DeadlineFires
    <2>3. CASE DeadlineSaved(r)
      BY <1>7, <2>3 DEF DeadlineSaved, Reports, Terminal
    <2> QED BY <1>7, <2>1, <2>2, <2>3 DEF DeadlineStep
  <1>8. CASE Crash
    <2>1. jobs' \in [Jobs -> JobStates]
      BY <1>8 DEF Crash, JobStates
    <2>2. pc' \in [Runs -> Pcs]
      BY <1>8 DEF Crash, Pcs
    <2>3. workers' \in [Runs -> [Workers -> WorkerStates]] /\ left' \in [Runs -> 0..Load]
      BY <1>8, CountsAssumption DEF Crash, WorkerStates
    <2> QED BY <1>8, <2>1, <2>2, <2>3 DEF Crash
  <1>9. CASE Boot
    BY <1>9 DEF Boot, Reports, Terminal
  <1>10. CASE UNCHANGED vars
    BY <1>10 DEF vars
  <1> QED
    BY <1>1, <1>2, <1>3, <1>4, <1>5, <1>6, <1>7, <1>8, <1>9, <1>10, WorkersAreTyped, StepsOfNext DEF RunStep

--------------------------------------------------------------------------------
\* The steps of a run are the actions that leave the judging queue, `students` and `rehearsal` alone.
LEMMA RunStepIsLocal ==
  ASSUME TypeOK, NEW r \in Runs, RunStep(r)
  PROVE  UNCHANGED <<students, rehearsal, jobs, testId, live>>
  <1>1. CASE StartStep(r)
    BY <1>1 DEF StartStep, StartReadsLatest, StartReadsExam, StartAcquires, StartRechecksExam,
       StartPersists, StartFails, coordinator, queue
  <1>2. CASE FlowStep(r)
    BY <1>2 DEF FlowStep, SaveLands, SaveFails, Caught, ExamIsSeen, ProbeStarts, LevelStarts, LevelJoins, coordinator, queue
  <1>3. CASE UnitEnds(r) \/ ProbeThrows(r)
    BY <1>3 DEF UnitEnds, ProbeThrows, Caught, coordinator, queue
  <1>4. CASE DeadlineStep(r)
    BY <1>4 DEF DeadlineStep, FlowWins, DeadlineFires, DeadlineSaved, Drained, coordinator, queue
  <1>5. CASE WorkerMoves(r)
    BY <1>5, WorkersKeep DEF Caught, Goto
  <1> QED BY <1>1, <1>2, <1>3, <1>4, <1>5 DEF RunStep

\* A step of one run leaves the places, timers and workers of the others alone.
LEMMA WorkersAreOwn ==
  ASSUME TypeOK, NEW r \in Runs, WorkerMoves(r), NEW q \in Runs, q # r
  PROVE  workers'[q] = workers[q] /\ frozen'[q] = frozen[q] /\ (q \in torn' <=> q \in torn)
  BY DEF WorkerMoves, WorkerStep, WorkerSeesExam, WorkerTakesJob, WorkerAnswers, WorkerSaveLands, WorkerSaveFails,
     MoveWorker, TypeOK

LEMMA RunStepIsOwn ==
  ASSUME TypeOK, NEW r \in Runs, RunStep(r),
         NEW q \in Runs, q # r
  PROVE  /\ pc'[q] = pc[q] /\ timer'[q] = timer[q] /\ workers'[q] = workers[q] /\ units'[q] = units[q]
         /\ frozen'[q] = frozen[q] /\ (q \in torn' <=> q \in torn)
  <1> USE DEF TypeOK, Goto, deployRuns, levels
  <1>1. CASE StartStep(r)
    BY <1>1 DEF StartStep, StartReadsLatest, StartReadsExam, StartAcquires, StartRechecksExam,
       StartPersists, StartFails
  <1>2. CASE FlowStep(r)
    BY <1>2 DEF FlowStep, SaveLands, SaveFails, Caught, ExamIsSeen, ProbeStarts, LevelStarts, LevelJoins
  <1>3. CASE UnitEnds(r) \/ ProbeThrows(r)
    BY <1>3 DEF UnitEnds, ProbeThrows, Caught
  <1>4. CASE DeadlineStep(r)
    BY <1>4 DEF DeadlineStep, FlowWins, DeadlineFires, DeadlineSaved, Drained
  <1>5. CASE WorkerMoves(r)
    BY <1>5, WorkersKeep, WorkersAreOwn DEF Caught
  <1> QED BY <1>1, <1>2, <1>3, <1>4, <1>5 DEF RunStep

LEMMA UnitsLeftStep == TypeOK /\ UnitsLeft /\ [Next]_vars => UnitsLeft'
  <1> SUFFICES ASSUME TypeOK, UnitsLeft, [Next]_vars PROVE UnitsLeft'
    OBVIOUS
  <1> USE DEF TypeOK, UnitsLeft
  <1>1. ASSUME NEW r \in Runs, RunStep(r)
        PROVE  UnitsLeft'
    <2> SUFFICES pc'[r] \in {"check", "exec", "level"} => units'[r] < Units
      BY <1>1, RunStepIsOwn
    <2>1. CASE StartStep(r)
      BY <2>1 DEF StartStep, StartReadsLatest, StartReadsExam, StartAcquires, StartRechecksExam,
         StartPersists, StartFails, Goto
    <2>2. CASE SaveLands(r)
      <3>1. pc'[r] \in {"check", "exec", "level"} => units[r] # Units
        BY <2>2 DEF SaveLands, Goto, NextUnit
      <3>2. units'[r] = units[r] /\ units[r] \in 0..Units
        BY <2>2 DEF SaveLands
      <3>3. \A n, m : m \in Nat /\ n \in 0..m /\ n # m => n < m
        OBVIOUS
      <3>4. units[r] # Units => units[r] < Units
        BY ONLY <3>2, <3>3, UnitsNat
      <3> QED BY <3>1, <3>2, <3>4
    <2>3. CASE SaveFails(r) \/ ExamIsSeen(r) \/ ProbeStarts(r) \/ LevelStarts(r) \/ LevelJoins(r)
      BY <2>3 DEF SaveFails, Caught, ExamIsSeen, ProbeStarts, LevelStarts, LevelJoins, Goto
    <2>4. CASE UnitEnds(r) \/ ProbeThrows(r)
      BY <2>4 DEF UnitEnds, ProbeThrows, Caught, Goto
    <2>5. CASE DeadlineStep(r)
      BY <2>5 DEF DeadlineStep, FlowWins, DeadlineFires, DeadlineSaved, Drained, Goto
    <2>6. CASE WorkerMoves(r)
      BY <2>6, WorkersKeep DEF Caught
    <2> QED BY <1>1, <2>1, <2>2, <2>3, <2>4, <2>5, <2>6 DEF FlowStep, RunStep
  <1>2. CASE UNCHANGED <<pc, units>>
    BY <1>2
  <1>3. CASE Crash
    BY <1>3 DEF Crash
  <1> QED
    BY <1>1, <1>2, <1>3, StepsOfNext DEF StartJudging, JobEnds, RehearsalStarts, RehearsalEnds, ExamMoves,
       Boot, vars, deployRuns, levels

LEMMA TimerStep == TypeOK /\ TimerFollowsFlow /\ [Next]_vars => TimerFollowsFlow'
  <1> SUFFICES ASSUME TypeOK, TimerFollowsFlow, [Next]_vars PROVE TimerFollowsFlow'
    OBVIOUS
  <1> USE DEF TypeOK, TimerFollowsFlow, FlowPcs, SavePcs
  <1>1. ASSUME NEW r \in Runs, RunStep(r)
        PROVE  TimerFollowsFlow'
    <2> SUFFICES pc'[r] \in FlowPcs <=> timer'[r] # "off"
      BY <1>1, RunStepIsOwn
    <2>1. CASE StartStep(r)
      BY <2>1 DEF StartStep, StartReadsLatest, StartReadsExam, StartAcquires, StartRechecksExam,
         StartPersists, StartFails, Goto
    <2>2. CASE SaveLands(r)
      BY <2>2 DEF SaveLands, Goto, NextUnit
    <2>3. CASE SaveFails(r) \/ ExamIsSeen(r) \/ ProbeStarts(r) \/ LevelStarts(r) \/ LevelJoins(r)
      BY <2>3 DEF SaveFails, Caught, ExamIsSeen, ProbeStarts, LevelStarts, LevelJoins, Goto
    <2>4. CASE UnitEnds(r) \/ ProbeThrows(r)
      BY <2>4 DEF UnitEnds, ProbeThrows, Caught, Goto
    <2>5. CASE DeadlineStep(r)
      BY <2>5 DEF DeadlineStep, FlowWins, DeadlineFires, DeadlineSaved, Drained, Goto
    <2>6. CASE WorkerMoves(r)
      BY <2>6, WorkersKeep DEF Caught
    <2> QED BY <1>1, <2>1, <2>2, <2>3, <2>4, <2>5, <2>6 DEF FlowStep, RunStep
  <1>2. CASE UNCHANGED <<pc, timer>>
    BY <1>2
  <1>3. CASE Crash
    BY <1>3 DEF Crash
  <1> QED
    BY <1>1, <1>2, <1>3, StepsOfNext DEF StartJudging, JobEnds, RehearsalStarts, RehearsalEnds, ExamMoves,
       Boot, vars, deployRuns, levels

--------------------------------------------------------------------------------
\* A lease that is neither taken nor draining has nobody behind it.
LEMMA NoLeaseNoOccupant ==
  ASSUME OccupantIsVisible, ~deploy, ~draining, NEW q \in Runs
  PROVE  ~Admitted(q)
  BY DEF OccupantIsVisible

LEMMA RunningIsFinite == IsFiniteSet(RunningJobs)
  BY JobsAssumption, FS_Subset DEF RunningJobs

\* The only way in is acquireDeploy, which found nobody at work.
LEMMA WayIn ==
  ASSUME TypeOK, NEW r \in Runs, ~Admitted(r), Admitted(r)',
         RunStep(r)
  PROVE  MayTest /\ StartAcquires(r) /\ deploy' /\ timer'[r] = timer[r]
  <1> USE DEF TypeOK, Goto, Admitted, AdmittedPcs, FlowPcs, SavePcs
  <1>1. CASE StartStep(r)
    BY <1>1 DEF StartStep, StartReadsLatest, StartReadsExam, StartAcquires, StartRechecksExam,
       StartPersists, StartFails
  <1>2. CASE FlowStep(r)
    BY <1>2 DEF FlowStep, SaveLands, SaveFails, Caught, ExamIsSeen, ProbeStarts, LevelStarts, LevelJoins
  <1>3. CASE UnitEnds(r) \/ ProbeThrows(r)
    BY <1>3 DEF UnitEnds, ProbeThrows, Caught, deployRuns
  <1>4. CASE DeadlineStep(r)
    BY <1>4 DEF DeadlineStep, FlowWins, DeadlineFires, DeadlineSaved, Drained
  <1>5. CASE WorkerMoves(r)
    BY <1>5, WorkersKeep DEF Caught, Goto
  <1> QED BY <1>1, <1>2, <1>3, <1>4, <1>5 DEF RunStep

LEMMA VisibleStep ==
  TypeOK /\ TimerFollowsFlow /\ OccupantIsVisible /\ TestIsAlone /\ [Next]_vars
    => OccupantIsVisible'
  <1> SUFFICES ASSUME TypeOK, TimerFollowsFlow, OccupantIsVisible, TestIsAlone, [Next]_vars
               PROVE  OccupantIsVisible'
    OBVIOUS
  <1>1. ASSUME NEW r \in Runs, RunStep(r)
        PROVE  OccupantIsVisible'
    <2> DEFINE Visible(q) == IF timer[q] = "draining" THEN draining ELSE deploy
    <2> USE DEF TypeOK, Goto, Admitted, AdmittedPcs, FlowPcs, SavePcs
    <2>1. Admitted(r) \/ ((deploy => deploy') /\ (draining => draining'))
      <3>1. CASE StartStep(r)
        BY <3>1 DEF StartStep, StartReadsLatest, StartReadsExam, StartAcquires, StartRechecksExam,
           StartPersists, StartFails, coordinator
      <3>2. CASE FlowStep(r)
        BY <3>2 DEF FlowStep, SaveLands, SaveFails, Caught, ExamIsSeen, ProbeStarts, LevelStarts, LevelJoins, coordinator
      <3>3. CASE UnitEnds(r) \/ ProbeThrows(r)
        BY <3>3 DEF UnitEnds, ProbeThrows, Caught, coordinator
      <3>4. CASE DeadlineStep(r)
        BY <3>4 DEF TimerFollowsFlow, DeadlineStep, FlowWins, DeadlineFires, DeadlineSaved, Drained,
           coordinator
      <3>5. CASE WorkerMoves(r)
        BY <3>5, WorkersKeep DEF Caught, Goto
      <3> QED BY <1>1, <3>1, <3>2, <3>3, <3>4, <3>5 DEF RunStep
    <2>2. ASSUME Admitted(r), Admitted(r)' PROVE Visible(r)'
      <3>0. Visible(r)
        BY <2>2 DEF OccupantIsVisible
      <3>1. CASE StartStep(r)
        BY <2>2, <3>0, <3>1 DEF StartStep, StartReadsLatest, StartReadsExam, StartAcquires,
           StartRechecksExam, StartPersists, StartFails, coordinator, TimerFollowsFlow
      <3>2. CASE FlowStep(r)
        BY <3>0, <3>2 DEF FlowStep, SaveLands, SaveFails, Caught, ExamIsSeen, ProbeStarts, LevelStarts, LevelJoins,
           coordinator
      <3>3. CASE UnitEnds(r) \/ ProbeThrows(r)
        BY <3>0, <3>3 DEF UnitEnds, ProbeThrows, Caught, coordinator
      <3>4. CASE DeadlineStep(r)
        BY <2>2, <3>0, <3>4 DEF DeadlineStep, FlowWins, DeadlineFires, DeadlineSaved, Drained,
           coordinator
      <3>5. CASE WorkerMoves(r)
        BY <3>0, <3>5, WorkersKeep
      <3> QED BY <1>1, <3>1, <3>2, <3>3, <3>4, <3>5 DEF RunStep
    <2>3. ASSUME ~Admitted(r), Admitted(r)' PROVE Visible(r)'
      <3>1. timer[r] = "off"
        BY <2>3 DEF TimerFollowsFlow
      <3> QED BY <1>1, <2>3, <3>1, WayIn
    <2>4. ASSUME NEW q \in Runs, q # r, Admitted(q)' PROVE Visible(q)'
      <3>1. Admitted(q) /\ timer'[q] = timer[q]
        BY <1>1, <2>4, RunStepIsOwn
      <3>2. ~Admitted(r)
        BY <2>4, <3>1 DEF TestIsAlone
      <3> QED BY <2>1, <3>1, <3>2 DEF OccupantIsVisible
    <2> QED BY <2>2, <2>3, <2>4 DEF OccupantIsVisible
  <1>2. CASE UNCHANGED <<pc, timer, deploy, draining>>
    BY <1>2 DEF OccupantIsVisible, Admitted
  <1>3. CASE Crash
    BY <1>3 DEF Crash, OccupantIsVisible, Admitted, AdmittedPcs, FlowPcs, SavePcs
  <1> QED
    BY <1>1, <1>2, <1>3, StepsOfNext DEF StartJudging, JobEnds, RehearsalStarts, RehearsalEnds, ExamMoves,
       Boot, vars, deployRuns, levels, coordinator

LEMMA AloneStep ==
  TypeOK /\ OccupantIsVisible /\ TestIsAlone /\ CounterIsExact /\ [Next]_vars => TestIsAlone'
  <1> SUFFICES ASSUME TypeOK, OccupantIsVisible, TestIsAlone, CounterIsExact, [Next]_vars
               PROVE  TestIsAlone'
    OBVIOUS
  <1>1. ASSUME NEW r \in Runs, RunStep(r)
        PROVE  TestIsAlone'
    <2>1. RunningJobs' = RunningJobs /\ rehearsal' = rehearsal
      BY <1>1, RunStepIsLocal DEF RunningJobs
    <2>2. \A q \in Runs \ {r} : Admitted(q)' = Admitted(q)
      BY <1>1, RunStepIsOwn DEF Admitted
    <2>3. CASE Admitted(r) \/ ~Admitted(r)'
      BY <2>1, <2>2, <2>3 DEF TestIsAlone
    <2>4. CASE ~Admitted(r) /\ Admitted(r)'
      <3>1. MayTest
        BY <1>1, <2>4, WayIn
      <3>2. RunningJobs = {}
        BY <3>1, RunningIsFinite, FS_EmptySet DEF MayTest, CounterIsExact
      <3>3. \A q \in Runs : ~Admitted(q)
        BY <3>1, NoLeaseNoOccupant DEF MayTest
      <3> QED BY <2>1, <2>2, <3>1, <3>2, <3>3 DEF TestIsAlone, MayTest
    <2> QED BY <2>3, <2>4
  <1>2. ASSUME NEW s \in Students, StartJudging(s) PROVE TestIsAlone'
    BY <1>2, NoLeaseNoOccupant DEF StartJudging, MayJudge, TestIsAlone, Admitted, deployRuns
  <1>3. CASE RehearsalStarts
    BY <1>3, NoLeaseNoOccupant DEF RehearsalStarts, MayRehearse, TestIsAlone, Admitted, deployRuns
  <1>4. ASSUME NEW j \in Jobs, JobEnds(j) PROVE TestIsAlone'
    <2>1. RunningJobs' \subseteq RunningJobs
      BY <1>4 DEF JobEnds, RunningJobs, TypeOK
    <2> QED BY <1>4, <2>1 DEF JobEnds, TestIsAlone, Admitted, deployRuns
  <1>5. CASE RehearsalEnds
    BY <1>5 DEF RehearsalEnds, TestIsAlone, Admitted, RunningJobs, deployRuns, queue
  <1>6. CASE Crash
    BY <1>6 DEF Crash, TestIsAlone, Admitted, AdmittedPcs, FlowPcs, SavePcs
  <1>7. CASE ExamMoves \/ Boot \/ UNCHANGED vars
    BY <1>7 DEF ExamMoves, Boot, TestIsAlone, Admitted, RunningJobs, vars, deployRuns, levels, queue, coordinator
  <1> QED BY <1>1, <1>2, <1>3, <1>4, <1>5, <1>6, <1>7, StepsOfNext DEF vars

--------------------------------------------------------------------------------
LEMMA CounterStep == TypeOK /\ CounterIsExact /\ [Next]_vars => CounterIsExact'
  <1> SUFFICES ASSUME TypeOK, CounterIsExact, [Next]_vars PROVE CounterIsExact'
    OBVIOUS
  <1> USE RunningIsFinite
  <1>1. ASSUME NEW s \in Students, StartJudging(s) PROVE CounterIsExact'
    <2>1. PICK j \in Jobs : jobs[j] = "new" /\ jobs' = [jobs EXCEPT ![j] = "running"]
      BY <1>1 DEF StartJudging
    <2>2. j \notin RunningJobs /\ RunningJobs' = RunningJobs \union {j}
      BY <2>1 DEF RunningJobs, TypeOK
    <2>3. Cardinality(RunningJobs') = Cardinality(RunningJobs) + 1
      BY <2>2, FS_AddElement
    <2> QED BY <1>1, <2>3 DEF CounterIsExact, StartJudging
  <1>2. ASSUME NEW j \in Jobs, JobEnds(j) PROVE CounterIsExact'
    <2>1. j \in RunningJobs /\ RunningJobs' = RunningJobs \ {j}
      BY <1>2 DEF JobEnds, RunningJobs, TypeOK
    <2>2. Cardinality(RunningJobs') = Cardinality(RunningJobs) - 1
      BY <2>1, FS_RemoveElement
    <2>3. students # 0
      BY <2>1, FS_EmptySet DEF CounterIsExact
    <2> QED BY <1>2, <2>2, <2>3 DEF CounterIsExact, JobEnds, ReleaseStudent, TypeOK
  <1>3. CASE Crash
    <2>1. RunningJobs' = {}
      BY <1>3 DEF Crash, RunningJobs
    <2> QED BY <1>3, <2>1, FS_EmptySet DEF Crash, CounterIsExact
  <1>4. CASE UNCHANGED <<students, jobs>>
    BY <1>4 DEF CounterIsExact, RunningJobs
  <1>5. ASSUME NEW r \in Runs, RunStep(r)
        PROVE  CounterIsExact'
    BY <1>4, <1>5, RunStepIsLocal
  <1> QED
    BY <1>1, <1>2, <1>3, <1>4, <1>5, StepsOfNext
    DEF RehearsalStarts, RehearsalEnds, ExamMoves, Boot, vars, queue, coordinator

LEMMA LiveStep == TypeOK /\ LiveIsExact /\ [Next]_vars => LiveIsExact'
  <1> SUFFICES ASSUME TypeOK, LiveIsExact, [Next]_vars PROVE LiveIsExact'
    OBVIOUS
  <1> USE DEF LiveIsExact, RunningJobs, TypeOK
  <1>1. ASSUME NEW s \in Students, StartJudging(s) PROVE LiveIsExact'
    <2>1. live[s] = None /\ \A j \in Jobs : j # None
      BY <1>1, NoneAssumption DEF StartJudging
    <2> QED BY <1>1, <2>1 DEF StartJudging
  <1>2. ASSUME NEW j \in Jobs, JobEnds(j) PROVE LiveIsExact'
    BY <1>2 DEF JobEnds
  <1>3. CASE Crash
    BY <1>3 DEF Crash
  <1>4. CASE UNCHANGED <<jobs, testId, live>>
    BY <1>4
  <1>5. ASSUME NEW r \in Runs, RunStep(r)
        PROVE  LiveIsExact'
    BY <1>4, <1>5, RunStepIsLocal
  <1> QED
    BY <1>1, <1>2, <1>3, <1>4, <1>5, StepsOfNext
    DEF RehearsalStarts, RehearsalEnds, ExamMoves, Boot, vars, queue

LEMMA InitIInv == Init => IInv
  <1> SUFFICES ASSUME Init PROVE IInv
    OBVIOUS
  <1>1. RunningJobs = {} /\ \A r \in Runs : ~Admitted(r) /\ pc[r] = "idle" /\ timer[r] = "off"
    BY DEF Init, RunningJobs, Admitted, AdmittedPcs, FlowPcs, SavePcs
  <1>2. CounterIsExact
    BY <1>1, FS_EmptySet DEF Init, CounterIsExact
  <1>3. TimerFollowsFlow
    BY <1>1 DEF TimerFollowsFlow, FlowPcs, SavePcs
  <1> QED
    BY <1>1, <1>2, <1>3, InitTypeOK
    DEF IInv, UnitsLeft, OccupantIsVisible, TestIsAlone, LiveIsExact

LEMMA StepIInv == IInv /\ [Next]_vars => IInv'
  BY TypeStep, UnitsLeftStep, TimerStep, VisibleStep, AloneStep, CounterStep, LiveStep DEF IInv

LEMMA SpecIInv == Spec => []IInv
  BY InitIInv, StepIInv, PTL DEF Spec

\* Every variable keeps its type.
THEOREM TypeCorrect == Spec => []TypeOK
  BY SpecIInv, PTL DEF IInv

\* A deployment test never shares the backend: acquireDeploy, the two leases and the drain together
\* keep judging, rehearsals and other tests out from its admission to the end of its flow.
THEOREM TestRunsAlone == Spec => []TestIsAlone
  BY SpecIInv, PTL DEF IInv

\* The coordinator's students counter is the number of running judging jobs.
THEOREM CounterNeverDrifts == Spec => []CounterIsExact
  BY SpecIInv, PTL DEF IInv

\* JudgeQueueService.start never runs two jobs of one student at once.
THEOREM NeverTwoJobsOfAStudent == Spec => []OneJobPerStudent
  <1>1. IInv => OneJobPerStudent
    BY DEF IInv, LiveIsExact, OneJobPerStudent, RunningJobs
  <1> QED BY <1>1, SpecIInv, PTL

--------------------------------------------------------------------------------
\* A run's step changes neither the exam nor whether calls may be rejected, nor brings the process up or down.
LEMMA RunStepKeepsWorld ==
  ASSUME TypeOK, NEW r \in Runs, RunStep(r)
  PROVE  dbFails' = dbFails /\ up' = up
  <1>1. CASE StartStep(r)
    BY <1>1 DEF StartStep, StartReadsLatest, StartReadsExam, StartAcquires, StartRechecksExam,
       StartPersists, StartFails, coordinator, queue
  <1>2. CASE FlowStep(r)
    BY <1>2 DEF FlowStep, SaveLands, SaveFails, Caught, ExamIsSeen, ProbeStarts, LevelStarts,
       LevelJoins, NextUnit, coordinator, queue
  <1>3. CASE UnitEnds(r) \/ ProbeThrows(r)
    BY <1>3 DEF UnitEnds, ProbeThrows, Caught, coordinator, queue
  <1>4. CASE DeadlineStep(r)
    BY <1>4 DEF DeadlineStep, FlowWins, DeadlineFires, DeadlineSaved, Drained, coordinator, queue
  <1>5. CASE WorkerMoves(r)
    BY <1>5, WorkersKeep
  <1> QED BY <1>1, <1>2, <1>3, <1>4, <1>5 DEF RunStep

\* Whatever is rejected in a level is rejected under dbFails.
LEMMA TornNeedsFaults ==
  ASSUME TypeOK, NEW r \in Runs, RunStep(r)
  PROVE  torn' = torn \/ (dbFails /\ torn' = torn \union {r})
  <1>1. CASE StartStep(r)
    BY <1>1 DEF StartStep, StartReadsLatest, StartReadsExam, StartAcquires, StartRechecksExam,
       StartPersists, StartFails, deployRuns, levels
  <1>2. CASE FlowStep(r)
    BY <1>2 DEF FlowStep, SaveLands, SaveFails, Caught, ExamIsSeen, ProbeStarts, LevelStarts,
       LevelJoins, NextUnit, deployRuns, levels
  <1>3. CASE UnitEnds(r) \/ ProbeThrows(r)
    BY <1>3 DEF UnitEnds, ProbeThrows, Caught, deployRuns, levels
  <1>4. CASE DeadlineStep(r)
    BY <1>4 DEF DeadlineStep, FlowWins, DeadlineFires, DeadlineSaved, Drained, deployRuns, levels
  <1>5. CASE WorkerMoves(r)
    BY <1>5 DEF WorkerMoves, WorkerStep, WorkerSeesExam, WorkerTakesJob, WorkerAnswers, WorkerSaveLands,
       WorkerSaveFails, MoveWorker
  <1> QED BY <1>1, <1>2, <1>3, <1>4, <1>5 DEF RunStep

LEMMA WritesLandStep == TypeOK /\ WritesLand /\ [Next]_vars => WritesLand'
  <1> SUFFICES ASSUME TypeOK, WritesLand, [Next]_vars PROVE WritesLand'
    OBVIOUS
  <1> USE DEF WritesLand
  <1>1. ASSUME NEW r \in Runs, RunStep(r)
        PROVE  WritesLand'
    <2> SUFFICES ASSUME ~dbFails PROVE pc'[r] # "leaked"
      BY <1>1, RunStepIsOwn, RunStepKeepsWorld, TornNeedsFaults
    <2> USE DEF TypeOK, Goto, SavePcs
    <2>1. CASE StartStep(r)
      BY <2>1 DEF StartStep, StartReadsLatest, StartReadsExam, StartAcquires, StartRechecksExam,
         StartPersists, StartFails
    <2>2. CASE FlowStep(r)
      BY <2>2 DEF FlowStep, SaveLands, SaveFails, Caught, ExamIsSeen, ProbeStarts, LevelStarts,
         LevelJoins, NextUnit
    <2>3. CASE UnitEnds(r) \/ ProbeThrows(r)
      BY <2>3 DEF UnitEnds, ProbeThrows, Caught
    <2>4. CASE DeadlineStep(r)
      BY <2>4 DEF DeadlineStep, FlowWins, DeadlineFires, DeadlineSaved, Drained
    <2>5. CASE WorkerMoves(r)
      BY <2>5, WorkersKeep
    <2> QED BY <1>1, <2>1, <2>2, <2>3, <2>4, <2>5 DEF RunStep
  <1>2. CASE UNCHANGED <<dbFails, pc, torn>>
    BY <1>2
  <1>3. CASE Crash
    BY <1>3 DEF Crash
  <1> QED
    BY <1>1, <1>2, <1>3, StepsOfNext DEF StartJudging, JobEnds, RehearsalStarts, RehearsalEnds, ExamMoves,
       Boot, vars, deployRuns, levels

\* Where a run's step leaves its own workers: a level starts with all of them, no other step of the
\* flow touches them, and none of them comes back to work.
LEMMA WorkersOfStep ==
  ASSUME TypeOK, NEW r \in Runs, RunStep(r)
  PROVE  LevelStarts(r) \/ (AtWork(r)' => AtWork(r))
  <1> USE DEF TypeOK, AtWork
  <1>1. CASE StartStep(r)
    BY <1>1 DEF StartStep, StartReadsLatest, StartReadsExam, StartAcquires, StartRechecksExam,
       StartPersists, StartFails, deployRuns, levels
  <1>2. CASE FlowStep(r)
    BY <1>2 DEF FlowStep, SaveLands, SaveFails, Caught, ExamIsSeen, ProbeStarts, LevelStarts,
       LevelJoins, NextUnit, deployRuns, levels
  <1>3. CASE UnitEnds(r) \/ ProbeThrows(r)
    BY <1>3 DEF UnitEnds, ProbeThrows, Caught, deployRuns, levels
  <1>4. CASE DeadlineStep(r)
    BY <1>4 DEF DeadlineStep, FlowWins, DeadlineFires, DeadlineSaved, Drained, deployRuns, levels
  <1>5. CASE WorkerMoves(r)
    BY <1>5 DEF WorkerMoves, WorkerStep, WorkerSeesExam, WorkerTakesJob, WorkerAnswers, WorkerSaveLands,
       WorkerSaveFails, MoveWorker
  <1> QED BY <1>1, <1>2, <1>3, <1>4, <1>5 DEF RunStep

LEMMA InLevelStep == TypeOK /\ WorkersInLevel /\ [Next]_vars => WorkersInLevel'
  <1> SUFFICES ASSUME TypeOK, WorkersInLevel, [Next]_vars PROVE WorkersInLevel'
    OBVIOUS
  <1> USE DEF WorkersInLevel
  <1>1. ASSUME NEW r \in Runs, RunStep(r)
        PROVE  WorkersInLevel'
    <2> DEFINE Place == pc[r] = "level" \/ (r \in torn /\ pc[r] \in {"saveFailed", "done", "over"})
    <2>1. ASSUME NEW q \in Runs, q # r, AtWork(q)'
          PROVE  pc'[q] = "level" \/ (q \in torn' /\ pc'[q] \in {"saveFailed", "done", "over"})
      BY <1>1, <2>1, RunStepIsOwn DEF AtWork
    <2> SUFFICES ASSUME AtWork(r)' PROVE Place'
      BY <2>1
    <2>2. LevelStarts(r) \/ Place
      BY <1>1, WorkersOfStep
    <2> USE DEF TypeOK, Goto
    <2>3. CASE StartStep(r)
      BY <2>2, <2>3 DEF StartStep, StartReadsLatest, StartReadsExam, StartAcquires, StartRechecksExam,
         StartPersists, StartFails, LevelStarts
    <2>4. CASE LevelStarts(r)
      BY <2>4 DEF LevelStarts
    <2>5. CASE LevelJoins(r)
      BY <2>2, <2>5 DEF LevelJoins, LevelStarts, AtWork, levels
    <2>6. CASE SaveLands(r) \/ SaveFails(r) \/ ExamIsSeen(r) \/ ProbeStarts(r)
      BY <2>2, <2>6 DEF SaveLands, SaveFails, ExamIsSeen, ProbeStarts, Caught, LevelStarts, SavePcs, levels
    <2>7. CASE UnitEnds(r) \/ ProbeThrows(r)
      BY <2>2, <2>7 DEF UnitEnds, ProbeThrows, LevelStarts
    <2>8. CASE DeadlineStep(r)
      BY <2>2, <2>8 DEF DeadlineStep, FlowWins, DeadlineFires, DeadlineSaved, Drained, LevelStarts, levels
    <2>9. CASE WorkerMoves(r)
      <3>1. PICK w \in Workers : WorkerStep(r, w) \/ WorkerAnswers(r, w)
        BY <2>9 DEF WorkerMoves
      <3>2. CASE WorkerSaveFails(r, w)
        BY <2>2, <3>2 DEF WorkerSaveFails, Caught, LevelStarts
      <3>3. CASE ~WorkerSaveFails(r, w)
        BY <2>2, <3>1, <3>3 DEF WorkerStep, WorkerSeesExam, WorkerTakesJob, WorkerAnswers, WorkerSaveLands,
           LevelStarts
      <3> QED BY <3>2, <3>3
    <2> QED BY <1>1, <2>3, <2>4, <2>5, <2>6, <2>7, <2>8, <2>9 DEF RunStep, FlowStep
  <1>2. CASE UNCHANGED <<workers, pc, torn>>
    BY <1>2 DEF AtWork
  <1>3. CASE Crash
    BY <1>3 DEF Crash, AtWork
  <1> QED
    BY <1>1, <1>2, <1>3, StepsOfNext DEF StartJudging, JobEnds, RehearsalStarts, RehearsalEnds, ExamMoves,
       Boot, vars, deployRuns, levels

LEMMA OwnerStep ==
  TypeOK /\ TimerFollowsFlow /\ LeaseHasOwnerIfDbWrites /\ [Next]_vars => LeaseHasOwnerIfDbWrites'
  <1> SUFFICES ASSUME TypeOK, TimerFollowsFlow, LeaseHasOwnerIfDbWrites, [Next]_vars,
                      ~dbFails', deploy'
               PROVE  LeaseHasOwner'
    BY DEF LeaseHasOwnerIfDbWrites, LeaseHasOwner
  <1> DEFINE Owner(r) == Admitted(r) /\ pc[r] # "leaked" /\ timer[r] # "draining"
  <1>1. ASSUME NEW r \in Runs, RunStep(r)
        PROVE  LeaseHasOwner'
    <2>0. ~dbFails
      BY <1>1, RunStepKeepsWorld
    <2> USE DEF TypeOK, Goto, Admitted, AdmittedPcs, FlowPcs, SavePcs
    <2>1. (~deploy \/ Owner(r)) => Owner(r)'
      <3>1. CASE StartStep(r)
        BY <3>1 DEF StartStep, StartReadsLatest, StartReadsExam, StartAcquires, StartRechecksExam,
           StartPersists, StartFails, TimerFollowsFlow, coordinator, deployRuns
      <3>2. CASE FlowStep(r)
        BY <3>2 DEF FlowStep, SaveLands, SaveFails, Caught, ExamIsSeen, ProbeStarts, LevelStarts,
           LevelJoins, NextUnit, TimerFollowsFlow, coordinator, deployRuns
      <3>3. CASE UnitEnds(r) \/ ProbeThrows(r)
        BY <3>3 DEF UnitEnds, ProbeThrows, Caught, TimerFollowsFlow, coordinator, deployRuns
      <3>4. CASE DeadlineStep(r)
        BY <3>4 DEF DeadlineStep, FlowWins, DeadlineFires, DeadlineSaved, Drained, TimerFollowsFlow,
           coordinator, deployRuns
      <3>5. CASE WorkerMoves(r)
        BY <2>0, <3>5, WorkersKeep
      <3> QED BY <1>1, <3>1, <3>2, <3>3, <3>4, <3>5 DEF RunStep
    <2>2. ASSUME NEW q \in Runs, q # r, Owner(q) PROVE Owner(q)'
      BY <1>1, <2>2, RunStepIsOwn
    <2> QED BY <2>0, <2>1, <2>2 DEF LeaseHasOwnerIfDbWrites, LeaseHasOwner
  <1>2. CASE UNCHANGED <<dbFails, deploy, pc, timer>>
    BY <1>2 DEF LeaseHasOwnerIfDbWrites, LeaseHasOwner, Admitted
  <1>3. CASE Crash
    BY <1>3 DEF Crash
  <1> QED
    BY <1>1, <1>2, <1>3, StepsOfNext DEF StartJudging, JobEnds, RehearsalStarts, RehearsalEnds, ExamMoves,
       Boot, vars, deployRuns, levels, coordinator

LEMMA DownStep == TypeOK /\ DownIsQuiet /\ [Next]_vars => DownIsQuiet'
  <1> SUFFICES ASSUME TypeOK, DownIsQuiet, [Next]_vars PROVE DownIsQuiet'
    OBVIOUS
  <1> USE DEF DownIsQuiet
  <1>1. ASSUME NEW r \in Runs, RunStep(r)
        PROVE  DownIsQuiet'
    <2> SUFFICES ASSUME ~up, pc[r] \in {"idle", "over"} PROVE pc'[r] \in {"idle", "over"}
      BY <1>1, RunStepIsOwn, RunStepKeepsWorld
    <2> USE DEF TypeOK, Goto, SavePcs
    <2>1. CASE StartStep(r)
      BY <2>1 DEF StartStep, StartReadsLatest, StartReadsExam, StartAcquires, StartRechecksExam,
         StartPersists, StartFails
    <2>2. CASE FlowStep(r)
      BY <2>2 DEF FlowStep, SaveLands, SaveFails, Caught, ExamIsSeen, ProbeStarts, LevelStarts,
         LevelJoins, NextUnit
    <2>3. CASE UnitEnds(r) \/ ProbeThrows(r)
      BY <2>3 DEF UnitEnds, ProbeThrows, Caught
    <2>4. CASE DeadlineStep(r)
      BY <2>4 DEF DeadlineStep, FlowWins, DeadlineFires, DeadlineSaved, Drained
    <2>5. CASE WorkerMoves(r)
      BY <2>5, WorkersKeep
    <2> QED BY <1>1, <2>1, <2>2, <2>3, <2>4, <2>5 DEF RunStep
  <1>2. CASE UNCHANGED pc /\ (up' = up \/ up')
    BY <1>2
  <1>3. CASE Crash
    BY <1>3 DEF Crash
  <1> QED
    BY <1>1, <1>2, <1>3, StepsOfNext DEF StartJudging, JobEnds, RehearsalStarts, RehearsalEnds, ExamMoves,
       Boot, vars, deployRuns, levels

LEMMA DeadlineLastStep == TypeOK /\ DeadlineIsLast /\ TimerFollowsFlow /\ [Next]_vars => DeadlineIsLast'
  <1> SUFFICES ASSUME TypeOK, DeadlineIsLast, TimerFollowsFlow, [Next]_vars PROVE DeadlineIsLast'
    OBVIOUS
  <1> USE DEF DeadlineIsLast
  <1>1. ASSUME NEW r \in Runs, RunStep(r)
        PROVE  DeadlineIsLast'
    <2> DEFINE Last == /\ timer[r] \in {"freezing", "draining"} => frozen[r]
                       /\ timer[r] = "draining" => pc[r] \notin SavePcs /\ \A w \in Workers : workers[r][w] # "saves"
    <2>0. Last
      OBVIOUS
    <2> SUFFICES Last'
      BY <1>1, RunStepIsOwn
    <2> USE DEF TypeOK, Goto, SavePcs
    <2>1. CASE StartStep(r)
      BY <2>0, <2>1 DEF StartStep, StartReadsLatest, StartReadsExam, StartAcquires, StartRechecksExam,
         StartPersists, StartFails, levels
    <2>2. CASE SaveLands(r) \/ SaveFails(r) \/ ExamIsSeen(r) \/ ProbeStarts(r)
      BY <2>0, <2>2 DEF SaveLands, SaveFails, ExamIsSeen, ProbeStarts, Caught, levels
    <2>3. CASE LevelStarts(r) \/ LevelJoins(r)
      <3>1. UNCHANGED <<timer, frozen>> /\ (timer[r] = "draining" => pc'[r] \in {"level", "done"})
        BY <2>0, <2>3 DEF LevelStarts, LevelJoins
      <3>2. workers' = workers \/ (frozen[r] => \A w \in Workers : workers'[r][w] = "out")
        <4>1. CASE LevelStarts(r)
          <5>1. workers' = [workers EXCEPT ![r] = [w \in Workers |-> IF frozen[r] THEN "out" ELSE "looks"]]
            BY <4>1 DEF LevelStarts
          <5>2. frozen[r] => workers'[r] = [w \in Workers |-> "out"]
            BY <5>1
          <5> QED BY <5>2
        <4>2. CASE LevelJoins(r)
          BY <4>2 DEF LevelJoins, levels
        <4> QED BY <2>3, <4>1, <4>2
      <3> QED BY <2>0, <3>1, <3>2
    <2>4. CASE UnitEnds(r) \/ ProbeThrows(r)
      BY <2>0, <2>4 DEF UnitEnds, ProbeThrows, Caught, levels
    <2>5. CASE DeadlineStep(r)
      BY <2>0, <2>5 DEF DeadlineStep, FlowWins, DeadlineFires, DeadlineSaved, Drained, levels
    <2>6. CASE WorkerMoves(r)
      <3>1. PICK w \in Workers : WorkerStep(r, w) \/ WorkerAnswers(r, w)
        BY <2>6 DEF WorkerMoves
      <3>2. frozen[r] => frozen'[r]
        BY <3>1 DEF WorkerStep, WorkerSeesExam, WorkerTakesJob, WorkerAnswers, WorkerSaveLands, WorkerSaveFails
      <3>3. ASSUME timer[r] = "draining" PROVE \A v \in Workers : workers'[r][v] # "saves"
        <4>1. frozen[r] /\ \A v \in Workers : workers[r][v] # "saves"
          BY <2>0, <3>3
        <4>2. PICK place \in {"out", "exec", "looks"} : MoveWorker(r, w, place)
          BY <3>1, <4>1 DEF WorkerStep, WorkerSeesExam, WorkerTakesJob, WorkerAnswers, WorkerSaveLands, WorkerSaveFails
        <4> QED BY <4>1, <4>2 DEF MoveWorker
      <3>4. ASSUME timer[r] = "draining" PROVE pc'[r] \notin SavePcs
        BY <2>0, <2>6, <3>4, WorkersKeep DEF Caught
      <3> QED BY <2>0, <2>6, <3>2, <3>3, <3>4, WorkersKeep
    <2> QED BY <1>1, <2>1, <2>2, <2>3, <2>4, <2>5, <2>6 DEF RunStep, FlowStep
  <1>2. CASE UNCHANGED <<pc, timer, frozen, workers>>
    BY <1>2
  <1>3. CASE Crash
    BY <1>3 DEF Crash
  <1> QED
    BY <1>1, <1>2, <1>3, StepsOfNext DEF StartJudging, JobEnds, RehearsalStarts, RehearsalEnds, ExamMoves,
       Boot, vars, deployRuns, levels

\* Who writes the report, and what: the start of a run, a save of its flow or of a worker, or its deadline.
LEMMA WhoReports ==
  ASSUME TypeOK, NEW r \in Runs, RunStep(r)
  PROVE  \/ report' = report
         \/ StartPersists(r) \/ SaveLands(r) \/ DeadlineSaved(r) \/ \E w \in Workers : WorkerSaveLands(r, w)
  <1>1. CASE StartStep(r)
    BY <1>1 DEF StartStep, StartReadsLatest, StartReadsExam, StartAcquires, StartRechecksExam,
       StartPersists, StartFails
  <1>2. CASE FlowStep(r)
    BY <1>2 DEF FlowStep, SaveLands, SaveFails, Caught, ExamIsSeen, ProbeStarts, LevelStarts,
       LevelJoins, NextUnit
  <1>3. CASE UnitEnds(r) \/ ProbeThrows(r)
    BY <1>3 DEF UnitEnds, ProbeThrows, Caught
  <1>4. CASE DeadlineStep(r)
    BY <1>4 DEF DeadlineStep, FlowWins, DeadlineFires, DeadlineSaved, Drained
  <1>5. CASE WorkerMoves(r)
    BY <1>5 DEF WorkerMoves, WorkerStep, WorkerSeesExam, WorkerTakesJob, WorkerAnswers, WorkerSaveLands,
       WorkerSaveFails, MoveWorker
  <1> QED BY <1>1, <1>2, <1>3, <1>4, <1>5 DEF RunStep

LEMMA ReportsItsOwn ==
  ASSUME TypeOK, NEW r \in Runs, RunStep(r), report' # report
  PROVE  report'.run = r /\ (StartPersists(r) \/ report'.units = units[r])
  <1>1. CASE StartPersists(r)
    BY <1>1 DEF StartPersists
  <1>2. CASE SaveLands(r)
    BY <1>2 DEF SaveLands
  <1>3. CASE DeadlineSaved(r)
    BY <1>3 DEF DeadlineSaved
  <1>4. CASE \E w \in Workers : WorkerSaveLands(r, w)
    BY <1>4 DEF WorkerSaveLands
  <1> QED BY <1>1, <1>2, <1>3, <1>4, WhoReports

LEMMA ReportStep ==
  TypeOK /\ UnitsLeft /\ TimerFollowsFlow /\ WorkersInLevel /\ DeadlineIsLast /\ DownIsQuiet /\ ReportFollowsRun /\ [Next]_vars
    => ReportFollowsRun'
  <1> SUFFICES ASSUME TypeOK, UnitsLeft, TimerFollowsFlow, WorkersInLevel, DeadlineIsLast, DownIsQuiet, ReportFollowsRun,
                      [Next]_vars
               PROVE  ReportFollowsRun'
    OBVIOUS
  <1> USE DEF ReportFollowsRun
  <1>1. ASSUME NEW r \in Runs, RunStep(r)
        PROVE  ReportFollowsRun'
    <2> DEFINE Final == \/ r \in torn \/ pc[r] \in {"done", "over"} \/ timer[r] = "draining"
                        \/ pc[r] = "level" /\ frozen[r] /\ report.state = "examStarted" /\ report.units = units[r]
               Follows == report.run = r =>
                            /\ pc[r] \notin {"idle", "leaked"} \union StartPcs
                            /\ report.units <= units[r]
                            /\ report.state \in Terminal => Final
    <2>1. Follows
      OBVIOUS
    <2>2. report' = report \/ report'.run = r
      BY <1>1, ReportsItsOwn
    <2> USE DEF TypeOK, Goto, StartPcs, SavePcs
    <2>3. Follows'
      <3>1. CASE StartPersists(r)
        BY <3>1, UnitsNat DEF StartPersists, Terminal
      <3>2. CASE StartReadsLatest(r) \/ StartReadsExam(r) \/ StartAcquires(r) \/ StartRechecksExam(r)
                   \/ StartFails(r)
        BY <2>1, <3>2 DEF StartReadsLatest, StartReadsExam, StartAcquires, StartRechecksExam, StartFails
      <3>3. CASE SaveLands(r)
        <4>1. report' = [run |-> r, state |-> Saved(pc[r]), units |-> units[r]] /\ UNCHANGED units
          BY <3>3 DEF SaveLands
        <4>2. pc'[r] = IF pc[r] \in {"saveRunning", "saveUnit"} THEN NextUnit(r) ELSE "done"
          BY <3>3 DEF SaveLands
        <4>3. pc'[r] \notin {"idle", "leaked"} \union StartPcs
          BY <4>2, <3>3 DEF SaveLands, NextUnit
        <4>4. Saved(pc[r]) \in Terminal => pc'[r] = "done"
          BY <4>2, <3>3 DEF SaveLands, Saved, Terminal
        <4>5. units[r] <= units[r]
          BY UnitsNat
        <4> QED BY <4>1, <4>3, <4>4, <4>5
      <3>4. CASE SaveFails(r) \/ ExamIsSeen(r) \/ ProbeStarts(r)
        <4>1. pc[r] \in SavePcs \union {"check"} /\ UNCHANGED <<report, units, timer, frozen, torn>>
          BY <3>4 DEF SaveFails, ExamIsSeen, ProbeStarts, levels
        <4>2. pc'[r] \in {"saveFailed", "saveExam", "done", "exec"}
          BY <3>4 DEF SaveFails, ExamIsSeen, ProbeStarts, Caught
        <4>3. Final => Final'
          BY <4>1
        <4> QED BY <2>1, <4>1, <4>2, <4>3
      <3>5. CASE LevelStarts(r)
        BY <2>1, <3>5 DEF LevelStarts
      <3>6. CASE UnitEnds(r) \/ LevelJoins(r)
        <4>1. pc'[r] \in {"done", "saveUnit"} /\ UNCHANGED <<report, timer, frozen, torn>>
          BY <3>6 DEF UnitEnds, LevelJoins, levels
        <4>2. frozen[r] => pc'[r] = "done"
          BY <3>6 DEF UnitEnds, LevelJoins
        <4>3. units'[r] = units[r] \/ units'[r] = units[r] + 1
          BY <3>6 DEF UnitEnds, LevelJoins
        <4>4. report.run = r => report.units <= units'[r]
          BY <2>1, <4>3, UnitsNat DEF Reports
        <4>5. pc[r] \in {"exec", "level"}
          BY <3>6 DEF UnitEnds, LevelJoins
        <4>6. Final => Final'
          BY <4>1, <4>2, <4>5
        <4> QED BY <2>1, <4>1, <4>4, <4>6
      <3>7. CASE ProbeThrows(r)
        BY <2>1, <3>7 DEF ProbeThrows, Caught, levels
      <3>8. CASE FlowWins(r) \/ DeadlineFires(r) \/ Drained(r)
        BY <2>1, <3>8 DEF FlowWins, DeadlineFires, Drained, levels
      <3>9. CASE DeadlineSaved(r)
        BY <2>1, <3>9, UnitsNat DEF DeadlineSaved, Terminal, TimerFollowsFlow, FlowPcs
      <3>10. CASE WorkerMoves(r)
        <4>1. PICK w \in Workers : WorkerStep(r, w) \/ WorkerAnswers(r, w)
          BY <3>10 DEF WorkerMoves
        <4>2. CASE WorkerSaveLands(r, w)
          <5>1. AtWork(r)
            BY <4>2 DEF WorkerSaveLands, AtWork
          <5>2. report' = [run |-> r, state |-> "examStarted", units |-> units[r]] /\ UNCHANGED <<pc, units, torn>>
                /\ frozen'[r] = TRUE
            BY <4>2 DEF WorkerSaveLands
          <5>3. r \in torn \/ pc[r] = "level"
            BY <5>1 DEF WorkersInLevel
          <5>4. pc[r] \notin {"idle", "leaked"} \union StartPcs
            BY <5>1 DEF WorkersInLevel
          <5>5. units[r] <= units[r]
            BY UnitsNat
          <5> QED BY <5>2, <5>3, <5>4, <5>5
        <4>3. CASE WorkerSaveFails(r, w)
          <5>1. UNCHANGED <<report, units>> /\ r \in torn'
            BY <4>3 DEF WorkerSaveFails
          <5>2. pc'[r] = pc[r] \/ pc'[r] \in {"done", "saveFailed"}
            BY <3>10, WorkersKeep DEF Caught
          <5> QED BY <2>1, <5>1, <5>2
        <4>4. CASE WorkerSeesExam(r, w) \/ WorkerTakesJob(r, w) \/ WorkerAnswers(r, w)
          BY <2>1, <4>4 DEF WorkerSeesExam, WorkerTakesJob, WorkerAnswers
        <4> QED BY <4>1, <4>2, <4>3, <4>4 DEF WorkerStep
      <3> QED BY <1>1, <3>1, <3>2, <3>3, <3>4, <3>5, <3>6, <3>7, <3>8, <3>9, <3>10
              DEF RunStep, StartStep, FlowStep, DeadlineStep
    <2> QED BY <1>1, <2>2, <2>3, RunStepIsOwn
  <1>2. CASE UNCHANGED <<pc, timer, frozen, units, torn, report>>
    BY <1>2
  <1>3. CASE Crash
    BY <1>3 DEF Crash, StartPcs
  <1>4. CASE Boot
    BY <1>4 DEF Boot, DownIsQuiet, deployRuns, levels, TypeOK, Reports
  <1> QED
    BY <1>1, <1>2, <1>3, <1>4, StepsOfNext DEF StartJudging, JobEnds, RehearsalStarts, RehearsalEnds, ExamMoves,
       vars, deployRuns, levels

\* A run that writes a report is admitted, or one of its workers was abandoned.
LEMMA WritersAreAdmitted ==
  ASSUME TypeOK, TimerFollowsFlow, WorkersInLevel, NEW r \in Runs, RunStep(r), report' # report
  PROVE  (pc[r] = "persist" /\ report'.state = "queued") \/ pc[r] \in FlowPcs \/ r \in torn
  <1>1. CASE StartPersists(r)
    BY <1>1 DEF StartPersists
  <1>2. CASE SaveLands(r)
    BY <1>2 DEF SaveLands, FlowPcs
  <1>3. CASE DeadlineSaved(r)
    BY <1>3 DEF DeadlineSaved, TimerFollowsFlow
  <1>4. CASE \E w \in Workers : WorkerSaveLands(r, w)
    <2>1. AtWork(r)
      BY <1>4 DEF WorkerSaveLands, AtWork
    <2> QED BY <2>1 DEF WorkersInLevel, FlowPcs
  <1> QED BY <1>1, <1>2, <1>3, <1>4, WhoReports

LEMMA OwnReportStep ==
  IInv /\ WorkersInLevel /\ OwnReport /\ [Next]_vars => OwnReport'
  <1> SUFFICES ASSUME IInv, WorkersInLevel, OwnReport, [Next]_vars PROVE OwnReport'
    OBVIOUS
  <1> USE DEF OwnReport, IInv
  <1>1. ASSUME NEW r \in Runs, RunStep(r)
        PROVE  OwnReport'
    <2>0. torn \subseteq torn'
      BY <1>1, TornNeedsFaults
    <2>1. report' = report \/ report'.run = r
      BY <1>1, ReportsItsOwn
    <2>2. ASSUME NEW q \in Runs, q # r, pc'[q] \in FlowPcs PROVE report'.run = q \/ report'.run \in torn'
      <3>1. pc[q] \in FlowPcs
        BY <1>1, <2>2, RunStepIsOwn
      <3>2. CASE report' = report
        BY <2>0, <3>1, <3>2
      <3>3. CASE report' # report
        <4>1. ~Admitted(r)
          BY <2>2, <3>1 DEF TestIsAlone, Admitted, AdmittedPcs
        <4>2. r \in torn
          BY <1>1, <3>3, <4>1, WritersAreAdmitted DEF Admitted, AdmittedPcs
        <4> QED BY <2>0, <2>1, <3>3, <4>2
      <3> QED BY <3>2, <3>3
    <2>3. ASSUME pc'[r] \in FlowPcs PROVE report'.run = r \/ report'.run \in torn'
      <3>1. CASE report'.run = r
        BY <3>1
      <3>2. CASE report' = report /\ pc[r] \in FlowPcs
        BY <2>0, <3>2
      <3>3. CASE report' = report /\ report.run # r /\ pc[r] \notin FlowPcs
        <4> USE DEF TypeOK, Goto, FlowPcs, SavePcs
        <4>1. CASE StartStep(r)
          BY <2>3, <3>3, <4>1 DEF StartStep, StartReadsLatest, StartReadsExam, StartAcquires, StartRechecksExam,
             StartPersists, StartFails
        <4>2. CASE FlowStep(r)
          BY <3>3, <4>2 DEF FlowStep, SaveLands, SaveFails, ExamIsSeen, ProbeStarts, LevelStarts, LevelJoins
        <4>3. CASE UnitEnds(r) \/ ProbeThrows(r)
          BY <3>3, <4>3 DEF UnitEnds, ProbeThrows
        <4>4. CASE DeadlineStep(r)
          BY <2>3, <3>3, <4>4 DEF DeadlineStep, FlowWins, DeadlineFires, DeadlineSaved, Drained
        <4>5. CASE WorkerMoves(r)
          BY <2>3, <3>3, <4>5, WorkersKeep
        <4> QED BY <1>1, <4>1, <4>2, <4>3, <4>4, <4>5 DEF RunStep
      <3> QED BY <2>1, <3>1, <3>2, <3>3
    <2> QED BY <2>2, <2>3
  <1>2. CASE UNCHANGED <<pc, torn, report>>
    BY <1>2
  <1>3. CASE Crash
    BY <1>3 DEF Crash, FlowPcs, SavePcs
  <1>4. CASE Boot
    BY <1>4 DEF Boot, deployRuns, levels, TypeOK, Reports
  <1> QED
    BY <1>1, <1>2, <1>3, <1>4, StepsOfNext DEF StartJudging, JobEnds, RehearsalStarts, RehearsalEnds, ExamMoves,
       vars, deployRuns, levels

--------------------------------------------------------------------------------
LEMMA InitIInv2 == Init => IInv2
  <1> SUFFICES ASSUME Init PROVE IInv2
    OBVIOUS
  <1>1. WritesLand /\ LeaseHasOwnerIfDbWrites /\ DownIsQuiet
    BY DEF Init, WritesLand, LeaseHasOwnerIfDbWrites, LeaseHasOwner, DownIsQuiet
  <1>2. ReportFollowsRun /\ OwnReport
    BY NoneAssumption DEF Init, ReportFollowsRun, OwnReport, FlowPcs, SavePcs
  <1>3. WorkersInLevel /\ DeadlineIsLast
    BY DEF Init, WorkersInLevel, AtWork, DeadlineIsLast
  <1> QED BY <1>1, <1>2, <1>3, InitIInv DEF IInv2

LEMMA StepIInv2 == IInv2 /\ [Next]_vars => IInv2'
  BY StepIInv, WritesLandStep, InLevelStep, OwnerStep, DownStep, DeadlineLastStep, ReportStep, OwnReportStep
     DEF IInv2, IInv

LEMMA SpecIInv2 == Spec => []IInv2
  BY InitIInv2, StepIInv2, PTL DEF Spec

\* If no database write is rejected, a taken deploy lease has a request or a run that will return it:
\* the refusals inside start() and the three ways executeWithDeadline ends all give it back.
THEOREM LeaseIsNeverOrphaned == Spec => []LeaseHasOwnerIfDbWrites
  BY SpecIInv2, PTL DEF IInv2

\* Executions inside Piston, the flow's and its workers', keep the coordinator closed: neither the
\* race with the deadline nor the drain hands the lease back too soon, unless a level was torn.
THEOREM LeaseOutlivesExecutions == Spec => []NoEarlyRelease
  <1>1. IInv2 => NoEarlyRelease
    <2> SUFFICES ASSUME IInv2, NEW r \in Runs \ torn,
                        pc[r] = "exec" \/ \E w \in Workers : workers[r][w] = "exec"
                 PROVE  deploy \/ draining
      BY DEF NoEarlyRelease
    <2>1. pc[r] = "exec" \/ AtWork(r)
      BY DEF AtWork
    <2>2. Admitted(r)
      BY <2>1 DEF IInv2, WorkersInLevel, Admitted, AdmittedPcs, FlowPcs, SavePcs
    <2> QED BY <2>2 DEF IInv2, IInv, OccupantIsVisible
  <1> QED BY <1>1, SpecIInv2, PTL

\* A save that reports a run which has a terminal report changes nothing, unless a level was torn.
LEMMA SavesAreLate ==
  ASSUME IInv2, NEW r \in Runs, RunStep(r), report.run = r, report.state \in Terminal, r \notin torn,
         report' # report
  PROVE  report'.state = "deadlineExceeded"
  <1> USE DEF IInv2, IInv, ReportFollowsRun
  <1>1. CASE StartPersists(r)
    BY <1>1 DEF StartPersists, StartPcs
  <1>2. CASE SaveLands(r)
    BY <1>2 DEF SaveLands, SavePcs, DeadlineIsLast
  <1>3. CASE DeadlineSaved(r)
    BY <1>3 DEF DeadlineSaved
  <1>4. ASSUME NEW w \in Workers, WorkerSaveLands(r, w) PROVE FALSE
    <2>1. AtWork(r)
      BY <1>4 DEF WorkerSaveLands, AtWork
    <2>2. pc[r] = "level" /\ timer[r] # "draining"
      BY <1>4, <2>1 DEF WorkersInLevel, WorkerSaveLands, DeadlineIsLast
    <2>3. report.state = "examStarted" /\ report.units = units[r]
      BY <2>2
    <2>4. report' = [run |-> r, state |-> "examStarted", units |-> units[r]]
      BY <1>4 DEF WorkerSaveLands
    <2> QED BY <2>3, <2>4 DEF TypeOK, Reports
  <1> QED BY <1>1, <1>2, <1>3, <1>4, WhoReports

\* A stored terminal report is only ever replaced by its own deadline and never loses counted work, and no
\* run writes over another's but by being accepted; only the abandoned workers of a torn level do otherwise.
THEOREM ReportsAreFinal == Spec => OnlyDeadlineRewrites
  <1> DEFINE Keeps ==
        /\ report.run # None /\ report'.run = report.run =>
             /\ report'.units >= report.units
             /\ report.state \in Terminal =>
                  report' = report \/ report'.state = "deadlineExceeded" \/ report.run \in torn
        /\ report'.run # report.run =>
             report'.state = "queued" \/ report.run \in torn \/ report'.run \in torn
  <1>1. IInv2 /\ [Next]_vars => [Keeps]_report
    <2> SUFFICES ASSUME IInv2, [Next]_vars, report' # report PROVE Keeps
      OBVIOUS
    <2> USE DEF IInv2, IInv
    <2>1. ASSUME NEW r \in Runs, RunStep(r) PROVE Keeps
      <3>1. report'.run = r /\ (StartPersists(r) \/ report'.units = units[r])
        BY <2>1, ReportsItsOwn
      <3>2. ASSUME report.run = r PROVE report'.units >= report.units
        <4>1. ~StartPersists(r)
          BY <3>2 DEF ReportFollowsRun, StartPersists, StartPcs
        <4>2. units[r] >= report.units
          BY <3>2, UnitsNat DEF ReportFollowsRun, TypeOK, Reports
        <4> QED BY <3>1, <4>1, <4>2
      <3>3. ASSUME report.run = r, report.state \in Terminal, r \notin torn PROVE report'.state = "deadlineExceeded"
        BY <2>1, <3>3, SavesAreLate
      <3>4. ASSUME report.run # r PROVE report'.state = "queued" \/ report.run \in torn \/ r \in torn
        BY <2>1, <3>4, WritersAreAdmitted DEF OwnReport
      <3> QED BY <3>1, <3>2, <3>3, <3>4
    <2>2. CASE Boot
      <3>1. Unfinished(report) /\ report' = [report EXCEPT !.state = "processRestart"]
        BY <2>2 DEF Boot
      <3>2. report.state \notin Terminal
        BY <3>1 DEF Unfinished, Terminal
      <3>3. report'.units = report.units /\ report'.run = report.run /\ report.units \in Nat
        BY <3>1, UnitsNat DEF TypeOK, Reports
      <3> QED BY <3>2, <3>3
    <2> QED
      BY <2>1, <2>2, StepsOfNext DEF StartJudging, JobEnds, RehearsalStarts, RehearsalEnds, ExamMoves, Crash,
         vars
  <1> QED BY <1>1, SpecIInv2, PTL DEF Spec, OnlyDeadlineRewrites

--------------------------------------------------------------------------------
\* Every step of the coordinator, the queue and the deployment tests is a step of ExclusiveBackend.
LEMMA BackendStep == IInv2 /\ [Next]_vars => [Backend!Next]_(Backend!vars)
  <1> SUFFICES ASSUME IInv2, [Next]_vars PROVE [Backend!Next]_(Backend!vars)
    OBVIOUS
  <1> DEFINE Testing == {r \in Runs : Admitted(r)}
             Left == {r \in Runs : Abandoned(r)}
  <1> USE DEF IInv2, IInv
  <1>1. ASSUME NEW s \in Students, StartJudging(s) PROVE Backend!Next
    <2>1. PICK j \in Jobs : jobs[j] = "new" /\ jobs' = [jobs EXCEPT ![j] = "running"]
      BY <1>1 DEF StartJudging
    <2>2. j \notin RunningJobs /\ RunningJobs' = RunningJobs \union {j}
      BY <2>1 DEF RunningJobs, TypeOK
    <2>3. Testing = {} /\ Testing' = Testing /\ Left' = Left /\ UNCHANGED <<rehearsal, dbFails>>
      BY <1>1, NoLeaseNoOccupant DEF StartJudging, MayJudge, Admitted, Abandoned, AtWork, deployRuns, levels
    <2> QED BY <2>2, <2>3 DEF Backend!Next, Backend!JudgingEnters
  <1>2. ASSUME NEW j \in Jobs, JobEnds(j) PROVE Backend!Next
    <2>1. j \in RunningJobs /\ RunningJobs' = RunningJobs \ {j}
      BY <1>2 DEF JobEnds, RunningJobs, TypeOK
    <2>2. Testing' = Testing /\ Left' = Left /\ UNCHANGED <<rehearsal, dbFails>>
      BY <1>2 DEF JobEnds, Admitted, Abandoned, AtWork, deployRuns, levels
    <2> QED BY <2>1, <2>2 DEF Backend!Next, Backend!JudgingLeaves
  <1>3. CASE RehearsalStarts
    <2>1. Testing = {} /\ Testing' = Testing /\ Left' = Left /\ RunningJobs' = RunningJobs /\ UNCHANGED dbFails
      BY <1>3, NoLeaseNoOccupant DEF RehearsalStarts, MayRehearse, Admitted, Abandoned, AtWork, RunningJobs,
         deployRuns, levels, queue
    <2>2. RunningJobs = {}
      BY <1>3, RunningIsFinite, FS_EmptySet DEF RehearsalStarts, MayRehearse, CounterIsExact
    <2> QED BY <1>3, <2>1, <2>2 DEF Backend!Next, Backend!RehearsalEnters, RehearsalStarts, MayRehearse
  <1>4. CASE RehearsalEnds
    <2>1. Testing' = Testing /\ Left' = Left /\ RunningJobs' = RunningJobs /\ UNCHANGED dbFails
      BY <1>4 DEF RehearsalEnds, Admitted, Abandoned, AtWork, RunningJobs, deployRuns, levels, queue
    <2> QED BY <1>4, <2>1 DEF Backend!Next, Backend!RehearsalLeaves, RehearsalEnds
  <1>5. ASSUME NEW r \in Runs, RunStep(r)
        PROVE  [Backend!Next]_(Backend!vars)
    <2>1. RunningJobs' = RunningJobs /\ rehearsal' = rehearsal /\ dbFails' = dbFails
      BY <1>5, RunStepIsLocal, RunStepKeepsWorld DEF RunningJobs
    <2>2. \A q \in Runs \ {r} : Admitted(q)' = Admitted(q) /\ Abandoned(q)' = Abandoned(q)
      BY <1>5, RunStepIsOwn DEF Admitted, Abandoned, AtWork
    <2>0. Admitted(r) \in BOOLEAN /\ Abandoned(r) \in BOOLEAN /\ Admitted(r)' \in BOOLEAN /\ Abandoned(r)' \in BOOLEAN
      BY DEF Admitted, Abandoned
    <2>3. CASE Admitted(r)' = Admitted(r) /\ Abandoned(r)' = Abandoned(r)
      <3>1. Testing' = Testing /\ Left' = Left
        BY <2>2, <2>3
      <3> QED BY <2>1, <3>1 DEF Backend!vars
    <2>4. CASE ~Admitted(r) /\ Admitted(r)'
      <3>1. MayTest /\ StartAcquires(r)
        BY <1>5, <2>4, WayIn
      <3>2. RunningJobs = {}
        BY <3>1, RunningIsFinite, FS_EmptySet DEF MayTest, CounterIsExact
      <3>3. Testing = {} /\ Testing' = {r}
        BY <2>2, <2>4, <3>1, NoLeaseNoOccupant DEF MayTest
      <3>4. ~AtWork(r)
        BY <3>1 DEF StartAcquires, WorkersInLevel
      <3>5. Left' = Left
        BY <2>2, <2>4, <3>4 DEF Abandoned
      <3> QED BY <2>1, <3>1, <3>2, <3>3, <3>5 DEF Backend!Next, Backend!TestEnters, MayTest
    <2>5. CASE Admitted(r) /\ ~Admitted(r)'
      <3>1. r \in Testing /\ Testing' = Testing \ {r}
        BY <2>2, <2>5
      <3>2. ~Abandoned(r)
        BY <2>5 DEF Abandoned
      <3>3. CASE ~Abandoned(r)'
        <4>1. Left' = Left
          BY <2>2, <3>2, <3>3
        <4> QED BY <2>1, <3>1, <4>1 DEF Backend!Next, Backend!TestLeaves
      <3>4. CASE Abandoned(r)'
        <4>1. Left' = Left \union {r}
          BY <2>2, <3>2, <3>4
        <4>2. r \in torn'
          BY <1>5, <2>5, <3>4, InLevelStep DEF WorkersInLevel, Abandoned, Admitted, AdmittedPcs, FlowPcs
        <4>3. dbFails
          BY <1>5, <4>2, TornNeedsFaults DEF WritesLand
        <4> QED BY <2>1, <3>1, <4>1, <4>3 DEF Backend!Next, Backend!TestLeaves
      <3> QED BY <3>3, <3>4
    <2>6. CASE ~Admitted(r) /\ ~Admitted(r)' /\ Abandoned(r) /\ ~Abandoned(r)'
      <3>1. Testing' = Testing /\ r \in Left /\ Left' = Left \ {r}
        BY <2>2, <2>6
      <3> QED BY <2>1, <3>1 DEF Backend!Next, Backend!AbandonedEnds
    <2>7. CASE ~Admitted(r) /\ ~Admitted(r)' /\ ~Abandoned(r) /\ Abandoned(r)'
      <3>1. LevelStarts(r)
        BY <1>5, <2>7, WorkersOfStep DEF Abandoned
      <3> QED BY <2>7, <3>1 DEF LevelStarts, Admitted, AdmittedPcs, FlowPcs
    <2>8. CASE Admitted(r) /\ Admitted(r)'
      BY <2>3, <2>8 DEF Abandoned
    <2> QED BY <2>0, <2>3, <2>4, <2>5, <2>6, <2>7, <2>8
  <1>6. CASE Crash
    <2>1. RunningJobs' = {} /\ Testing' = {} /\ Left' = {} /\ rehearsal' = FALSE /\ UNCHANGED dbFails
      BY <1>6 DEF Crash, RunningJobs, Admitted, AdmittedPcs, Abandoned, AtWork, FlowPcs, SavePcs
    <2> QED BY <2>1 DEF Backend!Next, Backend!Restart
  <1>7. CASE ExamMoves \/ Boot \/ UNCHANGED vars
    <2>1. RunningJobs' = RunningJobs /\ Testing' = Testing /\ Left' = Left /\ UNCHANGED <<rehearsal, dbFails>>
      BY <1>7 DEF ExamMoves, Boot, Admitted, Abandoned, AtWork, RunningJobs, vars, deployRuns, levels, queue, coordinator
    <2> QED BY <2>1 DEF Backend!vars
  <1> QED BY <1>1, <1>2, <1>3, <1>4, <1>5, <1>6, <1>7, StepsOfNext DEF vars

\* The code implements the coordinator's promise, under the mapping of JudgingWork!Backend.
THEOREM CodeImplementsBackend == Spec => ImplementsBackend
  <1>1. Init => Backend!Init
    BY DEF Init, Backend!Init, RunningJobs, Admitted, AdmittedPcs, Abandoned, AtWork, FlowPcs, SavePcs
  <1> QED BY <1>1, BackendStep, SpecIInv2, PTL DEF Spec, ImplementsBackend, Backend!Spec

\* acquireDeploy's lease is kept exactly as long as the work it stands for: neither released under
\* executions that still run in Piston nor left behind when the database takes every write.
THEOREM LeaseStaysKept == Spec => []LeaseIsKept
  <1>1. NoEarlyRelease /\ LeaseHasOwnerIfDbWrites => LeaseIsKept
    BY DEF LeaseIsKept
  <1> QED BY <1>1, LeaseOutlivesExecutions, LeaseIsNeverOrphaned, PTL

\* acquireStudent, releaseStudent and JudgeQueueService.start: jobs are counted exactly, and none of
\* them judges the student of another.
THEOREM JobsStayCounted == Spec => []JobsAreCounted
  <1>1. CounterIsExact /\ OneJobPerStudent => JobsAreCounted
    BY DEF JobsAreCounted
  <1> QED BY <1>1, CounterNeverDrifts, NeverTwoJobsOfAStudent, PTL
================================================================================
