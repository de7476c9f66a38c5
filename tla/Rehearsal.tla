------------------------------- MODULE Rehearsal -------------------------------
(***************************************************************************)
(* The post-deployment rehearsal: a small exam that the backend sits       *)
(* against itself over HTTP and then erases.  An orchestrator walks six    *)
(* stages; each stage is a script of requests that races a timer, and a    *)
(* script that lost the race goes on by itself.  The report and the        *)
(* configuration to put back are rows of the settings table, which a       *)
(* restarted process uses to finish what a killed one began.               *)
(***************************************************************************)
EXTENDS Naturals, Sequences

CONSTANTS
  Settings,      \* judging settings an operator may choose
  Default,       \* those initDatabase stores, with an empty exam
  None,          \* no row
  MaxRuns,       \* bound: rehearsals accepted
  MaxChanges,    \* bound: requests of the operator
  MaxFaults      \* bound: refused requests, rejected database calls and processes that die

ASSUME BoundsAssumption == MaxRuns \in Nat /\ MaxChanges \in Nat /\ MaxFaults \in Nat
ASSUME SettingsAssumption == Default \in Settings /\ "rehearsal" \notin Settings

VARIABLES
  config, users, phase,  \* the stored configuration, whose roster is enrolled, exam_state
  work,                  \* what the simulated student left in the exam's tables
  record, prior,         \* the two settings rows: the latest report, the configuration before it
  pc, lease, run,        \* the process: where it stands, the coordinator's lease, the report in memory
  at,                    \* the stage under way
  step,                  \* its script
  late,                  \* scripts whose stage timed out and which still run
  mutated, expired,      \* has anything been written; is the whole rehearsal over its deadline
  runs, changes, faults,
  had, sat,              \* history: the configuration the operator left; all this run left in the tables
  blind, threw, orphaned \* history: see SkipsCleanup and Start; see Rejects

exam == <<config, users, phase, work>>
rows == <<record, prior>>
walk == <<pc, lease, run, at, step, late, mutated, expired>>
history == <<had, sat, blind, threw, orphaned>>
counts == <<runs, changes, faults>>
vars == <<exam, rows, walk, counts, history>>

--------------------------------------------------------------------------------
BuildStages == <<"paper", "enrol", "admit", "submit", "grade">>
StageIds == {"paper", "enrol", "admit", "submit", "grade", "cleanup"}
Statuses == {"pending", "running", "passed", "failed", "skipped"}
Terminal == {"completed", "failed", "interrupted"}
Outcomes == {"passed", "failed", "interrupted"}
Phases == {"UNINITIALIZED", "INITIALIZED", "SETUP_FINISHED", "IN_PROGRESS"}
Traces == {"device", "environment", "session", "right", "wrong", "verdicts"}
Papers == {"none", "rehearsal", "real"}
Configurations == [paper : Papers, settings : Settings \union {"rehearsal"}]
RehearsalPaper == [paper |-> "rehearsal", settings |-> "rehearsal"]

\* rehearsalRunSchema: six stages, and a verdict exactly when the run is over.
Reports == [state : Terminal \union {"queued", "running"}, stages : [StageIds -> Statuses],
            ownsSystemState : BOOLEAN, cleanupCompleted : BOOLEAN,
            overallOutcome : Outcomes \union {None}]
ASSUME NoneAssumption == None \notin Reports \union Configurations \union Outcomes
Blank == [state |-> "queued", stages |-> [s \in StageIds |-> "pending"], ownsSystemState |-> TRUE,
          cleanupCompleted |-> FALSE, overallOutcome |-> None]

\* The requests of each stage, in order.
PaperScript == <<"upload", "init", "isInitialized">>
EnrolScript == <<"register", "collect", "report", "isRefusedKey">>
AdmitScript == <<"finishSetup", "login">>
SubmitScript == <<"begin", "getKey", "submitRight", "submitWrong">>
GradeScript == <<"judge", "poll", "verdicts">>
CleanupScript ==
  <<"reset", "isUninitialized", "isEmpty", "restore", "isForgotten", "noDevices", "noSubmissions">>
Script == [paper |-> PaperScript, enrol |-> EnrolScript, admit |-> AdmitScript,
           submit |-> SubmitScript, grade |-> GradeScript, cleanup |-> CleanupScript]
\* A stage that is refused one of these returns at once; after any other it goes on.
Decisive == {"upload", "init", "isInitialized", "register", "collect", "finishSetup", "login",
             "begin", "getKey", "judge", "poll", "verdicts", "reset", "restore"}

\* A script on its way: the next request, whether every check passed so far, and whether the report
\* holds a passed config_uploaded.
Scripts == [stage : StageIds, next : 1..8, ok : BOOLEAN, uploaded : BOOLEAN]
Answered(s) == s.next > Len(Script[s.stage])

OrchestratorPcs == {"claim", "remember", "execute", "walk", "race", "settle", "finish", "broken"}
BootPcs == {"boot", "bootRestore", "bootForget", "bootSave"}
NoScript == [stage |-> "paper", next |-> 1, ok |-> TRUE, uploaded |-> FALSE]

TypeOK ==
  /\ config \in Configurations /\ users \in Papers /\ phase \in Phases
  /\ work \subseteq Traces
  /\ record \in Reports \union {None} /\ prior \in Configurations \union {None}
  /\ pc \in {"idle"} \union OrchestratorPcs \union BootPcs
  /\ lease \in BOOLEAN /\ run \in Reports /\ at \in StageIds
  /\ step \in Scripts /\ late \subseteq Scripts
  /\ mutated \in BOOLEAN /\ expired \in BOOLEAN
  /\ runs \in 0..MaxRuns /\ changes \in 0..MaxChanges
  /\ faults \in 0..MaxFaults
  /\ had \in Configurations /\ sat \subseteq Traces /\ {blind, threw, orphaned} \subseteq BOOLEAN

Init ==
  /\ config = [paper |-> "none", settings |-> Default] /\ had = config /\ sat = {}
  /\ users = "none" /\ phase = "UNINITIALIZED" /\ work = {}
  /\ record = None /\ prior = None
  /\ pc = "idle" /\ lease = FALSE /\ late = {}
  /\ run = Blank /\ at = "paper" /\ step = NoScript /\ mutated = FALSE /\ expired = FALSE
  /\ runs = 0 /\ changes = 0 /\ faults = 0
  /\ blind = FALSE /\ threw = FALSE /\ orphaned = FALSE

--------------------------------------------------------------------------------
\* What the backend's endpoints need to answer as the script expects ...
Ready(r) ==
  CASE r = "upload" -> users = "none"
    [] r = "init" -> users = "none" /\ phase = "UNINITIALIZED" /\ config.paper # "none"
    [] r \in {"isInitialized", "register", "finishSetup"} -> phase = "INITIALIZED"
    [] r \in {"collect", "report"} -> phase # "UNINITIALIZED" /\ "device" \in work
    [] r = "isRefusedKey" -> phase # "IN_PROGRESS"
    [] r = "login" -> phase \in {"SETUP_FINISHED", "IN_PROGRESS"} /\ "device" \in work /\ users = "rehearsal"
    [] r = "begin" -> phase = "SETUP_FINISHED"
    [] r = "getKey" -> phase = "IN_PROGRESS" /\ "device" \in work
    [] r \in {"submitRight", "submitWrong"} -> phase = "IN_PROGRESS" /\ "session" \in work
    [] r = "verdicts" -> users = "rehearsal" /\ {"right", "wrong", "verdicts"} \subseteq work
    [] r = "isUninitialized" -> phase = "UNINITIALIZED"
    [] r = "isEmpty" -> users = "none"
    [] r = "isForgotten" -> config.paper # "rehearsal"
    [] r = "noDevices" -> "device" \notin work
    [] r = "noSubmissions" -> {"right", "wrong"} \intersect work = {}
    [] OTHER -> TRUE

\* ... and what they change when they do.
Enters == [init |-> "INITIALIZED", finishSetup |-> "SETUP_FINISHED", begin |-> "IN_PROGRESS",
           reset |-> "UNINITIALIZED"]
Leaves == [register |-> {"device"}, report |-> {"environment"}, login |-> {"session"},
           submitRight |-> {"right"}, submitWrong |-> {"wrong"}, poll |-> {"verdicts"}]
\* (slip) a prior configuration that was never written down
PutsBackAnything == prior
PutsBack == IF prior = None THEN config ELSE prior

Serves(r) ==
  /\ config' = CASE r = "upload" -> RehearsalPaper [] r = "restore" -> PutsBack [] OTHER -> config
  /\ users' = CASE r = "init" -> config.paper [] r = "reset" -> "none" [] OTHER -> users
  /\ phase' = IF r \in DOMAIN Enters THEN Enters[r] ELSE phase
  /\ work' = CASE r = "reset" -> {} [] r \in DOMAIN Leaves -> work \union Leaves[r] [] OTHER -> work
  /\ prior' = IF r = "isForgotten" THEN None ELSE prior
  /\ sat' = sat \union work'

\* An upload may fail after it stored the configuration: the paper is reissued with further calls.
StoresAndFails(r) == r = "upload" /\ users = "none" /\ config' = RehearsalPaper /\ UNCHANGED <<users, phase, work, prior, sat>>

Fault == faults < MaxFaults /\ faults' = faults + 1

\* The script s sends its next request, which is answered as it expects or not ...
Sends(s, good) ==
  LET r == Script[s.stage][s.next]
  IN  /\ ~ Answered(s)
      /\ \/ good /\ Ready(r) /\ Serves(r) /\ UNCHANGED faults
         \/ ~ good /\ ~ Ready(r) /\ UNCHANGED <<exam, prior, sat, faults>>
         \/ good /\ r = "isForgotten" /\ Fault /\ Serves(r)  \* no answer shows no paper either
         \/ ~ good /\ Fault /\ (UNCHANGED <<exam, prior, sat>> \/ StoresAndFails(r))

\* (slip) only a refusal that ends the stage counts as a failed check
AfterLeniently(s, good) ==
  LET r == Script[s.stage][s.next]
  IN  IF ~ good /\ r \in Decisive THEN [s EXCEPT !.ok = FALSE, !.next = Len(Script[s.stage]) + 1]
      ELSE [s EXCEPT !.next = @ + 1, !.uploaded = @ \/ r = "upload"]

\* ... and goes on to the one after it, or ends.
After(s, good) ==
  LET r == Script[s.stage][s.next]
  IN  IF good THEN [s EXCEPT !.next = @ + 1, !.uploaded = @ \/ r = "upload"]
      ELSE [s EXCEPT !.ok = FALSE, !.next = IF r \in Decisive THEN Len(Script[s.stage]) + 1 ELSE @ + 1]

--------------------------------------------------------------------------------
\* The local variables of a rehearsal that is over, or not begun.
FreshLocals == run' = Blank /\ at' = "paper" /\ step' = NoScript /\ mutated' = FALSE /\ expired' = FALSE

IsTerminal(r) == r # None /\ r.state \in Terminal

\* (slip) a prepared paper whose roster is not enrolled yet does not count
NobodyToLose == phase = "UNINITIALIZED" /\ users = "none"
\* blockedReason, as far as it is about the exam: the coordinator's other answers are in JudgingWork.
NothingToLose == phase = "UNINITIALIZED" /\ users = "none" /\ config.paper = "none"

\* What start asks for before it takes the lease: a run that is over and left nothing, nothing of an exam.
MayStart ==
  /\ ~ lease
  /\ record # None => IsTerminal(record) /\ record.cleanupCompleted
  /\ NothingToLose

\* start: every refusal comes before the lease.  The rehearsal has lost track (blind) when an earlier
\* one left its row of the prior configuration behind: start does not clear it.
Start ==
  /\ pc = "idle" /\ runs < MaxRuns /\ MayStart
  /\ lease' = TRUE /\ pc' = "claim" /\ runs' = runs + 1
  /\ blind' = (blind \/ prior # None)
  /\ UNCHANGED <<exam, rows, run, at, step, late, mutated, expired, changes, faults, had, sat, threw, orphaned>>

\* (slip) the paper is uploaded first and the run recorded afterwards
ClaimsAfterwards ==
  /\ pc = "claim" /\ pc' = "remember"
  /\ config' = RehearsalPaper
  /\ UNCHANGED <<users, phase, work, rows, lease, run, at, step, late, mutated, expired, counts, history>>

\* The run is recorded as owner of the machine's state before anything is written to it ...
Claims ==
  /\ pc = "claim" /\ pc' = "remember"
  /\ record' = run /\ sat' = {}
  /\ UNCHANGED <<exam, prior, lease, run, at, step, late, mutated, expired, counts, had, blind, threw, orphaned>>

\* (slip) the configuration to put back is not written down
RemembersNothing ==
  /\ pc = "remember" /\ pc' = "execute"
  /\ UNCHANGED <<exam, rows, lease, run, at, step, late, mutated, expired, counts, history>>

\* ... and then the configuration it will have to put back.
Remembers ==
  /\ pc = "remember" /\ pc' = "execute"
  /\ prior' = config
  /\ UNCHANGED <<exam, record, lease, run, at, step, late, mutated, expired, counts, history>>

\* Both calls stand outside any try: start throws and nobody returns the lease.
Rejects ==
  /\ pc \in {"claim", "remember"} /\ pc' = "idle" /\ Fault
  /\ threw' = TRUE /\ orphaned' = (orphaned \/ pc = "remember")
  /\ UNCHANGED <<exam, rows, lease, run, at, step, late, mutated, expired, runs, changes, had, sat, blind>>

--------------------------------------------------------------------------------
\* save: the report as it is now; what follows changes it in memory only.  A rejected write ends
\* execute in its catch.
Saves(report, next, after) ==
  \/ record' = report /\ run' = after /\ pc' = next /\ UNCHANGED faults
  \/ Fault /\ run' = report /\ pc' = "broken" /\ UNCHANGED record

Marks(report, stage, status) == [report EXCEPT !.stages[stage] = status]

Executes ==
  /\ pc = "execute" /\ LET running == [run EXCEPT !.state = "running"] IN Saves(running, "walk", running)
  /\ UNCHANGED <<exam, prior, lease, at, step, late, mutated, expired, runs, changes, history>>

\* runStage up to the race.
Opens(report, stage) ==
  LET opened == Marks(report, stage, "running")
  IN  /\ at' = stage /\ step' = [NoScript EXCEPT !.stage = stage]
      /\ Saves(opened, "race", opened)

NextStage == CHOOSE i \in 1..6 : (i <= 5 => run.stages[BuildStages[i]] = "pending")
                                   /\ \A j \in 1..5 : j < i => run.stages[BuildStages[j]] # "pending"

WalksOn ==
  /\ pc = "walk" /\ NextStage <= 5
  /\ Opens(run, BuildStages[NextStage])
  /\ UNCHANGED <<exam, prior, lease, late, mutated, expired, runs, changes, history>>

\* All five built, or the whole rehearsal over its deadline: what was not tried is skipped.
Skipped(report) ==
  [report EXCEPT !.stages = [s \in StageIds |->
     IF s # "cleanup" /\ report.stages[s] = "pending" THEN "skipped" ELSE report.stages[s]]]

StopsWalking ==
  /\ pc = "walk" /\ pc' = "settle"
  /\ expired' = (NextStage <= 5)
  /\ UNCHANGED <<exam, rows, lease, run, at, step, late, mutated, counts, history>>

Requests ==
  /\ pc = "race"
  /\ \E good \in BOOLEAN : Sends(step, good) /\ step' = After(step, good)
  /\ UNCHANGED <<record, pc, lease, run, at, late, mutated, expired, runs, changes, had, blind, threw, orphaned>>

\* The stage is over with this status: runStage saves it and execute looks at it.
Closes(status, uploaded) ==
  LET closed == Marks(run, at, status)
      next == IF at = "cleanup" THEN "finish" ELSE IF status = "passed" THEN "walk" ELSE "settle"
      after == IF at = "cleanup" THEN [closed EXCEPT !.cleanupCompleted = (status = "passed")] ELSE closed
  IN  /\ Saves(closed, next, after)
      /\ mutated' = IF at = "paper" THEN uploaded ELSE TRUE

Answers ==
  /\ pc = "race" /\ Answered(step)
  /\ Closes(IF step.ok THEN "passed" ELSE "failed", step.uploaded)
  /\ UNCHANGED <<exam, prior, lease, at, step, late, expired, runs, changes, history>>

\* Nobody hears the checks of a late script: it matters as long as it has something left to change.
\* (A late poll sees that its time is over and changes nothing.)
Changing == {"upload", "restore", "isForgotten"} \union DOMAIN Enters \union (DOMAIN Leaves \ {"poll"})
Unheard(s) == {[s EXCEPT !.ok = TRUE, !.uploaded = FALSE] :
                 i \in {j \in s.next..Len(Script[s.stage]) : Script[s.stage][j] \in Changing}}

\* (slip) judging may take as long as it needs
TimesOutButGrade ==
  /\ pc = "race" /\ ~ Answered(step) /\ at # "grade"
  /\ Closes("failed", FALSE)
  /\ late' = late \union Unheard(step)
  /\ UNCHANGED <<exam, prior, lease, at, step, expired, runs, changes, history>>

\* The timer wins: a result without checks, and the script goes on by itself.
TimesOut ==
  /\ pc = "race" /\ ~ Answered(step)
  /\ Closes("failed", FALSE)
  /\ late' = late \union Unheard(step)
  /\ UNCHANGED <<exam, prior, lease, at, step, expired, runs, changes, history>>

\* A late script: its answers go nowhere, but its requests arrive.
LateRequests ==
  /\ \E s \in late, good \in BOOLEAN :
       Sends(s, good) /\ late' = (late \ {s}) \union Unheard(After(s, good))
  /\ UNCHANGED <<record, pc, lease, run, at, step, mutated, expired, runs, changes, had, blind, threw, orphaned>>

--------------------------------------------------------------------------------
CleansUp ==
  /\ pc = "settle" /\ mutated
  /\ Opens(Skipped(run), "cleanup")
  /\ UNCHANGED <<exam, prior, lease, late, mutated, expired, runs, changes, history>>

\* The paper stage reported no upload.  It may be wrong: the timer won, or the upload failed after it
\* stored the configuration.
SkipsCleanup ==
  /\ pc = "settle" /\ ~ mutated /\ pc' = "finish"
  /\ run' = [Skipped(run) EXCEPT !.stages["cleanup"] = "skipped", !.cleanupCompleted = TRUE]
  /\ blind' = (blind \/ config.paper = "rehearsal" \/ \E s \in late : s.stage = "paper")
  /\ UNCHANGED <<exam, rows, lease, at, step, late, mutated, expired, counts, had, sat, threw, orphaned>>

Verdict(report) ==
  IF expired THEN "interrupted"
  ELSE IF (\E s \in StageIds : report.stages[s] = "failed") \/ ~ report.cleanupCompleted THEN "failed"
  ELSE "passed"

\* The last save, and the lease returned in the finally; a rejected save ends in the catch.
Finishes ==
  /\ pc = "finish"
  /\ \/ /\ record' = [run EXCEPT !.state = IF expired THEN "interrupted" ELSE "completed",
                                 !.overallOutcome = Verdict(run)]
        /\ pc' = "idle" /\ lease' = FALSE /\ FreshLocals
        /\ UNCHANGED faults
     \/ /\ Fault /\ pc' = "broken"
        /\ UNCHANGED <<record, lease, run, at, step, mutated, expired>>
  /\ UNCHANGED <<exam, prior, late, runs, changes, history>>

\* The catch of execute: a report without cleanup, whose own save may be swallowed.
BrokenReport == [run EXCEPT !.state = "failed", !.overallOutcome = "failed"]

\* (slip) the catch forgets the lease
BreaksOffLeased ==
  /\ pc = "broken" /\ pc' = "idle" /\ FreshLocals
  /\ record' = BrokenReport
  /\ UNCHANGED <<exam, prior, lease, late, counts, history>>

BreaksOff ==
  /\ pc = "broken" /\ pc' = "idle" /\ lease' = FALSE /\ FreshLocals
  /\ \/ record' = BrokenReport /\ UNCHANGED <<faults, orphaned>>
     \/ Fault /\ orphaned' = TRUE /\ UNCHANGED record
  /\ UNCHANGED <<exam, prior, late, runs, changes, had, sat, blind, threw>>

--------------------------------------------------------------------------------
\* (slip) the recovery is not called
Ignores == "idle"
\* What startServer does first.
Recovers == IF record = None \/ IsTerminal(record) THEN "idle" ELSE "boot"

\* The process dies and is started again; the servers listen only after the recovery below.
Crash ==
  /\ pc # "idle" \/ lease \/ late # {}
  /\ Fault
  /\ pc' = Recovers
  /\ lease' = FALSE /\ threw' = FALSE /\ late' = {} /\ FreshLocals
  /\ UNCHANGED <<exam, rows, runs, changes, had, sat, blind, orphaned>>

\* RehearsalStartupService.run: the record claims the machine, so everything goes.
BootWipes ==
  /\ pc = "boot" /\ record.ownsSystemState /\ pc' = "bootRestore"
  /\ users' = "none" /\ phase' = "UNINITIALIZED" /\ work' = {}
  /\ UNCHANGED <<config, rows, lease, run, at, step, late, mutated, expired, counts, history>>

BootRestores ==
  /\ pc = "bootRestore" /\ pc' = "bootForget"
  /\ config' = PutsBack
  /\ UNCHANGED <<users, phase, work, rows, lease, run, at, step, late, mutated, expired, counts, history>>

BootForgets ==
  /\ pc = "bootForget" /\ pc' = "bootSave"
  /\ prior' = None /\ run' = [run EXCEPT !.cleanupCompleted = TRUE]
  /\ UNCHANGED <<exam, record, lease, at, step, late, mutated, expired, counts, history>>

\* Whatever rejects, the interrupted run is recorded as not cleaned up.
BootFails ==
  /\ pc \in {"boot", "bootRestore", "bootForget"} /\ pc' = "bootSave"
  /\ UNCHANGED <<exam, rows, lease, run, at, step, late, mutated, expired, counts, history>>

BootSaves ==
  /\ pc = "bootSave" /\ pc' = "idle"
  /\ record' = [record EXCEPT
       !.state = "interrupted", !.overallOutcome = "interrupted", !.cleanupCompleted = run.cleanupCompleted,
       !.stages = [s \in StageIds |-> CASE record.stages[s] = "running" -> "failed"
                                        [] record.stages[s] = "pending" -> "skipped"
                                        [] OTHER -> record.stages[s]]]
  /\ run' = Blank
  /\ UNCHANGED <<exam, prior, lease, at, step, late, mutated, expired, counts, history>>

--------------------------------------------------------------------------------
\* The operator, who leaves the machine alone while a rehearsal runs that was accepted.
Operates == pc = "idle" /\ changes < MaxChanges /\ changes' = changes + 1
            /\ UNCHANGED <<rows, walk, runs, faults, sat, blind, threw, orphaned>>

Configures ==
  /\ Operates
  /\ \/ \E s \in Settings : config' = [config EXCEPT !.settings = s]
     \/ users = "none" /\ config' = [config EXCEPT !.paper = "real"]
  /\ had' = config'
  /\ UNCHANGED <<users, phase, work>>

Initializes ==
  /\ Operates /\ users = "none" /\ config.paper = "real"
  /\ users' = "real" /\ phase' = "INITIALIZED"
  /\ UNCHANGED <<config, work, had>>

Resets ==
  /\ Operates
  /\ users' = "none" /\ phase' = "UNINITIALIZED" /\ work' = {}
  /\ UNCHANGED <<config, had>>

Orchestrates ==
  \/ Claims \/ Remembers \/ Executes \/ WalksOn \/ StopsWalking \/ Answers \/ TimesOut
  \/ CleansUp \/ SkipsCleanup \/ Finishes \/ BreaksOff
Boots == BootWipes \/ BootRestores \/ BootForgets \/ BootSaves

Next ==
  \/ Start \/ Rejects \/ Orchestrates \/ Requests \/ LateRequests
  \/ Crash \/ Boots \/ BootFails
  \/ Configures \/ Initializes \/ Resets

Spec == Init /\ [][Next]_vars

\* The process runs on and its timers fire; nothing is assumed of the requests' answers.
FairSpec == Spec /\ WF_vars(Orchestrates) /\ WF_vars(Boots)

--------------------------------------------------------------------------------
Quiet == pc = "idle" /\ late = {}
Residue == config.paper = "rehearsal" \/ users = "rehearsal"

\* rehearsal-startup.service.ts: the claim is stored before the first change, so that whatever a
\* killed rehearsal left is covered by a record that the next start acts on.
ClaimPrecedesData ==
  pc \in OrchestratorPcs /\ Residue /\ ~ blind =>
    record # None /\ record.ownsSystemState /\ ~ IsTerminal(record)

\* A record that says "running" has a process behind it, or the start that will settle it: only a
\* rejected save can leave one that start hands out as the run in flight for ever.
NoOrphanRun == record # None /\ ~ IsTerminal(record) /\ pc = "idle" => orphaned

\* A machine that holds the rehearsal's paper or student is never taken for a clean one: nothing but
\* the operator can start on it, whether or not the report knows what was left.
ResidueIsBlocked == Quiet /\ Residue => ~ MayStart

\* A report that says "cleaned" is right: the operator has his own configuration back, with the
\* measured settings in it, and nothing of the rehearsal is left, even if the process died half-way.
CleanedMeansRestored ==
  Quiet /\ ~ blind /\ ~ orphaned /\ IsTerminal(record) /\ record.cleanupCompleted =>
    config = had /\ ~ Residue

\* What a rehearsal leaves behind is never mistaken for a clean machine, by its report or by the next.
NothingIsLeft == CleanedMeansRestored /\ ResidueIsBlocked

\* A rehearsal reported as passed has really been sat: the machine, its environment report, the
\* login, both submissions and their verdicts were all stored on the way.
PassedMeansSat == IsTerminal(record) /\ record.overallOutcome = "passed" => sat = Traces

\* The lease is out exactly as long as the rehearsal works, however it ends, unless start threw.
LeaseIsReturned == lease <=> pc \in OrchestratorPcs \/ threw

\* Rows, report and lease are what a rehearsal may leave, and none of them outlives who answers for it.
RunIsAccountedFor == TypeOK /\ NoOrphanRun /\ LeaseIsReturned

\* A real exam is erased or replaced by nobody but the operator: neither by a rehearsal nor by the
\* recovery at the next start.
RealExamIsSafe ==
  [][~ orphaned /\ late = {} /\ changes' = changes =>
       /\ config.paper = "real" => config'.paper = "real"
       /\ users = "real" => users' = "real"]_vars

\* Whatever hangs, an accepted rehearsal and an interrupted start end.
RunEnds == pc # "idle" ~> pc = "idle"
================================================================================
