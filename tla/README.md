# Verification of the exam host

TLA+ models of ntut-exam-v2, its backend and the stores of its admin console, the TLC runs that check them on small
instances, and TLAPS proofs that hold for every instance.  Paths below are relative
to the repository; `services/...`, `controllers/...` and the like are under
`src/backend/src/`.

## The system

One machine in an exam room runs the backend: a single Node process (Express, two HTTP servers, socket.io),
Sequelize over SQLite, and a Piston container that executes student code.  Assistants drive it through an admin
console (Vue).  Students' machines register a key, fetch the encrypted paper, sign in, submit code and report.
Nothing in the process runs in parallel, but **every `await` is a place where another request, timer or job may
run**, every database call may reject, and the process may die (the container restarts it).  That is where the
difficulty of this code lies, and it is what the models are about: one action is what runs between two awaits.

| component | state it keeps | operations | what is hard | correct when |
|---|---|---|---|---|
| work coordinator (`services/judging-work-coordinator.ts`) | `students`, `deploy`, `rehearsal`, `draining` in memory | three acquires, `release`, begin and end of draining | leases of three kinds of work, held across awaits | a deployment test has the backend to itself; no lease is lost or returned twice |
| judge queue (`judge-queue.service.ts`) | `jobs`, `live` in memory | `start`, `execute` | repeated requests for one student | one running job per student |
| deployment test (`deploy-test.service.ts`) | the run in memory, one stored report | `start`, the flow of probes and levels, the deadline | deadline against flow, late answers, exam starting in between, restart | reports settle and stay; the backend is handed back |
| exam phase (`exam-state.service.ts`) | `exam_state`, `exam_state_changed_at`, the registration switch | `changeState`, reset | check before awaited writes; two and three writes | one step forward at a time; time and switch belong to the phase |
| initialisation, reset (`init.service.ts`) | users, `exam_key`, the two halves of the paper | `performInitialization`, `wipeAllData` | a chain of writes that may stop anywhere | an enrolled exam is complete; nothing survives a reset |
| configuration, paper (`exam-config.service.ts`, `system-settings.service.ts`) | `exam_config`, `exam_config_meta`, `exam_config_cipher` | upload, restricted update, reissue | two admins; configuration and paper are written one after the other | roster, paper and configuration belong together |
| entry of machines (`device.service.ts`, `connection.controller.ts`) | `device_key_maps`, `unblocked_devices`, `login_requests` | register, ask, approve, reject | passes that outlive what they were given for | one pending request; an approval ends with the machine |
| binding, login (`binding.service.ts`, `auth.service.ts`) | both sides of machine and student | login, unbind from either side, removal | two writes for one link; checks before awaits | both sides agree; nobody loses a seat to a login |
| judging, scoreboard (`judger.service.ts`, `code-storage.service.ts`, `judge-startup.service.ts`) | `submissions`, `score_boards` | submit, judge, synchronise, recover | rows change while they are judged; failures of the system are not the student's | a verdict is of the code judged, a score of a verdict, the board of the scores |
| execution limiter (`judge-limiter.ts`, `judge-execution.service.ts`) | p-limit's queue and ceiling | run under a slot, retry, set the ceiling | ceiling changed while work waits and runs | the ceiling holds, nothing waits for ever |
| rehearsal (`rehearsal.service.ts`, `rehearsal-stages.ts`, `rehearsal-startup.service.ts`) | the stored report, the prior configuration, a lease, the report in memory | `start`, six stages of requests to the backend itself, cleanup, recovery at a start | a stage that overruns its timer is not cancelled; the process may die anywhere | the machine is clean, or known not to be; a real exam is spared |
| delivery (`exam.service.ts`, `exam-phase.middleware.ts`, `user-crypto.middleware.ts`, `replay-protection.service.ts`) | nonce memory; rows of others | phase gate, envelope, paper, key, messages, code | phase, exam and registration change between the calls of a handler; clocks | the paper is of the exam that is on, key and code wait for its start, no request counts twice |
| a machine's session (`message-socket.service.ts`, `device.service.ts`, `binding.service.ts`) | the machine's row: socket, online, key, verdict | socket registration and disconnect, `registerKey`, environment report, forced logout | late disconnects, a new key over old reports, every save from a copy of the row | presence, verdict and token are those of the machine as it is |
| database backup (`database-backup.service.ts`, its controller) | `active`, `waiters`, private directories | `acquire`, `release`, copy, stream, remove | time-out, abort and turn race; any call may fail | turns counted, no turn idle while somebody waits, no copy left behind |
| admin console (`frontend/src/stores`, `services/socket.service.ts`, the broadcasts of the backend) | lists, a polled report, drafts of settings | fetch at an announcement, poll, restore, start, save | answers in any order, pages that close, other consoles | a list at rest is what it was told of; one chain of polls; nothing typed is lost |
| anti-cheat, schema, read-only endpoints, metrics | log rows, none | - | - | - |

How they interact: the queue, the deployment test and the rehearsal meet in the
coordinator; judging and deployment tests share the limiter's slots; initialisation ends
in `changeState`, which throws the registration switch that `registerKey` reads; binding
decides which session `user-crypto.middleware` accepts, and tells the machine over its
socket; a reset empties the registrations that delivery asks for; whatever changes a list
is announced to the consoles, which then fetch it.  `PROJECT.json` lists every component
with its status and every hazard at the line where it bites.

## The modules

| module | models | checked by | proofs in |
|---|---|---|---|
| `ExclusiveBackend` | abstract: who may use the execution backend | refinement target of `judging` | |
| `JudgingWork` | coordinator, judge queue, deployment test, restart | `judging` | `JudgingWorkProofs` |
| `ExamPhases` | abstract: the phase as `EXAM-LIFECYCLE.md` promises it | refinement target of `lifecycle`; its steps are those of `ExamDelivery` | |
| `ExamLifecycle` | phase, initialisation, configuration and paper, reset | `lifecycle`, `lifecycle_backwards` | `ExamLifecycleProofs` |
| `SeatPlan` | abstract: who sits where, and whom an approval lets in | refinement target of `binding` | |
| `DeviceBinding` | registration, entry requests, approval, login, unbinding | `binding`, `binding_reentry` | `DeviceBindingProofs` |
| `ExecutionSlots` | the limiter, with p-limit under it | through `Grading` | `GradingProofs` (each operation) |
| `Grading` | submissions, judging jobs and tasks, retries, scoreboard, recovery | `grading`, `grading_stranded` | `GradingProofs` |
| `Rehearsal` | the rehearsal from admission to cleanup or recovery | `rehearsal` | `RehearsalProofs` |
| `ExamDelivery` | the student routes behind the phase gate | `delivery` | `ExamDeliveryProofs` |
| `MachineSession` | sockets, keys, environment reports and removals of one machine | `session` | `MachineSessionProofs` |
| `Backup` | downloads of a copy of the database | `backup` | `ConsoleAndBackupProofs` |
| `Console` | the stores of the admin console against the server | `console` | `ConsoleAndBackupProofs` |

`MC...` modules instantiate them for TLC.  A definition marked `(slip)` is not part of a
specification: it is the form a plausible mistake in the definition below it would have,
kept to show that a property notices it.

### JudgingWork

`students`, `deploy`, `rehearsal`, `draining` are the coordinator's fields; `jobs`, `testId`, `live` the queue's
maps; `pc`, `timer`, `units`, `workers` the local state of one `POST deploy-tests` each, from `start()` through
`runFlow()`, with the deadline branch of `executeWithDeadline` next to it; `report` the stored singleton.  Each
await of `start()` is an action (`StartReadsLatest`, `StartReadsExam`, `StartAcquires`, `StartRechecksExam`,
`StartPersists`); what a pending `save()` will write is fixed when it is called (`Saved`), since the object in
memory changes meanwhile.  A flow goes through `Probes` probes and `Levels` levels.  A level is `Workers` workers
that share `Load` executions (`left`); each looks at the phase before it takes one, as `interrupted` does, and the
first that sees the exam start saves the report, while the others are still inside Piston and later look themselves.
If that save is rejected, the flow's `catch` stores another report and hands the lease back, and the remaining
workers go on by themselves (`torn`, `Abandoned`).  `dbFails` is chosen once: either the database takes every call
or any may be rejected, which the reading of the phase takes for no exam (`Seen`).  `Crash` empties the memory,
`Boot` repairs the report before the servers listen.  A rehearsal takes and returns its lease and does nothing else
here.

Two things a reader should know of the code, both visible in the model:
- `start()` holds the lease over two awaits without a `try`: a rejected one leaves it taken
  until a restart (known limits, below).
- The deadline may replace a report that is already complete while its write is still
  pending (`services/deploy-test.service.ts:152-162, 228-231`), although
  `specs/006-judger-deploy-test/data-model.md:270` calls every terminal state final.
  `OnlyDeadlineRewrites` states what does hold: nobody but the deadline does so, unless a worker's save was
  rejected (known limits).

### ExamLifecycle

The rows of `system_settings` are variables, one write of a row is one step, and the two halves of the paper are one
step because `savePreparedPaper` writes them in one statement. `users` abstracts all wiped tables by the structures
(rosters) enrolled, a configuration is known by its structure (`Frozen`: what `restrictedUpdate` refuses to change),
by all of it but the judger settings (`Content`) and by its identity.  `updateSettings` saves a configuration with
other judger settings and makes no paper (`StartsTuning`, `SavesTuned`).  `req` holds for each admin the request
under way: its next call and what it read earlier.  What a request reads before its first write is one step, except
where the age of that read matters (phase, key and meta).  `Fails` is a rejected call: the request ends and what it
wrote stays.  One read is different: `getCurrentState` takes a rejection for UNINITIALIZED, and `changeState` goes
on with that (`MisreadsPhase`; `misread` remembers who did).  `Crash` ends every request.  Operators choose:
`SetsRegistration` is the switch thrown by hand.

### DeviceBinding

`bound` and `seat` are the two sides of a binding, `address` the student's stored address
(a machine stands for its address), `pass` and `entry` the rows of `unblocked_devices` and
`login_requests`.  A request reads everything it checks in its first step, then makes its
writes one by one.  Included are the foreign key that clears what points to a deleted
machine, the primary key that refuses a second row, `findOne`'s choice of the oldest pass,
and the swallowed read failure in `rosterIpFor`, after which no address is left.  Keys,
tokens, online flags and the phase gate are left out, so a login here is possible in more
phases than in the code, and the exam is one between two resets.  `leftover`, `overlapped`
and `raced` are history.

`SeatPlan` says what all this amounts to: one relation between students and machines and, per
machine, whom an approval still lets in.  A student sits at a machine as soon as both tables say so
(`SeatOf`); a login has used its pass as soon as the seat is written, although the row is deleted later, and an
approval holds as soon as the row before it is gone (`GrantOf`).  This is promised of requests one after the
other that are not broken off: a login that dies before it deletes the row leaves an approval that was used.

### ExecutionSlots and Grading

`ExecutionSlots` is `withExecutionSlot` and `setExecutionCeiling` over p-limit, which is
external: it serves its queue in order and starts what fits when a slot is given back or
the ceiling changes.  An execution that is tried again leaves its slot and queues anew.

`Grading` follows one student; students share only the slots and the coordinator.  Code,
verdict and score are known by a version number: `score[q] = 2` says that the points stored
for `q` were earned by the second submission.  A job reads the rows (`Finds`), marks rows by the same
condition in a later call (`Marks`), then runs one task per row read.  A task evaluates the
rules, asks for slots case by case, retries verdicts of the system's, and writes its verdict
to whatever row is stored by then.  A rejected write goes to the task's `catch`, a second
rejection fails the job while its other tasks go on (`ExcuseFails`); such a job and the next
one live in different places of `Jobs`.  An upsert of new code keeps the old status and
score, as research S3 of feature 004 records.  The synchronisation is one transaction and one
step.  Which value of `Ceiling` a reader of the settings applies is free; crash and recovery are one step,
since nothing is served between them.

Left out: results per test case and the subtask counts computed from them, section caps,
legacy `Error` rows, the rows a reset wipes, puzzles without any test case.

### Rehearsal

`config`, `users`, `phase` and `work` are the exam's tables as far as a rehearsal touches
them, each with whose it is (nobody's, the rehearsal's, a real exam's); `record` and `prior`
are its two rows of `system_settings`; `pc`, `lease`, `run`, `mutated`, `expired` are
`rehearsal.service.ts`, `at` and `step` the stage it races against a timer.  A stage is a
script of requests (`PaperScript` to `CleanupScript`), each of which the backend serves if it
is `Ready` for it; `Decisive` are those whose refusal ends the stage.  A script whose timer
won goes on by itself in `late`: its requests arrive, its answers go nowhere.  `Crash` leaves
the tables and the rows, `BootWipes` to `BootSaves` are the recovery at the next start.  The operator
configures, initialises and resets between rehearsals.  `blind`, `threw`, `orphaned` record
the ways in which the code loses track, which the properties name and the limits below list.
That the lease excludes judging and deployment tests is `JudgingWork`'s subject.

### ExamDelivery

One machine, whose requests are sealed once and may be brought again.  A handler is the
sequence of its calls (`Calls`), entered through the gate (`Entry`, with the two more calls
that the grace period needs after the exam's end); `held` and `saw` are what it read on the
way.  The envelope opens with the key it was sealed with and a token verifies with the key it
was signed with (`Decrypts`, `Verifies`): what the ciphers promise is taken as it is.
`nonces` is the memory of `ReplayProtectionService` with the time until which it remembers.
The admin's initialisations, phase changes and resets are written call by call (`todo`), one request
at a time; their phase steps are those of `ExamPhases`.

### MachineSession

One machine, its row in `device_key_maps` and its seat.  The handlers of `register` and
`disconnect`, `registerKey` and the removals (`unbindDevice`, `unbindUser`,
`unregisterDevice`, `reEntry`) each read the row, await, and save the fields that differ from
what they read: that the two copies may differ by then is the point of the model.  Any of their calls may be
rejected: the handler then ends where it is (`RegisterFails`, `DisconnectFails`, `KeyFails`, `SignInFails`,
`RemovalFails`), and what it has written stays.  An environment
report is one conditional UPDATE.  `Told` is the desktop client at a forced logout: it drops its
token.  `past` holds what the properties ask about: did two handlers of the row overlap
since the last registration that ran alone (`blurred`), did a registration or login cross a
removal, or did `unbindUser` stop before it told the machine (`crossed`), which sockets were lost in a restart
or in a rejected disconnect (`orphans`).

### Backup

`active` and `waiters` are the service's fields, `pc` each request's next call, from the
turn (`Asks`, `WaitsOn`, `TimesOut`, `LeavesLine`) over the copy (`stat`, `mkdtemp`, `open`,
`step`, `close`, `verify`) to the stream and the removal.  Any call may fail, the client may go at
any time, and a client that stops reading is never assumed to read on.

### Console

One page per behaviour, chosen at the start.  A list store is described by the announcements it
hears, those whose payload it adds and the operations after which it asks again (`Stores`), an
operation of the server by the lists it changes and what it announces (`Operations`): the two
tables are read off the stores and off the backend's broadcasts.  A call is sent, answered with
what the server has then, and its answer arrives in any order.  The report page is
`rehearsal.store.ts` and `deploy-test.store.ts`, which are alike: `generation`, `timer`, polling, restoring,
starting.  The settings page is `judge-settings.store.ts` against `getSettings`, which every visit of the view
asks (`Loads`), and `updateSettings`, which reads the configuration, merges and writes it in a later call.  The
file keeps what was typed; what the server puts in force and answers with is clamped (`InForce`, up to
`Ceiling`), and the page shows that answer.  A load that fails leaves no values, and with them neither fields
nor buttons (`Open`).

## What the runs check

A property that joins several is named for what they are about; its parts are defined next to it
and say what each means.

| run | instance | what it shows |
|---|---|---|
| `judging` | 1 student, 2 jobs, 2 test requests, 1 probe, 1 level of 1 execution and 2 workers | `LeaseIsKept`: the deploy lease is neither handed back ahead of its executions (unless a worker's save was rejected) nor, if writes land, left without an owner; `JobsAreCounted`; `OnlyDeadlineRewrites` a stored terminal report; the code refines `ExclusiveBackend`, in which a test is alone; `TestsEnd`: a report settles even if Piston hangs, the backend is freed if Piston answers |
| `lifecycle` | 1 admin, 5 configurations of 3 structures, 2 keys, 2 failures | `EnrolmentIsSound` (roster, key, paper), `PaperIsSound` (both halves of one configuration, that in force save for judger settings), `PhaseIsInStep` (switch and time stamp), `ResetLeavesNothing`, and every step of the phase is one of `ExamPhases` but for a misread one (`OnlyMisreadsTurnBack`) |
| `lifecycle_backwards` | 2 admins whose requests overlap, no failure | **violated**: `PhaseMovesForward` |
| `binding` | 2 machines, 2 students (one with a seat in the roster), 2 requests at once, 2 entry requests, 1 failure | `SeatsAreSound`: both tables agree, a lost seat is checked again; `GateIsSound`: who is seated may return, one pending request; `NoEviction`, also of requests that overlap; `SeatsFollowPlan`: the code refines `SeatPlan` |
| `binding_reentry` | 1 request at a time | **violated**: `RemovalEndsApproval` |
| `grading` | 2 questions of 2 cases, 1 retry, 2 submissions, 1 failure, ceilings asked for 0 and 3 in 1..2 | `ScoresAreDeserved` (a score has a verdict, a verdict is of the code judged), `NothingStranded` but in two known ways, `BoardIsCurrent`, `NoIdleSlot`, `CeilingHolds`, `JobsEnd` |
| `grading_stranded` | no failure | **violated**: `JudgingIsTransient` |
| `rehearsal` | 2 rehearsals, 2 requests of the operator, 1 fault | `ClaimPrecedesData`, `RunIsAccountedFor` (row, report and lease), `NothingIsLeft` (reported clean means clean, a residue blocks the next), `PassedMeansSat`, `RealExamIsSafe`, `RunEnds` |
| `backup` | 4 requests, 2 turns, 1 place in the queue, 1 directory that cannot be removed | `TurnsAreSound`, `NobodyWaitsForNothing`, `CopiesAreRemoved`, `RequestsSettle` |
| `session` | 2 sockets, 2 keys, 2 reports of each, 1 removal, 1 rejected call | `PresenceIsTrue`, `ReportsAreSound` (the verdict is the latest of its key), `RemovedAreTold` |
| `delivery` | 1 sealed request for paper, key or with code, brought again; 2 exams, 2 keys, 1 fault | `PaperIsOfExam`, `GateHolds`, `AcceptedOnce` |
| `console` | 2 changes, 3 calls in flight, 1 that fails, settings clamped at 1, for each page | `ListIsSound`, `ReportIsFollowed`, `NothingIsUndone` (typed, shown, uploaded), `ReportSettles` |

### Bounds

Two of each kind are what the properties tell apart: a student's running job and a second one asked for, a test that
drains and one that is refused, the admin who checked and the one who wrote.  Students meet in the coordinator only
through its counter, which two jobs drive as far as it matters; the theorems hold for any number.  Two workers are
one that is inside Piston with the one execution and one that sees the exam start meanwhile.  Five configurations
are the empty one, an exam, an amendment of it, the same exam with other judger settings and another exam.  Two keys
allow an exam after a reset; two failures one after a failure.  Two submissions are one code and its replacement, or
two questions; two cases a slot given back between cases; one retry the difference between the first and the last
attempt; ceilings asked for at 0 and 3 both ends of the clamp, with two executions that compete for one slot.

Two rehearsals are one that leaves something and one that finds it, and two requests of the
operator an exam configured and enrolled after it; a fault is a refused request, a rejected
call or a process that dies, and any stage may also be too late.  Four downloads are two that
work, one that waits and one that is refused or takes a place that came free.  Two sockets are
the old and the new, two keys a registration renewed under way.  In `session` the constraint
`Apart` keeps reports apart from removals and from rejected calls: a report changes the verdict only, which no
removal reads; `ReportsStaySound`, `PresenceStaysTrue` and `RemovedStayTold` hold of them together.  In `binding`
`OverlapsAreSmall` bounds what follows two requests at once: no two logins have raced, after which `NoEviction`
promises nothing, and no machine has asked to be let in yet, or the
first has asked once, registration is closed, both machines have a row, nothing has failed, and the run is
followed until the server is idle; what lies beyond is `LoginsEvictNobody`'s.  In `delivery` the same
request brought twice is what a replay is, one tick is one drift interval, and a
grace of 0 keeps its boundary while the exam's end is one tick away.  In `console` two changes are one
that a fetch shows and one that it misses; of the values typed, 1 and 2, the second is above the ceiling.

`MaxKeys`, `MaxFailures`, `MaxFaults`, `MaxEntries`, `MaxSubmissions`, `MaxRuns`, `MaxChanges`, `MaxExams`,
`MaxTime`, `MaxLitter`, `MaxSequence`, `MaxRemovals`, `MaxCalls` are guards, and the proofs show
where they do not matter.  Symmetry is used in the safety runs `session` (sockets) and `binding` (places of
requests) only.  Deadlock is not checked
where everything may be done: no more downloads, rehearsals, sockets, ticks or changes.

### Fairness

- `JudgingWork!FairSpec`: pending database calls settle, those of the workers included (`WorkerSettles`), an
  armed timer fires, a resolved promise's continuation runs, the container restarts a dead process.  Piston's answers are
  not assumed: `ReportSettles` does without; `BackendIsFreed` states them as a premise.
- `Grading!FairSpec`: while something is left to do for a job, some of it happens.  The client
  of Piston gives up at its own limits and reports a failure of the system's, so executions end.
  Nothing is assumed of the limiter: if its queue stopped, no continuation would be enabled.
- `Rehearsal!FairSpec`: the process runs on and its timers fire.  That a request is ever answered is
  not assumed, which is what the timers are for.
- `Backup!FairSpec`: timers fire and file and database calls return; no client has to read on or to
  go away, so `RequestsSettle` promises the stream and no more.
- `Console!FairSpec`: the network brings every call to its end, the page's timer fires, a run on the
  server ends; nobody has to open a page or start anything.

`ExamLifecycle`, `DeviceBinding`, `MachineSession` and `ExamDelivery` are checked for safety only:
every request in them runs to its end or is abandoned at a failure, and nothing in them waits.

## Findings

1. `lifecycle_backwards`: `changeState` checks a phase it read several awaits earlier; overlapping
   requests move the phase back or make it skip.
2. `binding_reentry`: a machine sent back to the gate keeps its unused pass and registers
   without a new approval.
3. `grading_stranded`: the rows of a job are read and marked by two calls over the same
   condition; a row stored in between becomes `Judging` and nobody judges it.

`PROJECT.json` quotes the documentation each one contradicts.

### Known limits

What follows is what the code does in cases that a property names and excuses, or that the model shows and no
property speaks of.  Each was met while modelling; none has a run of its own.

- **Deployment test.**  A rejected configuration read or report write in `start()` leaves the
  deployment lease taken, and judging is refused until a restart
  (`services/deploy-test.service.ts:105`; `specs/006-judger-deploy-test/research.md:54` says "Leases
  release in `finally`").  `LeaseHasOwnerIfDbWrites` excuses it.  The deadline may replace a report
  that is complete while its write is pending.  If the save with which a worker reports the start of the exam
  is rejected (`:172-185`), `frozen` is never set: the flow's `catch` stores `failed` and the lease is
  handed back while the other workers are still inside Piston, beside students who are admitted meanwhile; they
  then see the exam themselves and store `interrupted` over the failed report, or over that of a test started
  since.  `LeaseIsKept` and `OnlyDeadlineRewrites` excuse such runs (`torn`), and `ExclusiveBackend`
  has a name for what they leave behind (`abandoned`).
- **Phase.**  A rejected reading of the phase counts as UNINITIALIZED (`services/exam-state.service.ts:52-61`, "which
  grants nothing"), from which a request for INITIALIZED goes on: one admin may so take an exam in progress back
  to INITIALIZED, with the next machines registering again.  `OnlyMisreadsTurnBack` says that this is the only way.
  The same misreading is harmless in the phase gate, where UNINITIALIZED lets nothing pass, and in the admission of a
  rehearsal, which also asks for students and a paper.  A rejected write of the time stamp or of the registration
  switch leaves them behind the phase.  A deployment test whose readings of the phase are rejected takes the exam
  for not started, and is admitted or goes on beside it.
- **Configuration.**  `updateSettings` does not reissue the paper, whose meta carries the judger settings
  (`services/exam-config-crypto.service.ts:61`): machines check themselves with the former ones until the next
  configuration save.  A configuration save that read the key before a reset purged it stores the paper and
  the wrapped copy of the old key again (`services/init.service.ts:132` says they are dropped).
- **Entry.**  Overlapping entry requests of one machine leave two pending rows; a failed write
  between a login's two costs the student a new approval.
- **Judging.**  Code replaced while it is judged keeps its predecessor's verdict until it is judged
  again.
- **Rehearsal.**  If the paper stage times out, its checks are empty, so that `mutated` is false,
  cleanup is skipped and `cleanupCompleted` is stored as true, while the upload may still land
  (`services/rehearsal.service.ts:274-279, 304-305` and
  `specs/008-post-deploy-rehearsal/contracts/rehearsal-flow.md:95` promise otherwise).  A rejected
  write inside `start()` leaves the lease taken, and, after the claim, a record that is not terminal and
  owns the machine: a later start would then erase a real exam, which
  `services/rehearsal-startup.service.ts:15-17` rules out.  A prior configuration that was not
  forgotten serves the next rehearsal.  A failed cleanup is not retried by anything.
- **Session.**  A report checked under the former key that lands during `registerKey` survives it.  A
  registration or login that overlaps a removal may leave the machine its token; so may an `unbindUser` that is
  rejected between the seat and the forced logout, until the machine registers its socket again.  A disconnect whose
  call is rejected is logged, and the row stays online with a dead socket until the machine comes back.
- **Delivery.**  A machine that registers between a reset's wipe and its phase change survives the reset and may get
  a paper of the exam before (`stray`).  A reset that stopped half-way lets the next initialisation store a new key
  under the phase IN_PROGRESS.  `getExamKey` does not look at the phase again after the gate
  (`services/exam.service.ts:121-123`), so a key is released of whatever exam is stored when the handler comes to
  it.  A nonce is forgotten one drift interval after its arrival, whatever its stamp: a request stamped ahead of the
  server's clock may be accepted again from then until its stamp is out of date, for as long as it was ahead, up to
  a whole interval.  Between the write of the phase and that of its time stamp the grace period is counted from the
  previous change.
- **Console.**  Of two fetches that overlap, the older answer may come last.  An answer to `restoreLatest` that comes
  after the one to `start` replaces the newer run; a restore that failed leaves an active run without polls; the
  poll of a run that another console has replaced is answered 404 and retried for ever
  (`rehearsal.store.ts:53`, SC-010 in `specs/006-judger-deploy-test/spec.md:189`).  A draft typed
  while a save is out is dropped with the others (`judge-settings.store.ts:158`).  Of a load and a save that cross, the
  older answer may come last, and after a lost answer the page shows what was in force before the save, until
  it is visited again; an upload is not announced to it.  A configuration uploaded between the read and the write of
  `updateSettings` is lost.  An alert announced during a fetch disappears from the list.  Presence,
  phase changes of another console, the partial results of a failed job and a repeated violation are not announced.

## What is proved

Every theorem is for all values of the constants under the named assumptions of its module
(`CountsAssumption`, `JobsAssumption`, `NoneAssumption`; `BoundsAssumption`, `AdminsAssumption`,
`ConfigsAssumption`, `ContentAssumption`, `DefaultAssumption`; `RosterAssumption`, `NamesAssumption`, `PassAssumption`;
`JobBoundsAssumption`, `CasesAssumption`, `CeilingAssumption`; `LimitsAssumption`, `RequestsAssumption`;
`EndpointsAssumption`, `SettingsAssumption`), which TLC evaluates
in every run.  All are safety properties of `Spec`, by an inductive invariant: it holds initially,
each action preserves it (one step per action), and it implies the property.

- **`JudgingWorkProofs`**.  `TestIsAlone` is not inductive: that the coordinator refuses
  others says nothing unless the fields show who is in.  `IInv` adds that every run between
  admission and the end of its flow is visible as `deploy` or `draining`
  (`OccupantIsVisible`), that an armed or draining timer belongs to a flow that is not over
  (`TimerFollowsFlow`), that the counter is the number of running jobs (`CounterIsExact`,
  which needs `Jobs` finite) and that `live` names each of them (`LiveIsExact`).  From it:
  `TypeCorrect`, `TestRunsAlone`, `CounterNeverDrifts`, `NeverTwoJobsOfAStudent`.
  `IInv2` adds: while no call is rejected no run is torn or leaked (`WritesLand`) and the
  lease has an owner; workers are at work in a level the flow waits for, or in a torn run (`WorkersInLevel`);
  a process that is down runs no flow (`DownIsQuiet`); the deadline's write is the last one (`DeadlineIsLast`);
  the stored report is never ahead of its run (`ReportFollowsRun`) and is that of the run whose flow is on, save
  for a torn run's (`OwnReport`).  From it: `LeaseIsNeverOrphaned`, `LeaseOutlivesExecutions`, `ReportsAreFinal`
  and `CodeImplementsBackend`, the refinement of `ExclusiveBackend` step by step: only where calls may be
  rejected does a test leave executions behind.  Saves of different promises of one run may land in any order,
  except that the deadline's waits for those before it.
- **`ExamLifecycleProofs`**, for any number of admins whose requests overlap at every call:
  `TypeCorrect` (strengthened by what a request at each call must hold, `Sound`) and
  `PaperStaysWhole`.  The rest is under `SingleAdmin` (one request at a time; requests and process may
  still stop anywhere).  `OneInv` says, per call of the request under way, what has been written
  already and what has not, and, per number of failures, which parts of key, paper, switch and
  stamp may lag behind.  From it `ResetIsThorough`, `RosterStaysConfigured`,
  `EnrolledExamStaysReady`, `PaperStaysCurrent`, `RegistrationStaysInStep`, `StampStaysOfPhase`, and
  `OnlyMisreadsTurnPhaseBack`: a write of the phase that is no step of the chain is that of a misread one.
  `PhaseImplementsTheChain` is what remains of it where no call is rejected (`MaxFailures = 0`).
- **`DeviceBindingProofs`**, for any number of machines, students and overlapping requests:
  `TypeCorrect` and `LoginsEvictNobody`.  `LoginInv` says that, as long as no two logins
  raced, a login under way owns its machine and student: neither is together with anybody
  else (`Claimed`), and logins under way share nothing (`Apart`).  For requests one at a time, broken
  off anywhere: `SeatsStaySound` and `GateStaysSound`.  `OrderInv` says what the tables hold while
  nobody is at work (`Rested`: the newest entry request is the only one that can be pending, seats match and
  are guarded, a pass is for who sits there) and what each call of the one request may find
  different: the entry requests (`Requesting`), the seats (`Seating`: only at its machine, only
  between the two writes that take a seat or give it up) and the passes (`Passing`).
  `TablesFollowPlan` shows `SeatPlan` implemented step by step; `Leads` adds what a request found out for the
  write the plan sees: a login was let in by the roster or its pass, an approval is for who sits there or for anyone.
- **`GradingProofs`**, for any number of questions, places for jobs, cases,
  retries and submissions, and any integers asked for as ceilings.  Its first part shows of each
  operation of the limiter that it keeps `SlotsInv` (nobody is queued twice or both queued and
  served, and no slot is idle while somebody waits), whom it lets in or out, and that it starts
  nobody above the ceiling; the lemma under all of them, `Resumed`, counts what leaves the queue.
  The second part ties that to the tasks: exactly those in `executeAndJudge` hold or await a slot
  (`SlotsOfTasks`), one job runs at a time (`OneJob`), a job has no running tasks before it marks
  (`NotYetStarted`), nobody has code of a submission to come (`CodeIsOld`), tasks end before their
  job unless it was abandoned (`NoOrphans`), and a synchronised board has no writer left
  (`NobodyWrites`).  The four promises about rows and board are inductive together with these.
  From it the seven theorems from `TypeCorrect` to `CeilingIsKept`.
- **`RehearsalProofs`**, for any settings and any number of rehearsals, operations of the operator and
  faults, by four layers on `TypeOK`.  `ReportInv` reads lease, record and report off the place where the
  process stands: the record owns the machine from before the first change until somebody has settled it
  (`RunStaysAccountedFor`).  `LateInv` confines the requests that outlive their stage: one that can
  still store the paper, or put it back, is out only where the next start is refused.  With it `ClaimInv`
  follows, that a machine being claimed is clean and remembers no earlier configuration
  (`ClaimStaysFirst`), and `RealInv`, that neither a rehearsal nor a recovery meets a real exam
  (`RealExamStaysSafe`, an action property).  `SatInv` says stage by stage which traces were stored when
  its checks passed, and that no stage is skipped (`PassedStaysSat`).  `RestoreInv` follows the operator's
  configuration through paper, cleanup, catch, death and recovery: it is on the machine, or in the row it
  is put back from, and that row is not forgotten before (`NothingStaysLeft`).
- **`MachineSessionProofs`**, for any number of sockets, keys, reports, removals and rejected calls, by three
  layers. `ReportInv`: a copy `registerKey` holds and the row agree on the key and pair each verdict with its
  sequence, whatever lands between read and save (`ReportsStaySound`, with the types).  `PresenceInv`: unless
  handlers overlapped, the one at work is alone, what it read still holds, and the socket the row names can still be
  disconnected or was lost in a restart or a rejected disconnect (`PresenceStaysTrue`).  `RemovedInv`: a
  registration and a removal are apart or recorded as crossed, and until a removal has told the machine, what it
  read before still lets it do so; wherever a rejected call stops it, only `unbindUser` between seat and forced
  logout has to be recorded (`RemovedStayTold`).
- **`ConsoleAndBackupProofs`**, two parts that share lemmas about sets and sequences only. *Backup*, for any number
  of downloads, turns and places.  The two properties about turns are inductive together once one knows what the
  queue holds, which their lemmas about sequences without repetition say (`WithoutOne`, `WithoutFirst`,
  `WithLast`).  That a directory is one of a request at work needs more (`DirIsOfCopy`): a request that fails early
  leaves none because it has none yet. *Console*, for any number of changes, calls in flight and failures.
  `PageInv` has a part per kind of page.  A list (`ListInv`): unless fetches overlapped, one is out at most, and
  when none is due any more, every change the page was told of is in the list or in the answer that is out.  A
  report (`ReportInv`): each poll in flight has a generation of its own and only the last `beginPolling`'s is
  followed (`ChainInv`), an active run on an open page has such a poll, a timer or a restore ahead (`FollowedInv`),
  and no answer to come from `start` or `restoreLatest` is older than the run that is shown unless two crossed
  (`LastRunInv`).  The settings (`SettingsInv`): one save is out at most, and while it is, what was typed last is
  still the draft, so that a refusal loses nothing (`DraftInv`); unless calls crossed one is out at most, and what
  it has been answered, and the page as long as no save is on its way, are in force or of a replaced configuration
  (`FreshInv`).  From it `ListStaysSound`, `ReportStaysFollowed` and `NothingIsEverUndone`, each with the types.
- **`ExamDeliveryProofs`**, for any number of requests, exams, registrations and faults, any drift and
  any grace.  `AdminIsSound` says what the admin's request has written before each of its calls,
  `ExamIsWhole` that key and paper are of the exam that is on unless a reset is open, `RowIsOfExam` that
  a registration no reset has missed is of that exam, `HandlerIsSound` what a handler between its
  calls still knows: a paper in hand is that of the exam as long as the registration has not
  changed, and a request for key or code was let in after the start.  `NoncesAreKept` is all that
  `AcceptedOnce` needs beyond types.  One request of the admin at a time, as in the module.

The properties that the runs check as conjunctions (`LeaseIsKept`, `JobsAreCounted`,
`EnrolmentIsSound`, `PaperIsSound`, `PhaseIsInStep`, `ScoresAreDeserved`) have theorems of their own that
put their parts together: `LeaseStaysKept`, `JobsStayCounted`, `EnrolmentStaysSound`,
`PaperStaysSound`, `PhaseStaysInStep`, `ScoresStayDeserved`.

Of overlapping requests some facts are shown by theorem only, for any number of them: `PaperIsWhole`
under overlapping admins, `NoEviction` beyond the overlaps the run `binding` follows, and the promises of
`Grading` when an abandoned job's tasks overlap the next job.

### Only model-checked

Liveness (`TestsEnd`, `JobsEnd`, `RunEnds`, `RequestsSettle`, `ReportSettles`) is out of this prover's
reach: it needs fairness and what is enabled.  Every safety property of a passing run has a
theorem.  The properties of finding runs are
false, so nothing is to be proved of them, save that two of them hold under a condition
(`PhaseMovesForward` for one admin without rejected calls, `NothingStranded`).

## Not modelled

- Ciphers, schema validation, parsing, the rules engine, comparison of outputs: functions of
  their input, without state.
- Metrics of deployment tests: sums, percentiles, a quotient with remainder, without state and within reach of
  their unit tests.
- In the frontend: views, exports, the editor of the configuration, waiting for a judging job.
  `LOAD_TEST_MODE`, which switches checks off, is no exam's mode.
- What counts as a violation, broadcast messages (an append and a send), read-only endpoints
  beyond their being read at some time, the raw settings endpoints, schema migration, logging.
- Results per test case, subtask counts, section caps.
- Piston itself: an execution may answer at any later time.

## Plan

1. Abstract specifications: the machine in its prior state whenever no rehearsal owns
   it, implemented by `Rehearsal` but for the limits above.
2. `Rehearsal` composed with `JudgingWork` through the lease, instead of the lease alone.
3. The special rules of anti-cheat, and the subtask and section arithmetic of `Grading` against a
   reference definition.
