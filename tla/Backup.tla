-------------------------------- MODULE Backup --------------------------------
(***************************************************************************)
(* Downloads of a copy of the database.  A request asks for one of a few   *)
(* turns, waits in a short queue, copies the database into a directory of  *)
(* its own, streams the copy and removes it.  The client may go away at    *)
(* any time, a wait times out, and every file or database call may fail.   *)
(***************************************************************************)
EXTENDS Naturals, FiniteSets, Sequences, SequencesExt

CONSTANTS
  Requests,       \* downloads asked for
  MaxActive,      \* MAX_ACTIVE_BACKUPS
  MaxWaiting,     \* MAX_WAITING_BACKUPS
  MaxLitter       \* bound: directories that cannot be removed

ASSUME LimitsAssumption == MaxActive \in Nat \ {0} /\ MaxWaiting \in Nat /\ MaxLitter \in Nat
ASSUME RequestsAssumption == IsFiniteSet(Requests)

VARIABLES
  active, waiters,  \* DatabaseBackupService
  pc,               \* each request: its next call
  aborted,          \* each request: its AbortSignal
  dir,              \* each request: its private directory exists
  litter            \* history: whose directory a failed rm left behind

backupVars == <<active, waiters, pc, aborted, dir, litter>>

Calls == {"stat", "mkdtemp", "open", "step", "close", "verify"}
Pcs == {"idle", "wait", "turn", "unwind", "made", "stream", "rm", "over"} \union Calls

BackupTypeOK ==
  /\ active \in 0..MaxActive
  /\ waiters \in Seq(Requests) /\ Len(waiters) <= MaxWaiting
  /\ pc \in [Requests -> Pcs]
  /\ aborted \in [Requests -> BOOLEAN] /\ dir \in [Requests -> BOOLEAN]
  /\ litter \subseteq Requests

BackupInit ==
  /\ active = 0 /\ waiters = <<>>
  /\ pc = [r \in Requests |-> "idle"]
  /\ aborted = [r \in Requests |-> FALSE] /\ dir = [r \in Requests |-> FALSE]
  /\ litter = {}

--------------------------------------------------------------------------------
\* Whoever holds a turn: from the moment it is given until release.
Holders == {r \in Requests : pc[r] \notin {"idle", "wait", "over"}}

Goes(r, to) == pc' = [pc EXCEPT ![r] = to]

\* (slip) the turn is passed on and the counter lowered
ReleasesTwice(r) ==
  IF waiters = <<>> THEN active' = active - 1 /\ UNCHANGED waiters /\ Goes(r, "over")
  ELSE /\ active' = active - 1 /\ waiters' = Tail(waiters)
       /\ pc' = [pc EXCEPT ![r] = "over", ![Head(waiters)] = "turn"]

\* (slip) the counter is lowered first and the next in line asks again
ReleasesToAnybody(r) ==
  /\ active' = active - 1 /\ UNCHANGED waiters /\ Goes(r, "over")

\* release: the turn is passed on to the first that waits.
Releases(r) ==
  IF waiters = <<>> THEN active' = active - 1 /\ UNCHANGED waiters /\ Goes(r, "over")
  ELSE /\ waiters' = Tail(waiters) /\ UNCHANGED active
       /\ pc' = [pc EXCEPT ![r] = "over", ![Head(waiters)] = "turn"]

\* (slip) one turn too many
AsksBeyond(r) ==
  /\ pc[r] = "idle"
  /\ active <= MaxActive /\ active' = active + 1 /\ Goes(r, "turn")
  /\ UNCHANGED <<waiters, aborted, dir, litter>>

\* acquire: a turn, a place in the queue, or a refusal.
Asks(r) ==
  /\ pc[r] = "idle"
  /\ \/ /\ active < MaxActive
        /\ active' = active + 1 /\ Goes(r, "turn") /\ UNCHANGED waiters
     \/ /\ active >= MaxActive /\ Len(waiters) < MaxWaiting
        /\ waiters' = Append(waiters, r) /\ Goes(r, "wait") /\ UNCHANGED active
     \/ /\ active >= MaxActive /\ Len(waiters) >= MaxWaiting
        /\ Goes(r, "over") /\ UNCHANGED <<active, waiters>>
  /\ UNCHANGED <<aborted, dir, litter>>

\* (slip) who stops waiting keeps his place in the queue
StaysInLine(r) == UNCHANGED waiters /\ Goes(r, "over")
\* remove: the waiter leaves the queue and its promise is rejected.
LeavesLine(r) ==
  \E i \in 1..Len(waiters) : waiters[i] = r /\ waiters' = RemoveAt(waiters, i) /\ Goes(r, "over")

\* (slip) nobody waits in vain as long as his client stays
WaitsOn(r) ==
  /\ pc[r] = "wait" /\ aborted[r]
  /\ LeavesLine(r)
  /\ UNCHANGED <<active, aborted, dir, litter>>

TimesOut(r) ==
  /\ pc[r] = "wait"
  /\ LeavesLine(r)
  /\ UNCHANGED <<active, aborted, dir, litter>>

\* The client goes away.  The listener of a waiter removes it; who was given his turn meanwhile has no
\* listener any more and sees the signal at its next checkCancelled.
Aborts(r) ==
  /\ pc[r] \notin {"idle", "over"} /\ ~ aborted[r]
  /\ aborted' = [aborted EXCEPT ![r] = TRUE]
  /\ IF pc[r] = "wait" THEN LeavesLine(r) ELSE UNCHANGED <<waiters, pc>>
  /\ UNCHANGED <<active, dir, litter>>

--------------------------------------------------------------------------------
\* createSnapshot before it has a directory: a failure is create's.
FailsEarly(r) ==
  /\ \/ pc[r] = "turn" /\ aborted[r]
     \/ pc[r] \in {"stat", "mkdtemp"}
  /\ Releases(r)
  /\ UNCHANGED <<aborted, dir, litter>>

Begins(r) ==
  /\ pc[r] = "turn" /\ ~ aborted[r] /\ Goes(r, "stat")
  /\ UNCHANGED <<active, waiters, aborted, dir, litter>>

Looks(r) ==
  /\ pc[r] = "stat" /\ Goes(r, "mkdtemp")
  /\ UNCHANGED <<active, waiters, aborted, dir, litter>>

MakesDirectory(r) ==
  /\ pc[r] = "mkdtemp"
  /\ dir' = [dir EXCEPT ![r] = TRUE]
  /\ Goes(r, IF aborted[r] THEN "unwind" ELSE "open")
  /\ UNCHANGED <<active, waiters, aborted, litter>>

\* What comes after each call on the copy, and whether the signal is looked at in between.
After == [open |-> "step", step |-> "close", close |-> "verify", verify |-> "made"]
Checked == {"open", "step", "verify"}

\* The call lands.  A step that is busy, or leaves pages to copy, is repeated: nothing changes.
Lands(r) ==
  /\ pc[r] \in DOMAIN After
  /\ Goes(r, IF pc[r] \in Checked /\ aborted[r] THEN "unwind" ELSE After[pc[r]])
  /\ UNCHANGED <<active, waiters, aborted, dir, litter>>

\* It fails, or the deadline of the copy is over, or the signal is seen between two steps.
Breaks(r) ==
  /\ pc[r] \in DOMAIN After /\ Goes(r, "unwind")
  /\ UNCHANGED <<active, waiters, aborted, dir, litter>>

\* (slip) the catch leaves the directory to the operating system
RemovesNothing(r) == UNCHANGED <<dir, litter>>
\* rm of the private directory, which may fail.
Removes(r) ==
  \/ dir' = [dir EXCEPT ![r] = FALSE] /\ UNCHANGED litter
  \/ Cardinality(litter) < MaxLitter /\ litter' = litter \union {r} /\ UNCHANGED dir

\* The catch of createSnapshot, then that of create.
Unwinds(r) ==
  /\ pc[r] = "unwind"
  /\ Removes(r) /\ Releases(r)
  /\ UNCHANGED aborted

\* download: the copy is streamed unless the client is gone, and removed in the finally.
Streams(r) ==
  /\ pc[r] = "made" /\ Goes(r, IF aborted[r] THEN "rm" ELSE "stream")
  /\ UNCHANGED <<active, waiters, aborted, dir, litter>>

Delivers(r) ==
  /\ pc[r] = "stream" /\ Goes(r, "rm")
  /\ UNCHANGED <<active, waiters, aborted, dir, litter>>

\* (slip) the turn is kept if the directory cannot be removed
CleansUpOrKeeps(r) ==
  /\ pc[r] = "rm"
  /\ \/ dir' = [dir EXCEPT ![r] = FALSE] /\ Releases(r) /\ UNCHANGED litter
     \/ Cardinality(litter) < MaxLitter /\ litter' = litter \union {r} /\ Goes(r, "over") /\ UNCHANGED <<active, waiters, dir>>
  /\ UNCHANGED aborted

CleansUp(r) ==
  /\ pc[r] = "rm"
  /\ Removes(r) /\ Releases(r)
  /\ UNCHANGED aborted

--------------------------------------------------------------------------------
Works(r) ==
  \/ FailsEarly(r) \/ Begins(r) \/ Looks(r) \/ MakesDirectory(r) \/ Lands(r) \/ Breaks(r)
  \/ Unwinds(r) \/ Streams(r) \/ CleansUp(r)

BackupNext ==
  \E r \in Requests : Asks(r) \/ TimesOut(r) \/ Aborts(r) \/ Works(r) \/ Delivers(r)

BackupSpec == BackupInit /\ [][BackupNext]_backupVars

\* Timers fire, and file and database calls return; whether a client reads on is its own affair.
BackupFairSpec == BackupSpec /\ \A r \in Requests : WF_backupVars(TimesOut(r)) /\ WF_backupVars(Works(r))

--------------------------------------------------------------------------------
\* database-backup.service.ts:93-129: every turn taken is one request's and every request at work has
\* its turn, however waiting, timing out, going away and being served interleave.
TurnsAreCounted == active = Cardinality(Holders)

\* The queue holds exactly those who still wait, each once: a turn is never given to one that has gone.
LineIsOfWaiters ==
  /\ ToSet(waiters) = {r \in Requests : pc[r] = "wait"}
  /\ \A i, j \in 1..Len(waiters) : waiters[i] = waiters[j] => i = j

\* Turns, queue and directories are those of the requests under way.
TurnsAreSound == BackupTypeOK /\ TurnsAreCounted /\ LineIsOfWaiters

\* Nobody waits while a turn is free, so a newcomer never overtakes the queue.
NobodyWaitsForNothing == waiters # <<>> => active = MaxActive

\* A copy of the whole exam is on the disk only while its request works: however a backup ends, the
\* directory is gone unless removing it failed; so at most MaxActive copies exist otherwise.
CopiesAreRemoved == \A r \in Requests : dir[r] => r \in Holders \/ r \in litter

\* However many clients stop reading, a request gets as far as its stream or an end.
RequestsSettle == \A r \in Requests : pc[r] # "idle" ~> pc[r] \in {"stream", "over"}
================================================================================
