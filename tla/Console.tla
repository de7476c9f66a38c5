-------------------------------- MODULE Console --------------------------------
(***************************************************************************)
(* The admin's console: what a page shows against what the server has.     *)
(* Lists are fetched again when the server announces a change; the report  *)
(* of a rehearsal or deployment test is polled; the judge settings are     *)
(* drafted here and merged into the configuration there.  Calls overlap    *)
(* and their answers come in any order.  One page is looked at per run.    *)
(***************************************************************************)
EXTENDS Naturals, FiniteSets

CONSTANTS
  MaxChanges,   \* bound: operations that change what the page shows
  MaxCalls,     \* bound: calls of the page in flight
  MaxFailures,  \* bound: calls that fail
  Ceiling,      \* settings: the largest value the server puts in force
  None

ASSUME BoundsAssumption ==
  MaxChanges \in Nat /\ MaxCalls \in Nat /\ MaxFailures \in Nat /\ Ceiling \in Nat

\* The stores of the lists: the events at which a store fetches its list again, those whose payload it
\* adds to the list, and the operations of its own after which it asks again.
StudentStore == [hears |-> {"student"}, adds |-> {}, asks |-> {"bound"}]
ConnectionStore == [hears |-> {"connection"}, adds |-> {}, asks |-> {"bound", "answered"}]
ScoreStore == [hears |-> {"score", "score-update"}, adds |-> {}, asks |-> {"judged", "judgedInPart"}]
LogStore == [hears |-> {"log"}, adds |-> {}, asks |-> {}]
AlertStore == [hears |-> {}, adds |-> {"new-alert"}, asks |-> {}]
ManageStore == [hears |-> {}, adds |-> {}, asks |-> {"moved"}]
ReadinessStore == [hears |-> {"tick"}, adds |-> {}, asks |-> {}]
Stores == [student |-> StudentStore, connection |-> ConnectionStore, score |-> ScoreStore, log |-> LogStore,
           alerts |-> AlertStore, manage |-> ManageStore, readiness |-> ReadinessStore]

\* What the server does to the lists and what it announces of it.
Operation(changes, announces) == [changes |-> changes, announces |-> announces]
\* A seat is given or taken; an assistant rejects a machine; a machine asks to be let in.
Bound == Operation({"student", "connection", "readiness"}, {"connection", "student"})
Answered == Operation({"connection"}, {"connection"})
Asked == Answered
\* Environment reports, and sockets that come and go (an alert is stored if somebody sits there).
Reported == Operation({"student", "readiness"}, {"student"})
Presence == Operation({"connection", "readiness", "alerts"}, {"new-alert"})
Submitted == Operation({"score"}, {"score"})
\* A job that fails has judged some of its tasks and announces nothing.
Judged == Operation({"score"}, {"score-update"})
JudgedInPart == Operation({"score"}, {})
\* A student's action is logged, and checked: a violation seen before only gets a new time.
Logged == Operation({"log"}, {"log"})
Violated == Operation({"alerts"}, {"new-alert"})
ViolatedAgain == Operation({"alerts"}, {})
Moved == Operation({"manage"}, {})
Operations ==
  [bound |-> Bound, answered |-> Answered, asked |-> Asked, reported |-> Reported, presence |-> Presence,
   submitted |-> Submitted, judged |-> Judged, judgedInPart |-> JudgedInPart, logged |-> Logged,
   violated |-> Violated, violatedAgain |-> ViolatedAgain, moved |-> Moved]

VARIABLES
  page,       \* the store behind the page looked at
  data,       \* the server: changes so far; for a report the run, and is it over; for settings the file
  shown,      \* what the page shows of it
  calls,      \* calls in flight
  due,        \* lists: fetches the page has been told to make
  timer,      \* report: the poll that is armed
  generation, \* report: bumped on every cancel
  drafts,     \* settings: what the operator typed and has not saved
  mounted,    \* report: is the page open
  past        \* history: what the properties ask about

vars == <<page, data, shown, calls, due, timer, generation, drafts, mounted, past>>

Lists == DOMAIN Stores
Pages == Lists \union {"report", "settings"}
Run == [run : 0..MaxChanges, over : BOOLEAN]
File == [limit : 0..MaxChanges, upload : 0..MaxChanges]
Timers == [run : 1..MaxChanges, number : Nat]
ASSUME NoneAssumption == None \notin Nat \union Run \union File \union Timers
Kinds == {"fetch", "restore", "start", "poll", "load", "save"}
Shape == CASE page \in Lists -> 0..MaxChanges [] page = "report" -> Run [] OTHER -> File
\* The settings are not shown before they are loaded, nor when that failed.
Showable == IF page = "settings" THEN File \union {None} ELSE Shape

TypeOK ==
  /\ page \in Pages /\ data \in Shape /\ shown \in Showable
  /\ Cardinality(calls) <= MaxCalls
  /\ \A c \in calls : /\ c.kind \in Kinds /\ c.at \in {"sent", "read", "answered"}
                       /\ c.number \in Nat /\ c.run \in 0..MaxChanges /\ c.got \in {None} \union Shape
  /\ due \in 0..MaxChanges /\ generation \in Nat /\ mounted \in BOOLEAN
  /\ timer \in Timers \union {None}
  /\ drafts \in 1..MaxChanges \union {None}

Init ==
  /\ page \in Pages
  /\ data = (CASE page \in Lists -> 0 [] page = "report" -> [run |-> 0, over |-> TRUE]
               [] OTHER -> [limit |-> 0, upload |-> 0])
  /\ shown = (IF page = "settings" THEN None ELSE data) /\ calls = {} /\ due = 0 /\ timer = None /\ generation = 0 /\ drafts = None
  /\ mounted = FALSE
  /\ past = [changes |-> 0, failures |-> 0, told |-> 0, tangled |-> FALSE, excused |-> FALSE,
             known |-> 0, typed |-> None, uploaded |-> 0, crossed |-> FALSE]

--------------------------------------------------------------------------------
\* Calls and their answers.
Room == Cardinality(calls) < MaxCalls
\* A number that tells calls in flight apart.
Unused == CHOOSE n \in 0..MaxCalls : \A c \in calls : c.number # n
New(kind, number, run) == [kind |-> kind, at |-> "sent", number |-> number, run |-> run, got |-> None]
Returns(c, got) == (calls \ {c}) \union {[c EXCEPT !.at = "answered", !.got = got]}
MayFail == past.failures < MaxFailures
Counts(p) == [p EXCEPT !.failures = @ + 1]

--------------------------------------------------------------------------------
\* A list.
Unlisted == UNCHANGED <<page, timer, generation, drafts, mounted>>

\* (slip) an announcement that comes while a fetch is out is ignored
HearsWhenIdle(event) == event \in Stores[page].hears /\ calls = {}
Hears(event) == event \in Stores[page].hears
Adds(event) == event \in Stores[page].adds

\* The server changes the list.  The announcement arrives, or the socket is down and it is lost; whose
\* request it was asks for the list again.
Happens(op) ==
  /\ page \in Lists \intersect Operations[op].changes /\ past.changes < MaxChanges
  /\ data' = data + 1
  /\ \E arrives, mine \in BOOLEAN :
       LET heard == arrives /\ \E e \in Operations[op].announces : Hears(e)
           added == arrives /\ \E e \in Operations[op].announces : Adds(e)
           asked == mine /\ op \in Stores[page].asks
           known == arrives /\ Operations[op].announces \intersect
                                 (Stores[page].hears \union Stores[page].adds) # {} IN
       /\ due' = due + (IF heard THEN 1 ELSE 0) + (IF asked THEN 1 ELSE 0)
       /\ due' <= MaxChanges
       /\ shown' = IF added THEN shown + 1 ELSE shown
       /\ past' = [past EXCEPT !.changes = @ + 1, !.told = IF known \/ asked THEN data + 1 ELSE @,
                               !.tangled = @ \/ (added /\ calls # {}),
                               !.excused = @ \/ (added /\ shown # data)]
  /\ UNCHANGED calls /\ Unlisted

\* fetchStudents, fetchDevices, fetchSubmissions and so on; readiness is fetched every five seconds.
Fetches ==
  /\ page \in Lists /\ Room
  /\ \/ due > 0 /\ due' = due - 1
     \/ Hears("tick") /\ calls = {} /\ due' = due
  /\ calls' = calls \union {New("fetch", Unused, 0)}
  /\ past' = [past EXCEPT !.tangled = calls # {}, !.excused = @ /\ calls # {}]
  /\ UNCHANGED <<data, shown>> /\ Unlisted

ServesList(c) ==
  /\ c \in calls /\ c.kind = "fetch" /\ c.at = "sent"
  /\ calls' = Returns(c, data)
  /\ UNCHANGED <<data, shown, due, past>> /\ Unlisted

\* The answer replaces the list, whatever has been shown meanwhile; a failure leaves it and says so.
ShowsList(c) ==
  /\ c \in calls /\ c.kind = "fetch" /\ c.at = "answered"
  /\ calls' = calls \ {c}
  /\ \/ shown' = c.got /\ past' = past
     \/ MayFail /\ shown' = shown /\ past' = [Counts(past) EXCEPT !.excused = TRUE]
  /\ UNCHANGED <<data, due>> /\ Unlisted

ListStep ==
  \/ \E op \in DOMAIN Operations : Happens(op)
  \/ Fetches \/ \E c \in calls : ServesList(c) \/ ShowsList(c)

--------------------------------------------------------------------------------
\* A report: rehearsal.store, deploy-test.store (there a run is over when its work is drained as well).
OnReport == page = "report" /\ UNCHANGED <<page, due, drafts>>
Shows(got) == shown' = got
Chain == Cardinality({c \in calls : c.kind = "poll" /\ c.number = generation}) + (IF timer = None THEN 0 ELSE 1)

RunEnds == OnReport /\ ~ data.over /\ data' = [data EXCEPT !.over = TRUE]
           /\ UNCHANGED <<shown, calls, timer, generation, mounted, past>>

\* (slip) polls in flight are not outdated
CancelsTimerOnly == generation
\* cancelPolling: a poll in flight will find another generation.
Cancelled == generation + 1

\* onMounted, onBeforeUnmount
Mounts ==
  /\ OnReport /\ ~ mounted /\ Room /\ past.changes < MaxChanges
  /\ mounted' = TRUE /\ calls' = calls \union {New("restore", Unused, 0)}
  /\ past' = [past EXCEPT !.changes = @ + 1, !.excused = FALSE]
  /\ UNCHANGED <<data, shown, timer, generation>>
Unmounts ==
  /\ OnReport /\ mounted /\ mounted' = FALSE
  /\ generation' = Cancelled /\ timer' = None
  /\ UNCHANGED <<data, shown, calls, past>>

\* The button is disabled while a start is out or an active run is shown.
Starts ==
  /\ OnReport /\ mounted /\ Room /\ shown.over /\ ~ \E c \in calls : c.kind = "start"
  /\ calls' = calls \union {New("start", 0, 0)}
  /\ UNCHANGED <<data, shown, timer, generation, mounted, past>>

\* Another console starts a run.
StartsElsewhere ==
  /\ OnReport /\ data.over /\ data.run < MaxChanges
  /\ data' = [run |-> data.run + 1, over |-> FALSE]
  /\ UNCHANGED <<shown, calls, timer, generation, mounted, past>>

\* The server answers a start with the new run, with the one in flight, or with a refusal; it keeps the
\* latest report only, so a poll for a run before it gets none.
ServesReport(c) ==
  /\ OnReport /\ c \in calls /\ c.at = "sent" /\ c.kind \in {"restore", "start", "poll"}
  /\ \/ /\ c.kind = "start" /\ data.over /\ data.run < MaxChanges
        /\ data' = [run |-> data.run + 1, over |-> FALSE] /\ calls' = Returns(c, data')
     \/ /\ c.kind = "start" /\ data.over /\ data' = data /\ calls' = Returns(c, None)
     \/ /\ c.kind = "start" /\ ~ data.over /\ data' = data /\ calls' = Returns(c, data)
     \/ /\ c.kind = "restore" /\ data' = data /\ calls' = Returns(c, data)
     \/ /\ c.kind = "poll" /\ data' = data
        /\ calls' = Returns(c, IF c.run = data.run THEN data ELSE None)
  /\ UNCHANGED <<shown, timer, generation, mounted, past>>

Arms(run, number) == timer' = [run |-> run, number |-> number]

\* beginPolling and the first showing of a run handed over by restoreLatest or start.
BeginsPolling(c) ==
  /\ Shows(c.got)
  /\ IF c.got.run = 0 THEN UNCHANGED <<timer, generation>>
     ELSE /\ generation' = Cancelled
          /\ IF c.got.over THEN timer' = None ELSE Arms(c.got.run, Cancelled)

Knows(c) == [past EXCEPT !.known = IF c.got.run > @ THEN c.got.run ELSE @,
                         !.tangled = @ \/ \E d \in calls \ {c} : d.kind \in {"restore", "start"}]

Restores(c) ==
  /\ OnReport /\ c \in calls /\ c.kind = "restore" /\ c.at = "answered"
  /\ calls' = calls \ {c}
  /\ \/ /\ BeginsPolling(c)
        /\ past' = Knows(c)
     \/ MayFail /\ past' = [Counts(past) EXCEPT !.excused = TRUE] /\ UNCHANGED <<shown, timer, generation>>
  /\ UNCHANGED <<data, mounted>>

Started(c) ==
  /\ OnReport /\ c \in calls /\ c.kind = "start" /\ c.at = "answered"
  /\ calls' = calls \ {c}
  /\ \/ /\ c.got # None /\ BeginsPolling(c)
        /\ past' = Knows(c)
     \/ /\ c.got = None \/ MayFail
        /\ past' = IF c.got = None THEN past ELSE Counts(past)
        /\ UNCHANGED <<shown, timer, generation>>
  /\ UNCHANGED <<data, mounted>>

Polls ==
  /\ OnReport /\ timer # None /\ Room
  /\ calls' = calls \union {New("poll", timer.number, timer.run)} /\ timer' = None
  /\ UNCHANGED <<data, shown, generation, mounted, past>>

\* (slip) a poll that failed was the last one
GivesUp(c) == timer' = None
\* A failed poll is a lost connection: the report is marked stale and asked for again.
Retries(c) == Arms(c.run, c.number)

\* (slip) the generation is not looked at
CurrentAlways(c) == TRUE
Current(c) == c.number = generation

Polled(c) ==
  /\ OnReport /\ c \in calls /\ c.kind = "poll" /\ c.at = "answered"
  /\ calls' = calls \ {c}
  /\ \/ /\ ~ Current(c) /\ UNCHANGED <<shown, timer, past>>
     \/ /\ Current(c) /\ c.got # None /\ Shows(c.got) /\ past' = past
        /\ IF c.got.over THEN timer' = timer ELSE Arms(c.run, c.number)
     \/ /\ Current(c) /\ (c.got = None \/ MayFail)
        /\ past' = IF c.got = None THEN past ELSE Counts(past)
        /\ shown' = shown /\ Retries(c)
  /\ UNCHANGED <<data, generation, mounted>>

ReportStep ==
  \/ RunEnds \/ StartsElsewhere \/ Mounts \/ Unmounts \/ Starts \/ Polls
  \/ \E c \in calls : ServesReport(c) \/ Restores(c) \/ Started(c) \/ Polled(c)

--------------------------------------------------------------------------------
\* The judge settings.  The page has them only once they are loaded, and none of its fields or buttons
\* are there before.
OnSettings == page = "settings" /\ UNCHANGED <<page, due, timer, generation, mounted>>
Saving == \E c \in calls : c.kind = "save"
Open == shown # None

\* applyJudgeSettings: what the server puts in force of a file, and answers with, is within bounds; the
\* file keeps what was typed.
InForce(file) == [limit |-> IF file.limit > Ceiling THEN Ceiling ELSE file.limit, upload |-> file.upload]

\* Every visit of the view loads them anew.
Loads ==
  /\ OnSettings /\ Room
  /\ calls' = calls \union {New("load", Unused, 0)}
  /\ past' = [past EXCEPT !.crossed = calls # {}]
  /\ UNCHANGED <<data, shown, drafts>>

ServesSettings(c) ==
  /\ OnSettings /\ c \in calls /\ c.kind = "load" /\ c.at = "sent"
  /\ calls' = Returns(c, InForce(data))
  /\ UNCHANGED <<data, shown, drafts, past>>

\* (slip) what was shown stays when loading it again fails
KeepsValues == shown
\* A failure leaves no values rather than old ones.
Cleared == None

Loaded(c) ==
  /\ OnSettings /\ c \in calls /\ c.kind = "load" /\ c.at = "answered"
  /\ calls' = calls \ {c}
  /\ \/ shown' = c.got /\ past' = past
     \/ MayFail /\ shown' = Cleared /\ past' = Counts(past)
  /\ UNCHANGED <<data, drafts>>

\* setDraft: the fields stay open while a save is out.
Types ==
  /\ OnSettings /\ Open /\ past.changes < MaxChanges
  /\ drafts' = past.changes + 1
  /\ past' = [past EXCEPT !.changes = @ + 1, !.typed = past.changes + 1, !.tangled = Saving]
  /\ UNCHANGED <<data, shown, calls>>
Discards ==
  /\ OnSettings /\ Open /\ drafts # None /\ drafts' = None
  /\ past' = [past EXCEPT !.typed = None] /\ UNCHANGED <<data, shown, calls>>

Saves ==
  /\ OnSettings /\ Open /\ drafts # None /\ ~ Saving /\ Room
  /\ calls' = calls \union {New("save", drafts, 0)}
  /\ past' = [past EXCEPT !.crossed = @ \/ calls # {}]
  /\ UNCHANGED <<data, shown, drafts>>

\* updateSettings: read the configuration, merge, write all of it back.
ReadsFile(c) ==
  /\ OnSettings /\ c \in calls /\ c.kind = "save" /\ c.at = "sent"
  /\ calls' = (calls \ {c}) \union {[c EXCEPT !.at = "read", !.got = data]}
  /\ UNCHANGED <<data, shown, drafts, past>>

\* (slip) the settings are written without the rest of the file that was read
MergesIntoNothing(c) == [limit |-> c.number, upload |-> 0]
Merged(c) == [c.got EXCEPT !.limit = c.number]

WritesFile(c) ==
  /\ OnSettings /\ c \in calls /\ c.kind = "save" /\ c.at = "read"
  /\ data' = Merged(c) /\ calls' = Returns(c, InForce(Merged(c)))
  /\ past' = [past EXCEPT !.excused = @ \/ data.upload # c.got.upload]
  /\ UNCHANGED <<shown, drafts>>

\* (slip) the draft goes with the request, whether it was taken or not
DropsDraft(taken) == None
\* save(): what the server took is shown and every draft dropped; a refusal keeps them.
Kept(taken) == IF taken THEN None ELSE drafts

\* (slip) what was typed is shown as accepted
Echoed(c) == [c.got EXCEPT !.limit = c.number]
Applied(c) == c.got

\* A save may be refused, or stop before it has written, and its answer may be lost.
Saved(c) ==
  /\ OnSettings /\ c \in calls /\ c.kind = "save"
  /\ calls' = calls \ {c}
  /\ \/ c.at = "answered" /\ shown' = Applied(c) /\ drafts' = Kept(TRUE) /\ past' = past
     \/ /\ MayFail /\ shown' = shown /\ drafts' = Kept(FALSE)
        /\ past' = [Counts(past) EXCEPT !.crossed = @ \/ c.at = "answered"]
  /\ UNCHANGED data

\* Another console uploads a configuration; it brings settings of its own, in place of those saved.
Uploads ==
  /\ OnSettings /\ past.uploaded < MaxChanges
  /\ data' = [limit |-> 0, upload |-> past.uploaded + 1]
  /\ LET taken == drafts = None \/ \E c \in calls : c.kind = "save" /\ c.at = "answered" IN
     past' = [past EXCEPT !.uploaded = @ + 1, !.excused = FALSE, !.typed = IF taken THEN None ELSE @]
  /\ UNCHANGED <<shown, calls, drafts>>

SettingsStep ==
  \/ Loads \/ Types \/ Discards \/ Saves \/ Uploads
  \/ \E c \in calls : ServesSettings(c) \/ Loaded(c) \/ ReadsFile(c) \/ WritesFile(c) \/ Saved(c)

Next == ListStep \/ ReportStep \/ SettingsStep

Spec == Init /\ [][Next]_vars

\* The network brings every call to its end, timers fire, a run of the server ends; nobody has to start
\* a run or open a page.
FairSpec ==
  /\ Spec
  /\ WF_vars(RunEnds) /\ WF_vars(Polls)
  /\ WF_vars(\E c \in calls : ServesReport(c))
  /\ WF_vars(\E c \in calls : Restores(c) \/ Started(c) \/ Polled(c))

--------------------------------------------------------------------------------
\* A list at rest shows every change the page was told of, by an announcement or by an answer to its
\* own request, unless two of its fetches overlapped, an alert fell into a fetch, or a fetch failed
\* (the stores' data-update listeners and fetch functions).
ListIsFresh ==
  page \in Lists /\ calls = {} /\ due = 0 /\ ~ past.tangled /\ ~ past.excused => shown >= past.told

\* The page is one of the console's, and the list on it is up to date.
ListIsSound == TypeOK /\ ListIsFresh

\* A report is followed by at most one chain of polls, whatever is mounted, restored, started and torn
\* down; an open page that shows an active run has one, unless the restore at mounting is still out or
\* has failed.  A run once handed over is not replaced by an older one, unless two of starts and restores
\* crossed (rehearsal.store.ts, deploy-test.store.ts: generation, beginPolling, restoreLatest, start).
ReportIsFollowed ==
  page = "report" =>
    /\ Chain <= 1
    /\ mounted /\ ~ shown.over /\ ~ past.excused => Chain = 1 \/ \E c \in calls : c.kind = "restore"
    /\ ~ past.tangled => shown.run = past.known

\* What the operator typed last is still in the draft or has reached the configuration, unless it was
\* typed while a save was out or an upload has replaced it since.  At rest the page shows no settings or
\* those in force, which need not be those typed, unless an upload, which it is not told of, came after
\* its answer; or its calls crossed or a save's answer was lost, and it has not loaded them by itself
\* since.  And an uploaded configuration stays, unless it fell between the read and the write of a save
\* (judge-settings.store.ts loadSettings, save; admin-judger getSettings, updateSettings).
NothingIsUndone ==
  page = "settings" =>
    /\ past.typed # None /\ ~ past.tangled => drafts = past.typed \/ data.limit = past.typed
    /\ calls = {} /\ ~ past.crossed => shown = None \/ shown.upload # data.upload \/ shown = InForce(data)
    /\ ~ past.excused => data.upload = past.uploaded

\* An open page comes to show the end of the run it follows, or is closed, or could not restore it, or
\* another console has started a run since (then its polls are answered 404 and retried for ever).
ReportSettles ==
  page = "report" /\ mounted /\ ~ shown.over
    ~> ~ mounted \/ shown.over \/ past.excused \/ shown.run # data.run
================================================================================
